-------------------------- MODULE StoreProperties ---------------------------
(***************************************************************************)
(* What is checked of the locked steps of module Store.                    *)
(***************************************************************************)
EXTENDS Store, SequencesExt

Places == {"idle", "create", "lock", "load", "save", "list", "remove", "unlist",
           "emit", "publish", "unlock"}

\* The types of the variables; the lock names a pod in Redis, a task in memory.
TypeOK ==
    /\ backend \in Backend
    /\ state \in Seq(Task) \cup {None}
    /\ listed \in BOOLEAN
    /\ lock \in (IF backend = "redis" THEN Pod ELSE Task) \cup {None}
    /\ task \in [Task -> [at : Places, op : Requests \cup {"reap", None},
                          copy : Seq(Task) \cup {None}]]
    /\ answer \in [Task -> {None, "created", "taken", "done", "found", "rejected",
                            "removed", "not found", "busy", "absent"}]
    /\ shown \in [Watched -> Seq(Task)]
    /\ events \in [Watched -> Seq(Seq(Task))]

-----------------------------------------------------------------------------
(* One after the other.                                                    *)

\* Between the load of a room and the last write of the step.
Writing(t) == task[t].at \in {"save", "list", "remove", "unlist"} /\ Op(t) # "create"

\* No two steps are between the load of a room and the write of what they
\* made of it, on one pod or on two (store.rs:32-35).
OneWriter == \A t, u \in Task : Writing(t) /\ Writing(u) => t = u

\* The room as its users see it.
Register == INSTANCE AtomicRoom WITH room <- state

\* Every request takes effect at one instant or not at all, whatever the
\* others and the reapers do meanwhile and wherever a pod crashes: no change is
\* lost, none comes back with a room that was removed, and whoever is told
\* that it worked has changed the room (locked_step).
Atomic == Register!Spec

-----------------------------------------------------------------------------
(* What the clients see.                                                   *)

\* What is under way to a pod arrives in the order in which it was stored: it is
\* published before the lock is released (with_lock, emit).
EventsInOrder ==
    \A p \in Watched : \A i, j \in 1..Len(events[p]) :
        i <= j => IsPrefix(events[p][i], events[p][j])

\* The subscriber of a pod forwards a message of another (run_once).
Forwards(p) ==
    events[p] # <<>> /\ shown'[p] = Head(events[p]) /\ events'[p] = Tail(events[p])

\* A pod's clients are shown the states of a room in the order in which they
\* were stored, with one exception: a message of another pod may arrive when the
\* pod itself has stored and shown a newer state, and its clients go back to what
\* that pod had stored (emit delivers to its own sessions at once, run_once to
\* those of the others when it comes to it).  In memory they never go back.
OlderOnlyForwarded ==
    [][\A p \in Watched : shown'[p] # shown[p] =>
          \/ shown'[p] = <<>>
          \/ IsPrefix(shown[p], shown'[p])
          \/ backend = "redis" /\ Forwards(p) /\ IsPrefix(shown'[p], shown[p])]_vars

-----------------------------------------------------------------------------
(* What must happen.                                                       *)

\* The lock of a task that crashed is released (store.rs:28-31).
LockIsFreed == lock # None ~> lock = None

\* A code whose room has expired, or was half deleted, is cleaned up as long
\* as some pod reaps (reap_orphaned_rooms).
DanglingCodesGo == (listed /\ state = None) ~> (~listed \/ state # None)
=============================================================================
