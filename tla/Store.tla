------------------------------- MODULE Store --------------------------------
(***************************************************************************)
(* One room code in the store and the tasks that work on it: the locked    *)
(* step of rooms.rs (lock, load, change, save or delete, emit, unlock)     *)
(* over the two backends of store.rs.  Between any two awaits of a task    *)
(* the others take steps, and a pod may crash.                             *)
(*                                                                         *)
(* A room's content is the sequence of the tasks whose changes are in it,  *)
(* its creator first: a lost change is missing from it.                    *)
(*                                                                         *)
(* Redis: the lock is a key with a time to live that holds the name of the *)
(* pod, and a State reaches the clients of the other pods as a message     *)
(* that each of them forwards when it comes to it.  Memory: the lock is a  *)
(* permit that belongs to the task, and there is one process, whatever     *)
(* PodOf says; it does not crash (the rooms would be gone as well).        *)
(***************************************************************************)
EXTENDS Naturals, Sequences

CONSTANTS Task,        \* the tasks of callers and the reapers
          Reaper,      \* the tasks of tick_once that reap
          Asks,        \* the requests each of the others makes
          Pod, PodOf,  \* the pods and the pod of each task
          Watched,     \* the pods whose clients are looked at
          Backend,     \* the values of STORAGE to consider
          MayCrash,    \* the pods that may crash
          Faults,      \* "outlive": a step takes longer than a time to live
                       \* "collision": a new room's code is one in use
                       \* "error": a Redis command fails
          MaxChanges,  \* bound on the changes to a room
          MaxUnderWay, \* bound: no State that is not stored with more under way
          None

Requests == {"step", "try", "check", "create"}

ASSUME StoreAssumption ==
    /\ Reaper \subseteq Task /\ PodOf \in [Task -> Pod] /\ MayCrash \subseteq Pod
    /\ Watched \subseteq Pod
    /\ Asks \in [Task \ Reaper -> SUBSET Requests]
    /\ Backend \subseteq {"memory", "redis"}
    /\ Faults \subseteq {"outlive", "collision", "error"}
    /\ MaxChanges \in Nat /\ MaxUnderWay \in Nat

ASSUME NoneAssumption == None \notin Task \cup Pod \cup Seq(Task) \cup STRING

VARIABLES
    backend,   \* STORAGE
    state,     \* room:{code}, None without
    listed,    \* the code is in room:codes
    lock,      \* room:lock:{code}: who holds it, None without
    task,      \* where each task is, in which request, and the room it has loaded
    answer,    \* what a task's caller is told
    shown,     \* the last State sent to the clients of each pod
    events     \* room:events:{code}: what each pod has yet to forward

clients == <<shown, events>>
vars == <<backend, state, listed, lock, task, answer, clients>>

Idle == [at |-> "idle", op |-> None, copy |-> None]

Init ==
    /\ backend \in Backend
    /\ state = None /\ listed = FALSE /\ lock = None
    /\ task = [t \in Task |-> Idle]
    /\ answer = [t \in Task |-> None]
    /\ shown = [p \in Watched |-> <<>>] /\ events = [p \in Watched |-> <<>>]

\* Mutant: the lock does not name its pod.
TaskName(t) == t

\* What a held lock says of its holder.
NameOf(t) == IF backend = "redis" THEN PodOf[t] ELSE t

At(t, place) == task[t].at = place
Op(t) == task[t].op

\* Mutant: unlock before emit.
AfterThenEmit(t) ==
    CASE Op(t) = "create" -> [list |-> "idle"]
      [] Op(t) \in {"check", "reap"} -> [list |-> "unlock", unlock |-> "idle"]
      [] Op(t) \in {"step", "try"} ->
            [list |-> "unlock", emit |-> "publish", publish |-> "idle",
             unlock |-> IF task[t].copy = None THEN "idle" ELSE "emit"]

\* The order of what follows a write.
After(t) ==
    CASE Op(t) = "create" -> [list |-> "idle"]
      [] Op(t) \in {"check", "reap"} -> [list |-> "unlock", unlock |-> "idle"]
      [] Op(t) \in {"step", "try"} ->
            [list |-> "emit", emit |-> "publish", publish |-> "unlock",
             unlock |-> "idle"]

Go(t, place, room) ==
    task' = [task EXCEPT ![t] =
        IF place = "idle" THEN Idle ELSE [at |-> place, op |-> Op(t), copy |-> room]]

Goto(t, place) == Go(t, place, task[t].copy)

Tell(t, word) == answer' = [answer EXCEPT ![t] = word]

\* Whether a command of Redis succeeds; if not, it reads or writes nothing.
Success == IF backend = "redis" /\ "error" \in Faults THEN BOOLEAN ELSE {TRUE}

Write(ok, old, new) == IF ok THEN new ELSE old

\* The pods whose sessions a pod reaches by itself.
Near(p) == IF backend = "redis" THEN {p} ELSE Pod

\* broadcast_local
Show(pods, room) == shown' = [p \in Watched |-> IF p \in pods THEN room ELSE shown[p]]

\* Bound.
FewUnderWay == \A p \in Watched : Len(events[p]) < MaxUnderWay

-----------------------------------------------------------------------------
(* Requests, and the lock.                                                 *)

Begin(t, what, place) ==
    /\ At(t, "idle")
    /\ task' = [task EXCEPT ![t] = [at |-> place, op |-> what, copy |-> None]]
    /\ Tell(t, None)
    /\ UNCHANGED <<backend, state, listed, lock, clients>>

\* locked_step, try_locked_step, check_room; create_room takes no lock.
Request(t, what) ==
    /\ t \notin Reaper /\ what \in Asks[t]
    /\ Begin(t, what, IF what = "create" THEN "create" ELSE "lock")

\* reap_orphaned_rooms, for a code it found in room:codes.
Reap(t) == t \in Reaper /\ listed /\ Begin(t, "reap", "lock")

\* Mutant: without NX.
TryLockAnyway(t) ==
    /\ At(t, "lock")
    /\ lock' = NameOf(t)
    /\ Goto(t, "load")
    /\ UNCHANGED <<backend, state, listed, answer, clients>>

\* try_lock that succeeds
TryLock(t) ==
    /\ At(t, "lock") /\ lock = None
    /\ lock' = NameOf(t)
    /\ Goto(t, "load")
    /\ UNCHANGED <<backend, state, listed, answer, clients>>

\* try_lock that fails: acquire_lock tries again, the others give up.  For
\* check_room there is no room then.
Busy(t) ==
    /\ At(t, "lock") /\ Op(t) # "step"
    /\ lock # None \/ FALSE \in Success
    /\ Goto(t, "idle")
    /\ Tell(t, IF Op(t) = "check" THEN "absent" ELSE "busy")
    /\ UNCHANGED <<backend, state, listed, lock, clients>>

\* unlock: compare and delete, or drop the permit.
Unlock(t) ==
    /\ At(t, "unlock")
    /\ \E ok \in Success :
          lock' = IF lock = NameOf(t) THEN Write(ok, lock, None) ELSE lock
    /\ Goto(t, After(t)["unlock"])
    /\ UNCHANGED <<backend, state, listed, answer, clients>>

-----------------------------------------------------------------------------
(* Under the lock.  A load and the change it is for have no await between. *)

\* Mutant: the reaper looks at rooms only.
NotFoundIsSkipped(t) == Goto(t, "unlock") /\ Tell(t, "not found")

\* with_lock, check_room and reap_orphaned_rooms without a room.  The reaper
\* deletes what is left of it.
NotFound(t) ==
    /\ Goto(t, IF Op(t) = "reap" THEN "remove" ELSE "unlock")
    /\ Tell(t, "not found")

\* Ok and a change that has to be saved; check_room saves in any case.
Changed(t, room) ==
    /\ \/ Op(t) # "reap" /\ Len(room) < MaxChanges /\ Go(t, "save", Append(room, t))
       \/ Op(t) = "check" /\ Go(t, "save", room)
    /\ UNCHANGED answer

\* Ok, removed or orphaned; the driver's try_locked_step removes no room.
Removed(t, room) ==
    /\ Op(t) \in {"step", "reap"}
    /\ Go(t, "remove", room)
    /\ UNCHANGED answer

\* Ok without a change, which a step may tell all the same, or not orphaned
Unchanged(t, room) ==
    /\ \/ Op(t) # "check" /\ Goto(t, "unlock")
       \/ /\ Op(t) = "step" /\ FewUnderWay
          /\ Go(t, "emit", room)
    /\ Tell(t, "done")

\* Err
Rejected(t) ==
    Op(t) \in {"step", "try"} /\ Goto(t, "unlock") /\ Tell(t, "rejected")

Load(t) ==
    /\ At(t, "load")
    /\ \E ok \in Success :
          LET room == Write(ok, None, state)
          IN  IF room = None THEN NotFound(t)
              ELSE \/ Changed(t, room) \/ Removed(t, room)
                   \/ Unchanged(t, room) \/ Rejected(t)
    /\ UNCHANGED <<backend, state, listed, lock, clients>>

\* save: the state first, the code afterwards.  Nobody is told of a failure.
Save(t) ==
    /\ At(t, "save")
    /\ \E ok \in Success :
          /\ state' = Write(ok, state, task[t].copy)
          /\ Goto(t, IF ok THEN "list" ELSE After(t)["list"])
    /\ Tell(t, IF Op(t) = "check" THEN "found" ELSE "done")
    /\ UNCHANGED <<backend, listed, lock, clients>>

List(t) ==
    /\ At(t, "list")
    /\ \E ok \in Success :
          /\ listed' = Write(ok, listed, TRUE)
          /\ Tell(t, IF ok \/ Op(t) # "create" THEN answer[t] ELSE "taken")
    /\ Goto(t, After(t)["list"])
    /\ UNCHANGED <<backend, state, lock, clients>>

\* delete
Delete(t) ==
    /\ At(t, "remove")
    /\ \E ok \in Success : state' = Write(ok, state, None)
    /\ Tell(t, IF task[t].copy = None THEN answer[t] ELSE "removed")
    /\ Goto(t, "unlist")
    /\ UNCHANGED <<backend, listed, lock, clients>>

\* delete, and the sessions of a room that was there.  In memory the lock's entry
\* goes, too: the next task gets a new lock.  What a step has to tell of the room
\* reaches other pods only; there may be a State of it among the messages.
Unlist(t) ==
    /\ At(t, "unlist")
    /\ \E ok \in Success : listed' = Write(ok, listed, FALSE)
    /\ lock' = IF backend = "memory" THEN None ELSE lock
    /\ IF task[t].copy = None THEN UNCHANGED shown ELSE Show(Near(PodOf[t]), <<>>)
    /\ \/ Op(t) = "reap" /\ Goto(t, "unlock")
       \/ /\ Op(t) # "reap"
          /\ \/ Go(t, "publish", None)
             \/ /\ task[t].copy # None /\ FewUnderWay
                /\ Go(t, "publish", Append(task[t].copy, t))
    /\ UNCHANGED <<backend, state, answer, events>>

\* emit, to the sessions of this pod
Emit(t) ==
    /\ At(t, "emit")
    /\ Show(Near(PodOf[t]), task[t].copy)
    /\ Goto(t, After(t)["emit"])
    /\ UNCHANGED <<backend, state, listed, lock, answer, events>>

\* ... and to the other pods, which drop what is their own.
Publish(t) ==
    /\ At(t, "publish")
    /\ \E ok \in Success :
          events' = IF ok /\ task[t].copy # None
                    THEN [p \in Watched |-> IF p \in Near(PodOf[t]) THEN events[p]
                                       ELSE Append(events[p], task[t].copy)]
                    ELSE events
    /\ Goto(t, After(t)["publish"])
    /\ UNCHANGED <<backend, state, listed, lock, answer, shown>>

-----------------------------------------------------------------------------
\* A code nobody uses, hears of or is about to clean up.
Unused ==
    /\ state = None /\ ~listed
    /\ \A t \in Task : task[t].at \in {"idle", "create"}
    /\ \A p \in Watched : shown[p] = <<>> /\ events[p] = <<>>

\* Mutant: without NX.
CreateAnyway(t) ==
    /\ At(t, "create")
    /\ Tell(t, "created") /\ state' = <<t>> /\ Show(Near(PodOf[t]), <<t>>)
    /\ Goto(t, "list")
    /\ UNCHANGED <<backend, listed, lock, events>>

\* create.  In memory the room is there before the code is known to be taken.
\* create_room tries another code after an error, too.
Create(t) ==
    /\ At(t, "create")
    /\ Unused \/ "collision" \in Faults \/ (backend = "redis" /\ state # None)
    /\ \E ok \in Success :
          IF ok /\ state = None
          THEN /\ Tell(t, "created") /\ state' = <<t>> /\ Goto(t, "list")
               /\ Show(Near(PodOf[t]), <<t>>)
          ELSE /\ Tell(t, "taken") /\ Goto(t, "idle")
               /\ state' = IF backend = "memory" THEN <<t>> ELSE state
               /\ UNCHANGED shown
    /\ UNCHANGED <<backend, listed, lock, events>>

-----------------------------------------------------------------------------
(* The clients.                                                            *)

\* run_once: the subscriber forwards the next message of the others.
Deliver(p) ==
    /\ events[p] # <<>>
    /\ Show({p}, Head(events[p]))
    /\ events' = [events EXCEPT ![p] = Tail(@)]
    /\ UNCHANGED <<backend, state, listed, lock, task, answer>>

\* remove_session of the last clients.  What was sent to those of a room that is
\* there is remembered.
ClientsGo(p) ==
    /\ state = None /\ shown[p] # <<>>
    /\ Show(Near(p), <<>>)
    /\ UNCHANGED <<backend, state, listed, lock, task, answer, events>>

-----------------------------------------------------------------------------
(* Crashes and times to live.                                              *)

AtWork(t) == task[t].at \notin {"idle", "create", "lock"}

LockedStep(t) == AtWork(t) /\ Op(t) # "create"

\* kill -9: the tasks, the clients and the subscription are gone, what was written
\* stays.
Crash(p) ==
    /\ backend = "redis" /\ p \in MayCrash
    /\ \E t \in Task : PodOf[t] = p /\ ~At(t, "idle")
    /\ Show({p}, <<>>)
    /\ events' = [q \in Watched |-> IF q = p THEN <<>> ELSE events[q]]
    /\ task' = [t \in Task |-> IF PodOf[t] = p THEN Idle ELSE task[t]]
    /\ answer' = [t \in Task |-> IF PodOf[t] = p THEN None ELSE answer[t]]
    /\ UNCHANGED <<backend, state, listed, lock>>

\* Mutant: without PX.
LockStays == FALSE

\* PX of the lock: nobody who still works under it outlives it.
LockExpires ==
    /\ backend = "redis" /\ lock # None
    /\ "outlive" \in Faults \/ \A t \in Task : LockedStep(t) => NameOf(t) # lock
    /\ lock' = None
    /\ UNCHANGED <<backend, state, listed, task, answer, clients>>

\* EX of the state: it goes between the steps.
RoomExpires ==
    /\ backend = "redis" /\ state # None
    /\ "outlive" \in Faults \/ \A t \in Task : ~AtWork(t)
    /\ state' = None
    /\ UNCHANGED <<backend, listed, lock, task, answer, clients>>

Work(t) ==
    \/ Busy(t) \/ Load(t) \/ Save(t) \/ List(t) \/ Delete(t) \/ Unlist(t)
    \/ Emit(t) \/ Publish(t) \/ Unlock(t) \/ Create(t)

Next ==
    \/ \E t \in Task :
          \/ \E what \in Requests : Request(t, what)
          \/ Reap(t) \/ TryLock(t) \/ Work(t)
    \/ \E p \in Watched : Deliver(p) \/ ClientsGo(p)
    \/ \E p \in Pod : Crash(p)
    \/ LockExpires \/ RoomExpires

Spec == Init /\ [][Next]_vars

\* A task goes on, a lock that is left expires, and a reaper comes again until
\* it meets a free lock.
Fairness ==
    /\ \A t \in Task : WF_vars(Work(t))
    /\ \A t \in Reaper : SF_vars(Reap(t) /\ lock = None) /\ SF_vars(TryLock(t))
    /\ WF_vars(LockExpires)

FairSpec == Spec /\ Fairness
=============================================================================
