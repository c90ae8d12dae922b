----------------------------- MODULE AtomicRoom -----------------------------
(***************************************************************************)
(* What the locked steps of a room promise: each request takes effect at   *)
(* one instant or not at all, and its answer tells which.  A room is the   *)
(* sequence of the tasks that created and changed it.                      *)
(***************************************************************************)
EXTENDS Sequences

CONSTANTS Task, None

VARIABLES
    room,    \* None, or the changes made to the room so far
    answer   \* what a task has been told about its request, None before

vars == <<room, answer>>

Init == room = None /\ answer = [t \in Task |-> None]

Tell(t, word) == answer' = [answer EXCEPT ![t] = word]

\* A new request, or tasks that are gone with their process.
Forget(tasks) ==
    /\ answer' = [t \in Task |-> IF t \in tasks THEN None ELSE answer[t]]
    /\ UNCHANGED room

Create(t) == room = None /\ room' = <<t>> /\ Tell(t, "created")

Refuse(t) == room # None /\ UNCHANGED room /\ Tell(t, "taken")

Change(t, word) == room # None /\ room' = Append(room, t) /\ Tell(t, word)

Keep(t, word) == room # None /\ UNCHANGED room /\ Tell(t, word)

Remove(t) == room # None /\ room' = None /\ Tell(t, "removed")

Miss(t) == room = None /\ UNCHANGED room /\ Tell(t, "not found")

\* The room was not looked at.  For a check this is the answer that there is
\* no room, which therefore says nothing.
Skip(t, word) == UNCHANGED room /\ Tell(t, word)

\* An unused room vanishes by its time to live.
Vanish == room # None /\ room' = None /\ UNCHANGED answer

Next ==
    \/ \E t \in Task :
          \/ Create(t) \/ Refuse(t) \/ Remove(t) \/ Miss(t)
          \/ \E word \in {"done", "found"} : Change(t, word)
          \/ \E word \in {"done", "found", "rejected"} : Keep(t, word)
          \/ \E word \in {"busy", "absent"} : Skip(t, word)
    \/ \E tasks \in SUBSET Task : Forget(tasks)
    \/ Vanish

Spec == Init /\ [][Next]_vars
=============================================================================
