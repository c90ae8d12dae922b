---------------------------- MODULE StoreProofs -----------------------------
(***************************************************************************)
(* That the steps of module Store exclude each other as long as none       *)
(* outlives its lock, and that together they are the atomic room of module *)
(* AtomicRoom, for any number of tasks, reapers and pods.                  *)
(***************************************************************************)
EXTENDS StoreProperties, TLAPS

-----------------------------------------------------------------------------
(* Types and places.                                                       *)

\* The requests that take the lock.
Locked == {"step", "try", "check", "reap"}

\* A request that may come to a place.
Fits(place, op) ==
    /\ place = "create" => op = "create"
    /\ place \in {"lock", "load", "unlock"} => op \in Locked
    /\ place = "save"   => op \in {"step", "try", "check"}
    /\ place = "list"   => op \in {"step", "try", "check", "create"}
    /\ place \in {"remove", "unlist"} => op \in {"step", "reap"}
    /\ place \in {"emit", "publish"} => op \in {"step", "try"}

AllFit == \A t \in Task : Fits(task[t].at, Op(t))

TypeInv == TypeOK /\ AllFit

Words == {None, "created", "taken", "done", "found", "rejected",
          "removed", "not found", "busy", "absent"}

TaskState == [at : Places, op : Requests \cup {"reap", None},
              copy : Seq(Task) \cup {None}]

\* What Go does to the tasks.
LEMMA GoMoves ==
    ASSUME TypeInv, NEW t \in Task, NEW place \in Places,
           NEW room \in Seq(Task) \cup {None}, Go(t, place, room)
    PROVE  /\ task' \in [Task -> TaskState]
           /\ \A u \in Task \ {t} : task'[u] = task[u]
           /\ task'[t] = IF place = "idle" THEN Idle
                         ELSE [at |-> place, op |-> Op(t), copy |-> room]
  BY DEF TypeInv, TypeOK, Go, Idle, TaskState, Places, Op, Requests

\* A task goes to a place its request may come to.
LEMMA GoFits ==
    ASSUME TypeInv, NEW t \in Task, NEW place \in Places,
           NEW room \in Seq(Task) \cup {None}, Go(t, place, room),
           Fits(place, Op(t))
    PROVE  AllFit'
  <1>1. \A u \in Task \ {t} : Fits(task[u].at, Op(u))'
    BY GoMoves DEF TypeInv, AllFit, Op
  <1>2. task'[t] = IF place = "idle" THEN Idle
                   ELSE [at |-> place, op |-> Op(t), copy |-> room]
    BY GoMoves
  <1>3. Fits(task'[t].at, task'[t].op)
    <2>1. CASE place = "idle"
      BY <1>2, <2>1 DEF Idle, Fits
    <2>2. CASE place # "idle"
      <3>1. task'[t].at = place /\ task'[t].op = Op(t)
        BY <1>2, <2>2
      <3>2. QED
        BY <3>1
    <2>3. QED
      BY <2>1, <2>2
  <1>4. QED
    BY <1>1, <1>3 DEF AllFit, Op

\* Where a task is after Go.
LEMMA WentTo ==
    ASSUME TypeInv, NEW t \in Task, NEW place \in Places \ {"idle"},
           NEW room \in Seq(Task) \cup {None}, Go(t, place, room)
    PROVE  task'[t].at = place /\ task'[t].op = Op(t) /\ task'[t].copy = room
  <1>1. task'[t] = [at |-> place, op |-> Op(t), copy |-> room]
    BY GoMoves
  <1>2. QED
    BY <1>1

LEMMA WentIdle ==
    ASSUME TypeInv, NEW t \in Task, NEW room \in Seq(Task) \cup {None},
           Go(t, "idle", room)
    PROVE  task'[t].at = "idle" /\ task'[t].copy = None
  <1>1. "idle" \in Places
    BY DEF Places
  <1>2. task'[t] = Idle
    BY <1>1, GoMoves
  <1>3. QED
    BY <1>2 DEF Idle

LEMMA EmptySeq == <<>> \in Seq(Task) /\ <<>> \in Seq(Seq(Task))
  OBVIOUS

\* What the clients are shown and what is under way to them.
ClientsOK == shown \in [Watched -> Seq(Task)] /\ events \in [Watched -> Seq(Seq(Task))]

LEMMA ShowType ==
    ASSUME ClientsOK, NEW pods, NEW room \in Seq(Task), Show(pods, room)
    PROVE  /\ shown' \in [Watched -> Seq(Task)]
           /\ \A p \in Watched : shown'[p] = IF p \in pods THEN room ELSE shown[p]
  BY DEF ClientsOK, Show

LEMMA InitType == Init => TypeInv
<1> SUFFICES ASSUME Init PROVE TypeInv
  OBVIOUS
<1>1. task \in [Task -> TaskState]
  BY DEF Init, TaskState, Idle, Places
<1>2. AllFit
  BY DEF Init, AllFit, Fits, Op, Idle
<1>3. ClientsOK
  BY EmptySeq DEF Init, ClientsOK
<1>4. QED
  BY <1>1, <1>2, <1>3 DEF Init, TypeInv, TypeOK, TaskState, ClientsOK

LEMMA BeginType ==
    ASSUME TypeInv, NEW t \in Task, NEW what \in Requests \cup {"reap"},
           NEW place \in {"create", "lock"}, Fits(place, what),
           Begin(t, what, place)
    PROVE  TypeInv'
  <1>1. task' = [task EXCEPT ![t] = [at |-> place, op |-> what, copy |-> None]]
    BY DEF Begin
  <1>2. /\ task' \in [Task -> TaskState]
        /\ \A u \in Task \ {t} : task'[u] = task[u]
        /\ task'[t].at = place /\ task'[t].op = what
    BY <1>1 DEF TypeInv, TypeOK, TaskState, Places
  <1>3. AllFit'
    BY <1>2 DEF TypeInv, AllFit, Op
  <1>4. QED
    BY <1>2, <1>3 DEF TypeInv, TypeOK, TaskState, Begin, Tell, clients

\* A step of a task that has the types right and goes where it may.
LEMMA GoType ==
    ASSUME TypeInv, NEW t \in Task, NEW place \in Places,
           NEW room \in Seq(Task) \cup {None}, Go(t, place, room),
           Fits(place, Op(t)),
           backend' = backend, state' \in Seq(Task) \cup {None},
           listed' \in BOOLEAN, clients' = clients \/ ClientsOK',
           lock' \in {lock, None, NameOf(t)},
           answer' = answer \/ \E word \in Words : Tell(t, word)
    PROVE  TypeInv'
  <1>1. task' \in [Task -> TaskState] /\ AllFit'
    BY GoMoves, GoFits
  <1>2. lock' \in (IF backend = "redis" THEN Pod ELSE Task) \cup {None}
    <2> DEFINE Holders == (IF backend = "redis" THEN Pod ELSE Task) \cup {None}
    <2>1. lock \in Holders
      BY DEF TypeInv, TypeOK
    <2>2. NameOf(t) \in Holders
      BY StoreAssumption DEF NameOf
    <2>3. None \in Holders
      OBVIOUS
    <2> HIDE DEF Holders
    <2>4. lock' \in Holders
      BY <2>1, <2>2, <2>3
    <2> QED
      BY <2>4 DEF Holders
  <1>3. answer' \in [Task -> Words]
    <2>1. answer \in [Task -> Words]
      BY DEF TypeInv, TypeOK, Words
    <2>2. CASE answer' = answer
      BY <2>1, <2>2
    <2>3. ASSUME NEW word \in Words, Tell(t, word)
          PROVE  answer' \in [Task -> Words]
      <3>1. answer' = [answer EXCEPT ![t] = word]
        BY <2>3 DEF Tell
      <3> QED
        BY <2>1, <3>1
    <2> QED
      BY <2>2, <2>3
  <1>4. ClientsOK'
    BY DEF TypeInv, TypeOK, ClientsOK, clients
  <1>5. QED
    BY <1>1, <1>2, <1>3, <1>4 DEF TypeInv, TypeOK, TaskState, Words, ClientsOK

\* What is known of a task that stays with its copy.
LEMMA TaskKnown ==
    ASSUME TypeInv, NEW t \in Task
    PROVE  /\ task[t].at \in Places
           /\ task[t].copy \in Seq(Task) \cup {None}
           /\ answer[t] \in Words
           /\ Fits(task[t].at, Op(t))
           /\ answer = [answer EXCEPT ![t] = answer[t]]
           /\ ClientsOK
  BY DEF TypeInv, TypeOK, AllFit, Words, ClientsOK

LEMMA LoadType ==
    ASSUME TypeInv, NEW t \in Task, Load(t)
    PROVE  TypeInv'
  <1>1. Op(t) \in Locked
    BY TaskKnown DEF Load, At, Fits
  <1>2. PICK ok \in Success :
            LET room == Write(ok, None, state)
            IN  IF room = None THEN NotFound(t)
                ELSE \/ Changed(t, room) \/ Removed(t, room)
                     \/ Unchanged(t, room) \/ Rejected(t)
    BY DEF Load
  <1> DEFINE room == Write(ok, None, state)
  <1>3. room \in Seq(Task) \cup {None}
    BY DEF Write, TypeInv, TypeOK
  <1>4. UNCHANGED <<backend, state, listed, lock, clients>>
    BY DEF Load
  <1>5. state \in Seq(Task) \cup {None} /\ listed \in BOOLEAN
    BY DEF TypeInv, TypeOK
  <1> HIDE DEF room
  <1>6. CASE room = None
    <2>1. NotFound(t)
      BY <1>2, <1>6 DEF room
    <2> DEFINE place == IF Op(t) = "reap" THEN "remove" ELSE "unlock"
    <2>2. place \in Places /\ Fits(place, Op(t))
      BY <1>1 DEF Places, Fits, Locked
    <2>3. Go(t, place, task[t].copy) /\ Tell(t, "not found")
      BY <2>1 DEF NotFound, Goto
    <2> HIDE DEF place
    <2>4. QED
      BY <1>4, <1>5, <2>2, <2>3, TaskKnown, GoType DEF Words
  <1>7. CASE room # None
    <2>0. room \in Seq(Task) /\ Append(room, t) \in Seq(Task)
      BY <1>3, <1>7
    <2>1. CASE Changed(t, room)
      <3>1. CASE Op(t) # "reap" /\ Go(t, "save", Append(room, t))
        <4>1. Fits("save", Op(t)) /\ "save" \in Places
          BY <1>1, <3>1 DEF Fits, Locked, Places
        <4>2. QED
          BY <1>4, <1>5, <2>0, <2>1, <3>1, <4>1, GoType DEF Changed
      <3>2. CASE Op(t) = "check" /\ Go(t, "save", room)
        <4>1. Fits("save", Op(t)) /\ "save" \in Places
          BY <3>2 DEF Fits, Locked, Places
        <4>2. QED
          BY <1>4, <1>5, <2>0, <2>1, <3>2, <4>1, GoType DEF Changed
      <3>3. QED
        BY <2>1, <3>1, <3>2 DEF Changed
    <2>2. CASE Removed(t, room)
      <3>1. Fits("remove", Op(t)) /\ "remove" \in Places
        BY <1>1, <2>2 DEF Fits, Locked, Places, Removed
      <3>2. QED
        BY <1>4, <1>5, <2>0, <2>2, <3>1, GoType DEF Removed
    <2>3. CASE Unchanged(t, room) \/ Rejected(t)
      <3>1. \E word \in Words : Tell(t, word)
        BY <2>3 DEF Unchanged, Rejected, Words
      <3>2. CASE Go(t, "unlock", task[t].copy)
        <4>1. Fits("unlock", Op(t)) /\ "unlock" \in Places
          BY <1>1 DEF Fits, Places, Locked
        <4>2. QED
          BY <1>4, <1>5, <3>1, <3>2, <4>1, TaskKnown, GoType
      <3>3. CASE Op(t) = "step" /\ Go(t, "emit", room)
        <4>1. Fits("emit", Op(t)) /\ "emit" \in Places
          BY <3>3 DEF Fits, Places, Locked
        <4>2. QED
          BY <1>3, <1>4, <1>5, <3>1, <3>3, <4>1, GoType
      <3>4. QED
        BY <2>3, <3>2, <3>3 DEF Unchanged, Rejected, Goto
    <2>4. QED
      BY <1>2, <1>7, <2>1, <2>2, <2>3 DEF room
  <1>8. QED
    BY <1>6, <1>7

LEMMA SaveType ==
    ASSUME TypeInv, NEW t \in Task, Save(t), task[t].copy # None
    PROVE  TypeInv'
  <1>1. Op(t) \in {"step", "try", "check"}
    BY TaskKnown DEF Save, At, Fits
  <1>2. PICK ok \in Success :
            /\ state' = Write(ok, state, task[t].copy)
            /\ Goto(t, IF ok THEN "list" ELSE After(t)["list"])
    BY DEF Save
  <1> DEFINE place == IF ok THEN "list" ELSE After(t)["list"]
  <1>3. place \in Places /\ Fits(place, Op(t))
    BY <1>1 DEF After, Places, Fits, Locked
  <1>4. state' \in Seq(Task) \cup {None}
    BY <1>2, TaskKnown DEF Write, TypeInv, TypeOK
  <1>5. \E word \in Words : Tell(t, word)
    BY DEF Save, Words
  <1>6. QED
    BY <1>2, <1>3, <1>4, <1>5, TaskKnown, GoType DEF Save, Goto, TypeInv, TypeOK

LEMMA ListType ==
    ASSUME TypeInv, NEW t \in Task, List(t)
    PROVE  TypeInv'
  <1>1. Op(t) \in {"step", "try", "check", "create"}
    BY TaskKnown DEF List, At, Fits
  <1>2. After(t)["list"] \in Places /\ Fits(After(t)["list"], Op(t))
    BY <1>1 DEF After, Places, Fits, Locked
  <1>3. listed' \in BOOLEAN
    BY DEF List, Write, TypeInv, TypeOK
  <1>4. \E word \in Words : Tell(t, word)
    BY TaskKnown DEF List, Words
  <1>5. Go(t, After(t)["list"], task[t].copy)
    BY DEF List, Goto
  <1>6. UNCHANGED <<backend, state, lock, clients>>
    BY DEF List
  <1>7. QED
    BY <1>2, <1>3, <1>4, <1>5, <1>6, TaskKnown, GoType DEF TypeInv, TypeOK

LEMMA DeleteType ==
    ASSUME TypeInv, NEW t \in Task, Delete(t)
    PROVE  TypeInv'
  <1>1. Fits("unlist", Op(t)) /\ "unlist" \in Places
    BY TaskKnown DEF Delete, At, Fits, Locked, Places
  <1>2. state' \in {state, None}
    BY DEF Delete, Write
  <1>3. \E word \in Words : Tell(t, word)
    BY TaskKnown DEF Delete, Words
  <1>4. state' \in Seq(Task) \cup {None}
    BY <1>2 DEF TypeInv, TypeOK
  <1>5. QED
    BY <1>1, <1>3, <1>4, TaskKnown, GoType DEF Delete, Goto, TypeInv, TypeOK

\* Where Unlist sends a task, and with what.
LEMMA UnlistGoes ==
    ASSUME TypeInv, NEW t \in Task, Unlist(t)
    PROVE  \E place \in {"unlock", "publish"}, room \in Seq(Task) \cup {None} :
              /\ Go(t, place, room) /\ Fits(place, Op(t))
              /\ place = "publish" /\ room # None =>
                    task[t].copy \in Seq(Task) /\ room = Append(task[t].copy, t)
  <1>1. Op(t) \in {"step", "reap"} /\ task[t].copy \in Seq(Task) \cup {None}
    BY TaskKnown DEF Unlist, At, Fits
  <1>2. CASE Op(t) = "reap"
    <2>1. Go(t, "unlock", task[t].copy)
      BY <1>2 DEF Unlist, Goto
    <2>2. Fits("unlock", Op(t))
      BY <1>2 DEF Fits, Locked
    <2>3. QED
      BY <1>1, <2>1, <2>2
  <1>3. CASE Op(t) # "reap"
    <2>1. Fits("publish", Op(t))
      BY <1>1, <1>3 DEF Fits
    <2>2. \/ Go(t, "publish", None)
          \/ task[t].copy # None /\ Go(t, "publish", Append(task[t].copy, t))
      BY <1>3 DEF Unlist
    <2>3. task[t].copy # None => Append(task[t].copy, t) \in Seq(Task)
      BY <1>1
    <2>4. CASE Go(t, "publish", None)
      BY <2>1, <2>4
    <2>5. CASE task[t].copy # None /\ Go(t, "publish", Append(task[t].copy, t))
      BY <1>1, <2>1, <2>3, <2>5
    <2>6. QED
      BY <2>2, <2>4, <2>5
  <1>4. QED
    BY <1>2, <1>3

LEMMA UnlistType ==
    ASSUME TypeInv, NEW t \in Task, Unlist(t)
    PROVE  TypeInv'
  <1>1. PICK place \in {"unlock", "publish"}, room \in Seq(Task) \cup {None} :
            Go(t, place, room) /\ Fits(place, Op(t))
    BY UnlistGoes
  <1>2. place \in Places
    BY DEF Places
  <1>3. listed' \in BOOLEAN /\ lock' \in {lock, None}
    BY DEF Unlist, Write, TypeInv, TypeOK
  <1>4. ClientsOK'
    BY TaskKnown, EmptySeq, ShowType DEF Unlist, ClientsOK
  <1>5. UNCHANGED <<backend, state, answer>> /\ state \in Seq(Task) \cup {None}
    BY DEF Unlist, TypeInv, TypeOK
  <1>6. QED
    BY <1>1, <1>2, <1>3, <1>4, <1>5, GoType

\* A step that is done with the room goes from telling to the unlock.
LEMMA EmitGoes ==
    ASSUME TypeInv, NEW t \in Task, Emit(t)
    PROVE  Op(t) \in {"step", "try"} /\ Go(t, "publish", task[t].copy)
  <1>1. Op(t) \in {"step", "try"}
    BY TaskKnown DEF Emit, At, Fits
  <1>2. QED
    BY <1>1 DEF Emit, After, Goto

LEMMA PublishGoes ==
    ASSUME TypeInv, NEW t \in Task, Publish(t)
    PROVE  Op(t) \in {"step", "try"} /\ Go(t, "unlock", task[t].copy)
  <1>1. Op(t) \in {"step", "try"}
    BY TaskKnown DEF Publish, At, Fits
  <1>2. QED
    BY <1>1 DEF Publish, After, Goto

LEMMA EmitType ==
    ASSUME TypeInv, NEW t \in Task, Emit(t), task[t].copy # None
    PROVE  TypeInv'
  <1>1. Fits("publish", Op(t)) /\ "publish" \in Places
    BY EmitGoes DEF Fits, Places
  <1>2. ClientsOK'
    BY TaskKnown, ShowType DEF Emit, ClientsOK
  <1>3. UNCHANGED <<backend, state, listed, lock, answer>>
    BY DEF Emit
  <1>4. QED
    BY <1>1, <1>2, <1>3, EmitGoes, TaskKnown, GoType DEF TypeInv, TypeOK

\* What Publish does to the messages under way.
LEMMA PublishEvents ==
    ASSUME TypeInv, NEW t \in Task, Publish(t)
    PROVE  \/ events' = events
           \/ /\ task[t].copy \in Seq(Task)
              /\ events' \in [Watched -> Seq(Seq(Task))]
              /\ \A p \in Watched :
                    events'[p] = IF p \in Near(PodOf[t]) THEN events[p]
                                 ELSE Append(events[p], task[t].copy)
  <1>1. task[t].copy \in Seq(Task) \cup {None} /\ events \in [Watched -> Seq(Seq(Task))]
    BY TaskKnown DEF ClientsOK
  <1>2. CASE events' = events
    BY <1>2
  <1>3. CASE /\ task[t].copy # None
             /\ events' = [p \in Watched |-> IF p \in Near(PodOf[t]) THEN events[p]
                                             ELSE Append(events[p], task[t].copy)]
    <2>1. \A p \in Watched : Append(events[p], task[t].copy) \in Seq(Seq(Task))
      BY <1>1, <1>3
    <2>2. QED
      BY <1>1, <1>3, <2>1
  <1>4. QED
    BY <1>2, <1>3 DEF Publish

LEMMA PublishType ==
    ASSUME TypeInv, NEW t \in Task, Publish(t)
    PROVE  TypeInv'
  <1>1. Fits("unlock", Op(t)) /\ "unlock" \in Places
    BY PublishGoes DEF Fits, Locked, Places
  <1>2. ClientsOK'
    BY TaskKnown, PublishEvents DEF Publish, ClientsOK
  <1>3. UNCHANGED <<backend, state, listed, lock, answer>>
    BY DEF Publish
  <1>4. QED
    BY <1>1, <1>2, <1>3, PublishGoes, TaskKnown, GoType DEF TypeInv, TypeOK

LEMMA UnlockGoes ==
    ASSUME TypeInv, NEW t \in Task, At(t, "unlock")
    PROVE  After(t)["unlock"] = "idle"
  BY TaskKnown DEF At, Fits, Locked, After

LEMMA UnlockType ==
    ASSUME TypeInv, NEW t \in Task, Unlock(t)
    PROVE  TypeInv'
  <1>1. Fits("idle", Op(t)) /\ "idle" \in Places
    BY DEF Fits, Places
  <1>2. Go(t, "idle", task[t].copy)
    BY UnlockGoes DEF Unlock, Goto
  <1>3. lock' \in {lock, None}
    BY DEF Unlock, Write
  <1>4. QED
    BY <1>1, <1>2, <1>3, TaskKnown, GoType DEF Unlock, TypeInv, TypeOK

LEMMA CreateType ==
    ASSUME TypeInv, NEW t \in Task, Create(t)
    PROVE  TypeInv'
  <1>1. Op(t) = "create"
    BY TaskKnown DEF Create, At, Fits
  <1>2. /\ Fits("list", Op(t)) /\ "list" \in Places
        /\ Fits("idle", Op(t)) /\ "idle" \in Places
    BY <1>1 DEF Fits, Places
  <1>3. <<t>> \in Seq(Task)
    OBVIOUS
  <1>4. UNCHANGED <<backend, listed, lock>> /\ \E word \in Words : Tell(t, word)
    BY DEF Create, Words
  <1>0. PICK ok \in Success :
          IF ok /\ state = None
          THEN state' = <<t>> /\ Show(Near(PodOf[t]), <<t>>) /\ Goto(t, "list")
          ELSE /\ Goto(t, "idle")
               /\ state' = IF backend = "memory" THEN <<t>> ELSE state
               /\ UNCHANGED shown
    BY DEF Create
  <1>5. CASE ok /\ state = None
    <2>1. Go(t, "list", task[t].copy) /\ state' = <<t>>
      BY <1>0, <1>5 DEF Goto
    <2>2. ClientsOK'
      BY <1>0, <1>3, <1>5, TaskKnown, ShowType DEF Create, ClientsOK
    <2>3. QED
      BY <1>2, <1>3, <1>4, <2>1, <2>2, TaskKnown, GoType DEF TypeInv, TypeOK
  <1>6. CASE ~(ok /\ state = None)
    <2>1. /\ Go(t, "idle", task[t].copy) /\ state' \in {state, <<t>>}
          /\ clients' = clients
      BY <1>0, <1>6 DEF Goto, Create, clients
    <2>2. state' \in Seq(Task) \cup {None} /\ listed' \in BOOLEAN
      BY <1>3, <1>4, <2>1 DEF TypeInv, TypeOK
    <2>3. QED
      BY <1>2, <1>4, <2>1, <2>2, TaskKnown, GoType DEF TypeInv, TypeOK
  <1>7. QED
    BY <1>5, <1>6

\* What is saved or told has been loaded.
Copied == \A t \in Task : task[t].at \in {"save", "list", "emit"} /\ Op(t) # "create"
                              => task[t].copy # None

LEMMA CrashType ==
    ASSUME TypeInv, NEW p \in Pod, Crash(p)
    PROVE  TypeInv'
  <1>1. task' \in [Task -> TaskState] /\ AllFit'
    BY DEF Crash, TypeInv, TypeOK, TaskState, AllFit, Fits, Op, Idle, Places
  <1>2. answer' \in [Task -> Words]
    BY DEF Crash, TypeInv, TypeOK, Words
  <1>3. ClientsOK'
    <2>1. ClientsOK
      BY DEF TypeInv, TypeOK, ClientsOK
    <2>2. QED
      BY <2>1, EmptySeq, ShowType DEF Crash, ClientsOK
  <1>4. QED
    BY <1>1, <1>2, <1>3 DEF Crash, TypeInv, TypeOK, TaskState, Words, ClientsOK

\* What the subscriber does, and what clients do that leave.
LEMMA ClientsType ==
    ASSUME TypeInv, NEW p \in Watched, Deliver(p) \/ ClientsGo(p)
    PROVE  TypeInv'
  <1>1. ClientsOK
    BY DEF TypeInv, TypeOK, ClientsOK
  <1>2. CASE Deliver(p)
    <2>1. Head(events[p]) \in Seq(Task) /\ Tail(events[p]) \in Seq(Seq(Task))
      BY <1>1, <1>2 DEF Deliver, ClientsOK
    <2>2. QED
      BY <1>1, <1>2, <2>1, ShowType
         DEF Deliver, TypeInv, TypeOK, AllFit, Op, ClientsOK
  <1>3. CASE ClientsGo(p)
    BY <1>1, <1>3, EmptySeq, ShowType
       DEF ClientsGo, TypeInv, TypeOK, AllFit, Op, ClientsOK
  <1>4. QED
    BY <1>2, <1>3

LEMMA TypeStep == TypeInv /\ Copied /\ [Next]_vars => TypeInv'
<1> SUFFICES ASSUME TypeInv, Copied, [Next]_vars PROVE TypeInv'
  OBVIOUS
<1>0. CASE UNCHANGED vars
  BY <1>0 DEF vars, clients, TypeInv, TypeOK, AllFit, Op
<1>1. ASSUME NEW t \in Task, NEW what \in Requests, Request(t, what) PROVE TypeInv'
  <2>1. CASE what = "create"
    BY <1>1, <2>1, BeginType DEF Request, Fits
  <2>2. CASE what # "create"
    BY <1>1, <2>2, BeginType DEF Request, Fits, Requests, Locked
  <2>3. QED
    BY <2>1, <2>2
<1>2. ASSUME NEW t \in Task, Reap(t) PROVE TypeInv'
  BY <1>2, BeginType DEF Reap, Fits, Locked
<1>3. ASSUME NEW t \in Task, TryLock(t) PROVE TypeInv'
  <2>1. Fits("load", Op(t)) /\ "load" \in Places
    BY <1>3, TaskKnown DEF TryLock, At, Fits, Places
  <2>2. QED
    BY <1>3, <2>1, TaskKnown, GoType DEF TryLock, Goto, TypeInv, TypeOK
<1>4. ASSUME NEW t \in Task, Busy(t) PROVE TypeInv'
  <2>1. Fits("idle", Op(t)) /\ "idle" \in Places
    BY DEF Fits, Places
  <2>2. \E word \in Words : Tell(t, word)
    BY <1>4 DEF Busy, Words
  <2>3. QED
    BY <1>4, <2>1, <2>2, TaskKnown, GoType DEF Busy, Goto, TypeInv, TypeOK
<1>5. ASSUME NEW t \in Task, Work(t), ~Busy(t) PROVE TypeInv'
  <2>1. (Save(t) \/ Emit(t)) => task[t].copy # None
    <3>1. (Save(t) \/ Emit(t)) => task[t].at \in {"save", "emit"} /\ Op(t) # "create"
      BY TaskKnown DEF Save, Emit, At, Fits
    <3>2. QED
      BY <3>1 DEF Copied
  <2>2. QED
    BY <1>5, <2>1, LoadType, SaveType, ListType, DeleteType, UnlistType, EmitType,
       PublishType, UnlockType, CreateType DEF Work
<1>6. ASSUME NEW p \in Pod, Crash(p) PROVE TypeInv'
  BY <1>6, CrashType
<1>7. CASE LockExpires
  BY <1>7 DEF LockExpires, clients, TypeInv, TypeOK, AllFit, Op
<1>8. CASE RoomExpires
  BY <1>8 DEF RoomExpires, clients, TypeInv, TypeOK, AllFit, Op
<1>9. ASSUME NEW p \in Watched, Deliver(p) \/ ClientsGo(p) PROVE TypeInv'
  BY <1>9, ClientsType
<1>10. QED
  BY <1>0, <1>1, <1>2, <1>3, <1>4, <1>5, <1>6, <1>7, <1>8, <1>9 DEF Next

-----------------------------------------------------------------------------
(* One step after the other.                                               *)

InStep(t) ==
    /\ task[t].at \in {"load", "save", "list", "remove", "unlist", "emit"}
    /\ Op(t) # "create"

\* In memory a step that removed the room has given its lock up.
Holding(t) == InStep(t) \/ (backend = "redis" /\ LockedStep(t))

Mutex ==
    \A t \in Task : Holding(t) =>
        /\ lock = NameOf(t)
        /\ \A u \in Task : Holding(u) => u = t

LEMMA HoldingStays ==
    ASSUME NEW u \in Task, task'[u] = task[u], backend' = backend
    PROVE  Holding(u)' = Holding(u) /\ NameOf(u)' = NameOf(u)
  BY DEF Holding, InStep, LockedStep, AtWork, At, Op, NameOf

\* A step in which a task that holds the lock goes on, or gives it up.
LEMMA GoMutex ==
    ASSUME TypeInv, Mutex, NEW t \in Task, NEW place \in Places,
           NEW room \in Seq(Task) \cup {None}, Go(t, place, room),
           backend' = backend,
           Holding(t)' => Holding(t),
           \A u \in Task : Holding(u)' => lock' = lock
    PROVE  Mutex'
  <1>1. \A u \in Task : Holding(u)' => Holding(u)
    <2>1. \A u \in Task \ {t} : task'[u] = task[u]
      BY GoMoves
    <2>2. ASSUME NEW u \in Task, u # t
          PROVE  Holding(u)' = Holding(u)
      BY <2>1, <2>2, HoldingStays
    <2>3. QED
      BY <2>2
  <1>2. ASSUME NEW u \in Task PROVE NameOf(u)' = NameOf(u)
    BY DEF NameOf
  <1>3. QED
    BY <1>1, <1>2 DEF Mutex

LEMMA NoneApart == None \notin Task /\ None \notin Pod /\ None \notin Seq(Task)
  BY NoneAssumption, Zenon

LEMMA NameIsNotNone == ASSUME NEW t \in Task PROVE NameOf(t) # None
  BY NoneApart, StoreAssumption DEF NameOf

\* A task that works without a lock of the room, before and after.
LEMMA IdleMutex ==
    ASSUME TypeInv, Mutex, NEW t \in Task, backend' = backend, lock' = lock,
           \A u \in Task \ {t} : task'[u] = task[u],
           ~Holding(t)'
    PROVE  Mutex'
  <1>1. \A u \in Task : Holding(u)' => Holding(u)
    BY HoldingStays
  <1>2. ASSUME NEW u \in Task PROVE NameOf(u)' = NameOf(u)
    BY DEF NameOf
  <1>3. QED
    BY <1>1, <1>2 DEF Mutex

LEMMA WentIdleMutex ==
    ASSUME TypeInv, Mutex, NEW t \in Task, backend' = backend,
           Go(t, "idle", task[t].copy)
    PROVE  ~Holding(t)' /\ \A u \in Task \ {t} : task'[u] = task[u]
  <1>1. task'[t].at = "idle"
    BY TaskKnown, WentIdle
  <1>2. ~Holding(t)'
    BY <1>1 DEF Holding, InStep, LockedStep, AtWork, At
  <1>3. "idle" \in Places
    BY DEF Places
  <1>4. QED
    BY <1>2, <1>3, TaskKnown, GoMoves

LEMMA BeginMutex ==
    ASSUME TypeInv, Mutex, NEW t \in Task, NEW what, NEW place \in {"create", "lock"},
           Begin(t, what, place)
    PROVE  Mutex'
  <1>1. task' = [task EXCEPT ![t] = [at |-> place, op |-> what, copy |-> None]]
    BY DEF Begin
  <1>2. \A u \in Task \ {t} : task'[u] = task[u]
    BY <1>1 DEF TypeInv, TypeOK
  <1>3. ~Holding(t)'
    BY <1>1 DEF TypeInv, TypeOK, Holding, InStep, LockedStep, AtWork, At, Op
  <1>4. QED
    BY <1>2, <1>3, IdleMutex DEF Begin

LEMMA TryLockMutex ==
    ASSUME TypeInv, Mutex, NEW t \in Task, TryLock(t)
    PROVE  Mutex'
  <1>1. \A u \in Task : ~Holding(u)
    BY NameIsNotNone DEF Mutex, TryLock
  <1>2. Go(t, "load", task[t].copy) /\ "load" \in Places
    BY DEF TryLock, Goto, Places
  <1>3. \A u \in Task \ {t} : ~Holding(u)'
    BY <1>1, <1>2, TaskKnown, GoMoves, HoldingStays DEF TryLock
  <1>4. lock' = NameOf(t)'
    BY DEF TryLock, NameOf
  <1>5. QED
    BY <1>3, <1>4 DEF Mutex

LEMMA LoadMoves ==
    ASSUME TypeInv, NEW t \in Task, Load(t)
    PROVE  \E place \in {"save", "remove", "unlock", "emit"},
              room \in Seq(Task) \cup {None} : Go(t, place, room)
  <1>1. PICK ok \in Success :
          LET room == Write(ok, None, state)
          IN  IF room = None THEN NotFound(t)
              ELSE \/ Changed(t, room) \/ Removed(t, room)
                   \/ Unchanged(t, room) \/ Rejected(t)
    BY DEF Load
  <1> DEFINE room == Write(ok, None, state)
  <1>2. room \in Seq(Task) \cup {None}
    BY DEF Write, TypeInv, TypeOK
  <1> HIDE DEF room
  <1>3. room = None \/ (room \in Seq(Task) /\ Append(room, t) \in Seq(Task))
    BY <1>2
  <1> USE DEF room
  <1>4. QED
    BY <1>1, <1>3, TaskKnown
       DEF NotFound, Changed, Removed, Unchanged, Rejected, Goto

LEMMA LoadMutex ==
    ASSUME TypeInv, Mutex, NEW t \in Task, Load(t)
    PROVE  Mutex'
  <1>1. Holding(t)
    BY TaskKnown DEF Load, At, Fits, Locked, Holding, InStep
  <1>2. PICK place \in Places, room \in Seq(Task) \cup {None} : Go(t, place, room)
    BY LoadMoves DEF Places
  <1>3. QED
    BY <1>1, <1>2, GoMutex DEF Load

LEMMA SaveMutex ==
    ASSUME TypeInv, Mutex, NEW t \in Task, Save(t)
    PROVE  Mutex'
  <1>1. Op(t) \in {"step", "try", "check"} /\ Holding(t)
    BY TaskKnown DEF Save, At, Fits, Holding, InStep
  <1>2. PICK place \in Places : Go(t, place, task[t].copy)
    BY <1>1 DEF Save, Goto, After, Places
  <1>3. QED
    BY <1>1, <1>2, TaskKnown, GoMutex DEF Save

LEMMA ListMutex ==
    ASSUME TypeInv, Mutex, NEW t \in Task, List(t)
    PROVE  Mutex'
  <1>1. Op(t) \in {"step", "try", "check", "create"}
    BY TaskKnown DEF List, At, Fits
  <1>2. After(t)["list"] \in Places /\ (Op(t) = "create" => After(t)["list"] = "idle")
    BY <1>1 DEF After, Places
  <1>3. Go(t, After(t)["list"], task[t].copy)
    BY DEF List, Goto
  <1>4. CASE Op(t) = "create"
    BY <1>2, <1>3, <1>4, WentIdleMutex, IdleMutex DEF List
  <1>5. CASE Op(t) # "create"
    BY <1>2, <1>3, <1>5, TaskKnown, GoMutex DEF List, At, Holding, InStep
  <1>6. QED
    BY <1>4, <1>5

LEMMA DeleteMutex ==
    ASSUME TypeInv, Mutex, NEW t \in Task, Delete(t)
    PROVE  Mutex'
  <1>1. Holding(t)
    BY TaskKnown DEF Delete, At, Fits, Holding, InStep
  <1>2. Go(t, "unlist", task[t].copy) /\ "unlist" \in Places
    BY DEF Delete, Goto, Places
  <1>3. QED
    BY <1>1, <1>2, TaskKnown, GoMutex DEF Delete

LEMMA UnlistMutex ==
    ASSUME TypeInv, Mutex, NEW t \in Task, Unlist(t)
    PROVE  Mutex'
  <1>1. Holding(t) /\ \A u \in Task \ {t} : ~Holding(u)
    BY TaskKnown DEF Unlist, At, Fits, Locked, Holding, InStep, Mutex
  <1>2. PICK place \in {"unlock", "publish"}, room \in Seq(Task) \cup {None} :
            Go(t, place, room)
    BY UnlistGoes
  <1>3. place \in Places \ {"idle"}
    BY DEF Places
  <1>4. CASE backend = "memory"
    <2>1. \A u \in Task \ {t} : ~Holding(u)'
      BY <1>1, <1>2, <1>3, GoMoves, HoldingStays DEF Unlist
    <2>2. ~Holding(t)'
      <3>1. task'[t].at = place /\ backend' = "memory"
        BY <1>2, <1>3, <1>4, WentTo DEF Unlist
      <3>2. QED
        BY <3>1 DEF Holding, InStep
    <2>3. QED
      BY <2>1, <2>2 DEF Mutex
  <1>5. CASE backend # "memory"
    BY <1>1, <1>2, <1>3, <1>5, GoMutex DEF Unlist
  <1>6. QED
    BY <1>4, <1>5

\* A step that has told its pod of the room, and goes on to the unlock.
LEMMA TellMutex ==
    ASSUME TypeInv, Mutex, NEW t \in Task, NEW place \in {"publish", "unlock"},
           Op(t) \in {"step", "try"}, AtWork(t), Go(t, place, task[t].copy),
           UNCHANGED <<backend, lock>>
    PROVE  Mutex'
  <1>1. place \in Places \ {"idle"}
    BY DEF Places
  <1>2. Holding(t)' => Holding(t)
    <2>1. task'[t].at = place /\ backend' = backend
      BY <1>1, TaskKnown, WentTo
    <2>2. Holding(t)' => backend = "redis"
      BY <2>1 DEF Holding, InStep
    <2>3. backend = "redis" => Holding(t)
      BY DEF Holding, LockedStep
    <2>4. QED
      BY <2>2, <2>3
  <1>3. QED
    BY <1>1, <1>2, TaskKnown, GoMutex

LEMMA EmitMutex ==
    ASSUME TypeInv, Mutex, NEW t \in Task, Emit(t) \/ Publish(t)
    PROVE  Mutex'
  <1>1. AtWork(t) /\ UNCHANGED <<backend, lock>>
    BY DEF Emit, Publish, AtWork, At
  <1>2. QED
    BY <1>1, EmitGoes, PublishGoes, TellMutex

LEMMA UnlockMutex ==
    ASSUME TypeInv, Mutex, NEW t \in Task, Unlock(t)
    PROVE  Mutex'
  <1>1. Go(t, "idle", task[t].copy) /\ "idle" \in Places
    BY UnlockGoes DEF Unlock, Goto, Places
  <1>2. ~Holding(t)'
    BY <1>1, WentIdleMutex DEF Unlock
  <1>3. ASSUME NEW u \in Task, Holding(u)' PROVE lock' = lock
    <2>1. u # t /\ Holding(u)
      BY <1>1, <1>2, <1>3, TaskKnown, GoMoves, HoldingStays DEF Unlock
    <2>2. backend # "redis"
      BY <2>1, TaskKnown
         DEF Mutex, Holding, LockedStep, AtWork, At, Unlock, Fits, Locked
    <2>3. QED
      BY <2>1, <2>2 DEF Mutex, NameOf, Unlock
  <1>4. QED
    BY <1>1, <1>2, <1>3, TaskKnown, GoMutex DEF Unlock

LEMMA CreateMutex ==
    ASSUME TypeInv, Mutex, NEW t \in Task, Create(t)
    PROVE  Mutex'
  <1>1. Op(t) = "create"
    BY TaskKnown DEF Create, At, Fits
  <1>2. PICK place \in {"list", "idle"} : Go(t, place, task[t].copy)
    BY DEF Create, Goto
  <1>3. place \in Places
    BY DEF Places
  <1>4. CASE place = "idle"
    BY <1>2, <1>4, WentIdleMutex, IdleMutex DEF Create
  <1>5. CASE place = "list"
    <2>1. task'[t].op = "create"
      BY <1>1, <1>2, <1>3, <1>5, TaskKnown, WentTo
    <2>2. ~Holding(t)'
      BY <2>1 DEF Holding, InStep, LockedStep, Op
    <2>3. QED
      BY <1>2, <1>3, <2>2, TaskKnown, GoMoves, IdleMutex DEF Create
  <1>6. QED
    BY <1>4, <1>5

LEMMA CrashMutex ==
    ASSUME TypeInv, Mutex, NEW p \in Pod, Crash(p)
    PROVE  Mutex'
  <1>1. ASSUME NEW u \in Task, Holding(u)' PROVE Holding(u)
    <2>1. task'[u] = IF PodOf[u] = p THEN Idle ELSE task[u]
      BY DEF Crash
    <2>2. CASE PodOf[u] = p
      <3>1. task'[u].at = "idle"
        BY <2>1, <2>2 DEF Idle
      <3>2. QED
        BY <1>1, <3>1 DEF Holding, InStep, LockedStep, AtWork, At
    <2>3. CASE PodOf[u] # p
      BY <1>1, <2>1, <2>3, HoldingStays DEF Crash
    <2>4. QED
      BY <2>2, <2>3
  <1>2. ASSUME NEW u \in Task PROVE NameOf(u)' = NameOf(u)
    BY DEF Crash, NameOf
  <1>3. QED
    BY <1>1, <1>2 DEF Mutex, Crash

LEMMA LockExpiresMutex ==
    ASSUME TypeInv, Mutex, LockExpires, "outlive" \notin Faults
    PROVE  Mutex'
  <1>1. \A u \in Task : ~Holding(u)
    BY DEF LockExpires, Mutex, Holding, InStep, LockedStep, AtWork, At, Op
  <1>2. QED
    BY <1>1, HoldingStays DEF LockExpires, Mutex

LEMMA MutexStep ==
    ASSUME TypeInv, Mutex, [Next]_vars, "outlive" \notin Faults
    PROVE  Mutex'
<1>0. CASE UNCHANGED vars
  BY <1>0 DEF vars, Mutex, Holding, InStep, LockedStep, AtWork, At, Op, NameOf
<1>1. ASSUME NEW t \in Task, NEW what \in Requests, Request(t, what) PROVE Mutex'
  BY <1>1, BeginMutex DEF Request
<1>2. ASSUME NEW t \in Task, Reap(t) PROVE Mutex'
  BY <1>2, BeginMutex DEF Reap
<1>3. ASSUME NEW t \in Task, Busy(t) PROVE Mutex'
  <2>1. Go(t, "idle", task[t].copy) /\ "idle" \in Places
    BY <1>3 DEF Busy, Goto, Places
  <2>2. ~Holding(t)' /\ \A u \in Task \ {t} : task'[u] = task[u]
    BY <1>3, <2>1, WentIdleMutex DEF Busy
  <2>3. QED
    BY <1>3, <2>2, IdleMutex DEF Busy
<1>4. ASSUME NEW t \in Task, Work(t), ~Busy(t) PROVE Mutex'
  BY <1>4, LoadMutex, SaveMutex, ListMutex, DeleteMutex, UnlistMutex, EmitMutex,
     UnlockMutex, CreateMutex DEF Work
<1>5. CASE RoomExpires \/ \E p \in Watched : Deliver(p) \/ ClientsGo(p)
  BY <1>5, HoldingStays DEF RoomExpires, Deliver, ClientsGo, Mutex
<1>6. QED
  BY <1>0, <1>1, <1>2, <1>3, <1>4, <1>5, TryLockMutex, CrashMutex, LockExpiresMutex
     DEF Next

-----------------------------------------------------------------------------
(* What is saved has been loaded.                                          *)

LEMMA AfterGoes ==
    ASSUME NEW t \in Task, Op(t) \in {"step", "try", "check", "create"}
    PROVE  After(t)["list"] \in {"emit", "unlock", "idle"}
  BY DEF After

\* Only Begin and Load send a task to a place where it changes the room.
LEMMA WorkGoes ==
    ASSUME TypeInv, NEW t \in Task, TryLock(t) \/ Work(t), ~Load(t), ~Unlist(t)
    PROVE  \E place \in Places \ {"lock", "save", "remove"} :
              /\ Go(t, place, task[t].copy)
              /\ place = "load" => At(t, "lock")
              /\ place \in {"list", "emit"} =>
                    Op(t) = "create" \/ task[t].at \in {"save", "list"}
              /\ place = "unlist" => At(t, "remove")
              /\ place = "publish" => At(t, "emit")
  <1>1. \A place \in {"idle", "load", "list", "unlist", "emit", "publish", "unlock"} :
            place \in Places \ {"lock", "save", "remove"}
    BY DEF Places
  <1>2. CASE TryLock(t) \/ Busy(t)
    BY <1>1, <1>2 DEF TryLock, Busy, Goto
  <1>3. CASE Delete(t)
    BY <1>1, <1>3 DEF Delete, Goto
  <1>4. CASE Create(t)
    <2>1. Op(t) = "create"
      BY <1>4, TaskKnown DEF Create, At, Fits
    <2>2. QED
      BY <1>1, <1>4, <2>1 DEF Create, Goto
  <1>5. CASE Save(t) \/ List(t)
    <2>1. Op(t) \in {"step", "try", "check", "create"} /\ task[t].at \in {"save", "list"}
      BY <1>5, TaskKnown DEF Save, List, At, Fits
    <2>2. Goto(t, "list") \/ Goto(t, After(t)["list"])
      BY <1>5 DEF Save, List
    <2>3. QED
      BY <1>1, <2>1, <2>2, AfterGoes DEF Goto
  <1>6. CASE Emit(t)
    BY <1>1, <1>6, EmitGoes DEF Emit
  <1>7. CASE Publish(t)
    BY <1>1, <1>7, PublishGoes
  <1>8. CASE Unlock(t)
    BY <1>1, <1>8, UnlockGoes DEF Unlock, Goto
  <1>9. QED
    BY <1>2, <1>3, <1>4, <1>5, <1>6, <1>7, <1>8 DEF Work

\* A task at work moves alone.
LEMMA WorkMoves ==
    ASSUME TypeInv, NEW t \in Task, TryLock(t) \/ Work(t)
    PROVE  \E place \in Places, room \in Seq(Task) \cup {None} : Go(t, place, room)
  <1>1. CASE Load(t)
    BY <1>1, LoadMoves DEF Places
  <1>2. CASE Unlist(t)
    BY <1>2, UnlistGoes DEF Places
  <1>3. CASE ~Load(t) /\ ~Unlist(t)
    BY <1>3, WorkGoes, TaskKnown
  <1>4. QED
    BY <1>1, <1>2, <1>3

\* Where a task is after it was taken off the list.
LEMMA UnlistWent ==
    ASSUME TypeInv, NEW t \in Task, Unlist(t)
    PROVE  task'[t].at \in {"unlock", "publish"} /\ \A u \in Task \ {t} : task'[u] = task[u]
  <1>1. PICK place \in {"unlock", "publish"}, room \in Seq(Task) \cup {None} :
            Go(t, place, room)
    BY UnlistGoes
  <1>2. place \in Places \ {"idle"}
    BY DEF Places
  <1>3. QED
    BY <1>1, <1>2, GoMoves, WentTo

\* Only Delete and Emit send a task on to what is left of the room.
LEMMA WorkWent ==
    ASSUME TypeInv, NEW t \in Task, TryLock(t) \/ Work(t),
           ~Load(t), ~Unlist(t), ~Delete(t), ~Emit(t)
    PROVE  /\ task'[t].at \notin {"unlist", "publish"}
           /\ \A u \in Task \ {t} : task'[u] = task[u]
  <1>1. PICK place \in Places :
            /\ Go(t, place, task[t].copy)
            /\ place = "unlist" => At(t, "remove")
            /\ place = "publish" => At(t, "emit")
    BY WorkGoes
  <1>2. ~At(t, "remove") /\ ~At(t, "emit")
    BY DEF Work, TryLock, Busy, Save, List, Publish, Unlock, Create, At
  <1>3. task'[t].at = place
    BY <1>1, TaskKnown, WentTo, WentIdle
  <1>4. QED
    BY <1>1, <1>2, <1>3, TaskKnown, GoMoves

LEMMA LoadWent ==
    ASSUME TypeInv, NEW t \in Task, Load(t)
    PROVE  /\ task'[t].at \notin {"unlist", "publish"}
           /\ \A u \in Task \ {t} : task'[u] = task[u]
  <1>1. PICK place \in {"save", "remove", "unlock", "emit"}, room \in Seq(Task) \cup {None} :
            Go(t, place, room)
    BY LoadMoves
  <1>2. place \in Places \ {"idle"}
    BY DEF Places
  <1>3. QED
    BY <1>1, <1>2, GoMoves, WentTo

LEMMA LoadGoes ==
    ASSUME NEW t \in Task, Load(t)
    PROVE  \E room \in {None, state} :
              /\ Faults = {} => room = state
              /\ IF room = None THEN NotFound(t)
                 ELSE \/ Changed(t, room) \/ Removed(t, room)
                      \/ Unchanged(t, room) \/ Rejected(t)
  BY DEF Load, Write, Success

LEMMA CopiedStep == TypeInv /\ Copied /\ [Next]_vars => Copied'
<1> SUFFICES ASSUME TypeInv, Copied, [Next]_vars, NEW u \in Task,
                    task'[u].at \in {"save", "list", "emit"}, task'[u].op # "create"
             PROVE  task'[u].copy # None
  BY DEF Copied, Op
<1>0. CASE task'[u] = task[u]
  BY <1>0 DEF Copied, Op
<1>1. ASSUME NEW t \in Task, NEW op, NEW place \in {"create", "lock"},
             Begin(t, op, place)
      PROVE  task'[u].copy # None
  <2>2. task' = [task EXCEPT ![t] = [at |-> place, op |-> op, copy |-> None]]
    BY <1>1 DEF Begin
  <2>3. CASE u = t
    BY <2>2, <2>3 DEF TypeInv, TypeOK
  <2>4. CASE u # t
    BY <1>0, <2>2, <2>4 DEF TypeInv, TypeOK
  <2>5. QED
    BY <2>3, <2>4
<1>2. ASSUME NEW t \in Task, TryLock(t) \/ Work(t), ~Load(t), ~Unlist(t)
      PROVE  task'[u].copy # None
  <2>1. PICK place \in Places \ {"lock", "save", "remove"} :
            /\ Go(t, place, task[t].copy)
            /\ place \in {"list", "emit"} =>
                  Op(t) = "create" \/ task[t].at \in {"save", "list"}
    BY <1>2, WorkGoes
  <2>2. task[t].copy \in Seq(Task) \cup {None}
    BY TaskKnown
  <2>3. CASE u = t
    <3>1. place # "idle"
      BY <2>1, <2>2, <2>3, WentIdle
    <3>2. task'[t].at = place /\ task'[t].op = Op(t) /\ task'[t].copy = task[t].copy
      BY <2>1, <2>2, <3>1, WentTo
    <3>3. QED
      BY <2>1, <2>3, <3>2 DEF Copied
  <2>4. CASE u # t
    BY <1>0, <2>1, <2>2, <2>4, GoMoves
  <2>5. QED
    BY <2>3, <2>4
<1>3. ASSUME NEW t \in Task, Load(t) PROVE task'[u].copy # None
  <2>1. PICK room \in {None, state} :
            IF room = None THEN NotFound(t)
            ELSE \/ Changed(t, room) \/ Removed(t, room)
                 \/ Unchanged(t, room) \/ Rejected(t)
    BY <1>3, LoadGoes
  <2>2. PICK place \in {"save", "remove", "unlock", "emit"},
             copy \in {room, Append(room, t), task[t].copy} :
            /\ Go(t, place, copy)
            /\ place \in {"save", "emit"} => /\ room # None
                                            /\ copy \in {room, Append(room, t)}
            /\ place # "save" => copy \in {room, task[t].copy}
    BY <2>1 DEF NotFound, Changed, Removed, Unchanged, Rejected, Goto
  <2>3. room \in Seq(Task) \cup {None}
    BY <2>1 DEF TypeInv, TypeOK
  <2>4. room # None => Append(room, t) \in Seq(Task) /\ Append(room, t) # None
    BY <2>3, NoneApart
  <2>5. place \in Places \ {"idle"} /\ copy \in Seq(Task) \cup {None}
    BY <2>2, <2>3, <2>4, TaskKnown DEF Places
  <2>6. CASE u = t
    <3>1. task'[u].at = place /\ task'[u].copy = copy
      BY <2>2, <2>5, <2>6, WentTo
    <3>2. QED
      <4>1. room # None /\ copy \in {room, Append(room, t)}
        BY <2>2, <2>6, <3>1
      <4>2. QED
        BY <2>4, <2>6, <3>1, <4>1
  <2>7. CASE u # t
    <3>1. Go(t, place, copy)
      BY <2>2
    <3>2. place \in Places /\ copy \in Seq(Task) \cup {None}
      BY <2>5
    <3>3. \A v \in Task \ {t} : task'[v] = task[v]
      BY <3>1, <3>2, GoMoves
    <3>4. QED
      BY <1>0, <2>7, <3>3
  <2>8. QED
    BY <2>6, <2>7
<1>4. ASSUME NEW p \in Pod, Crash(p) PROVE task'[u].copy # None
  <2>1. task'[u] = Idle \/ task'[u] = task[u]
    BY <1>4 DEF Crash
  <2>2. QED
    BY <1>0, <2>1 DEF Idle
<1>5. CASE LockExpires \/ RoomExpires \/ UNCHANGED vars
  BY <1>0, <1>5 DEF LockExpires, RoomExpires, vars
<1>6. ASSUME NEW p \in Watched, Deliver(p) \/ ClientsGo(p) PROVE task'[u].copy # None
  BY <1>0, <1>6 DEF Deliver, ClientsGo
<1>7. ASSUME NEW t \in Task, Unlist(t) PROVE task'[u].copy # None
  BY <1>0, <1>7, UnlistWent
<1>8. QED
  <2>1. ASSUME NEW t \in Task, NEW what \in Requests, Request(t, what)
        PROVE  task'[u].copy # None
    BY <1>1, <2>1 DEF Request
  <2>2. ASSUME NEW t \in Task, Reap(t) PROVE task'[u].copy # None
    BY <1>1, <2>2 DEF Reap
  <2>3. QED
    BY <1>2, <1>3, <1>4, <1>5, <1>6, <1>7, <2>1, <2>2 DEF Next

-----------------------------------------------------------------------------
(* Types, and exclusion.                                                   *)

LEMMA InitCopied == Init => Copied
  BY DEF Init, Idle, Copied

\* The variables keep their types, and a held lock names a pod (or, in memory,
\* a task), whatever times out, collides or fails.
THEOREM StoreTypeCorrect == Spec => []TypeOK
  <1>1. Init => TypeInv /\ Copied
    BY InitType, InitCopied
  <1>2. TypeInv /\ Copied /\ [Next]_vars => (TypeInv /\ Copied)'
    BY TypeStep, CopiedStep
  <1>3. TypeInv => TypeOK
    BY DEF TypeInv
  <1>4. QED
    BY <1>1, <1>2, <1>3, PTL DEF Spec

LEMMA InitMutex == Init => Mutex
  BY DEF Init, Idle, Mutex, Holding, InStep, LockedStep, AtWork, At, Op

\* No two steps are between the load of a room and the write of what they made
\* of it, on however many pods, while commands fail, pods crash and codes
\* collide, if no step takes longer than the lock's time to live.
THEOREM StepsExclude == ASSUME "outlive" \notin Faults PROVE Spec => []OneWriter
  <1>1. Init => TypeInv /\ Copied /\ Mutex
    BY InitType, InitCopied, InitMutex
  <1>2. TypeInv /\ Copied /\ Mutex /\ [Next]_vars => (TypeInv /\ Copied /\ Mutex)'
    BY TypeStep, CopiedStep, MutexStep
  <1>3. Mutex => OneWriter
    BY DEF Mutex, OneWriter, Writing, Holding, InStep
  <1>4. QED
    BY <1>1, <1>2, <1>3, PTL DEF Spec

-----------------------------------------------------------------------------
(* The atomic room.                                                        *)

\* What a task under the lock has loaded, as long as nothing fails.
LoadedBy(t) ==
    /\ task[t].at \in {"lock", "load"} => task[t].copy = None
    /\ At(t, "save") =>
          /\ state # None
          /\ \/ task[t].copy = Append(state, t)
             \/ Op(t) = "check" /\ task[t].copy = state
    /\ At(t, "remove") => task[t].copy = state

Loaded == \A t \in Task : LoadedBy(t)

\* A task away from these places.
Away(t) == task[t].at \notin {"lock", "load", "save", "remove"}

LEMMA AwayLoaded == ASSUME NEW t, Away(t) PROVE LoadedBy(t)
  BY DEF Away, LoadedBy, At

LEMMA LoadedStays ==
    ASSUME NEW t, LoadedBy(t), task'[t] = task[t],
           state' = state \/ task[t].at \notin {"save", "remove"}
    PROVE  LoadedBy(t)'
  BY DEF LoadedBy, At, Op

LEMMA InitLoaded == Init => Loaded
<1> SUFFICES ASSUME Init, NEW t \in Task PROVE LoadedBy(t)
  BY DEF Loaded
<1>1. task[t].at = "idle"
  BY DEF Init, Idle
<1>2. QED
  BY <1>1 DEF LoadedBy, At

\* The state changes only while no other task is in a step.
LEMMA WriterAlone ==
    ASSUME TypeInv, Mutex, Faults = {}, NEW t \in Task, Work(t) \/ TryLock(t),
           state' # state, NEW u \in Task, u # t
    PROVE  /\ ~InStep(u) /\ task[u].at \notin {"save", "remove"}
           /\ backend = "redis" => ~LockedStep(u)
  <1>1. Save(t) \/ Delete(t) \/ Create(t)
    BY DEF Work, TryLock, Busy, Load, List, Unlist, Emit, Publish, Unlock
  <1>2. CASE Create(t)
    BY <1>2 DEF Create, Unused, InStep, LockedStep, AtWork
  <1>3. CASE Save(t) \/ Delete(t)
    <2>1. Holding(t)
      BY <1>3, TaskKnown DEF Save, Delete, At, Fits, Holding, InStep
    <2>2. ~InStep(u) /\ (backend = "redis" => ~LockedStep(u))
      BY <2>1 DEF Mutex, Holding
    <2>3. QED
      BY <2>2, TaskKnown DEF At, Fits, InStep
  <1>4. QED
    BY <1>1, <1>2, <1>3

LEMMA LoadLoaded ==
    ASSUME TypeInv, Loaded, Faults = {}, NEW t \in Task, Load(t)
    PROVE  Loaded'
  <1>1. IF state = None THEN NotFound(t)
        ELSE \/ Changed(t, state) \/ Removed(t, state)
             \/ Unchanged(t, state) \/ Rejected(t)
    BY LoadGoes
  <1>2. task[t].copy = None /\ state' = state
    BY DEF Load, Loaded, LoadedBy, At
  <1>3. PICK place \in {"save", "remove", "unlock", "emit"},
             copy \in {None, state, Append(state, t)} :
            /\ Go(t, place, copy)
            /\ place = "save" => /\ state # None
                                 /\ \/ copy = Append(state, t)
                                    \/ Op(t) = "check" /\ copy = state
            /\ place \in {"remove", "emit"} => copy = state
            /\ place = "unlock" => copy = None
    BY <1>1, <1>2 DEF NotFound, Changed, Removed, Unchanged, Rejected, Goto
  <1>4. state \in Seq(Task) \cup {None}
    BY DEF TypeInv, TypeOK
  <1>5. state # None => Append(state, t) \in Seq(Task)
    BY <1>4
  <1>6. place \in Places \ {"idle"} /\ copy \in Seq(Task) \cup {None}
    BY <1>3, <1>4, <1>5 DEF Places
  <1>7. /\ task'[t].at = place /\ task'[t].op = Op(t) /\ task'[t].copy = copy
        /\ \A u \in Task \ {t} : task'[u] = task[u]
    BY <1>3, <1>6, GoMoves, WentTo
  <1>8. LoadedBy(t)'
    BY <1>2, <1>3, <1>7 DEF LoadedBy, At, Op
  <1>9. QED
    BY <1>2, <1>7, <1>8, LoadedStays DEF Loaded

LEMMA WorkLoaded ==
    ASSUME TypeInv, Mutex, Loaded, Faults = {}, NEW t \in Task,
           TryLock(t) \/ Work(t), ~Load(t), ~Unlist(t)
    PROVE  Loaded'
  <1>1. PICK place \in Places \ {"lock", "save", "remove"} :
            Go(t, place, task[t].copy) /\ (place = "load" => At(t, "lock"))
    BY WorkGoes
  <1>2. \A u \in Task \ {t} : task'[u] = task[u]
    BY <1>1, TaskKnown, GoMoves
  <1>3. ASSUME NEW u \in Task, u # t PROVE LoadedBy(u)'
    BY <1>2, <1>3, WriterAlone, LoadedStays DEF Loaded
  <1>4. LoadedBy(t)'
    <2>1. CASE place = "load"
      <3>1. task'[t].at = "load" /\ task'[t].copy = task[t].copy
        BY <1>1, <2>1, TaskKnown, WentTo
      <3>2. task[t].copy = None
        BY <1>1, <2>1 DEF At, Loaded, LoadedBy
      <3>3. QED
        BY <3>1, <3>2 DEF LoadedBy, At
    <2>2. CASE place # "load"
      <3>1. task'[t].at = place
        BY <1>1, TaskKnown, WentTo, WentIdle
      <3>2. QED
        BY <2>2, <3>1 DEF LoadedBy, At
    <2>3. QED
      BY <2>1, <2>2
  <1>5. QED
    BY <1>3, <1>4 DEF Loaded

LEMMA LoadedStep ==
    TypeInv /\ Mutex /\ Loaded /\ Faults = {} /\ [Next]_vars => Loaded'
<1> SUFFICES ASSUME TypeInv, Mutex, Loaded, Faults = {}, [Next]_vars PROVE Loaded'
  OBVIOUS
<1>1. ASSUME NEW t \in Task, NEW op, NEW place \in {"create", "lock"},
             Begin(t, op, place)
      PROVE  Loaded'
  <2>1. /\ task' = [task EXCEPT ![t] = [at |-> place, op |-> op, copy |-> None]]
        /\ state' = state
    BY <1>1 DEF Begin
  <2>2. /\ \A u \in Task \ {t} : task'[u] = task[u]
        /\ task'[t].at = place /\ task'[t].copy = None
    BY <2>1 DEF TypeInv, TypeOK
  <2>3. LoadedBy(t)'
    BY <2>2 DEF LoadedBy, At
  <2>4. QED
    BY <2>1, <2>2, <2>3, LoadedStays DEF Loaded
<1>2. ASSUME NEW p \in Pod, Crash(p) PROVE Loaded'
  <2>1. ASSUME NEW u \in Task PROVE LoadedBy(u)'
    <3>1. (task'[u] = Idle \/ task'[u] = task[u]) /\ state' = state
      BY <1>2 DEF Crash
    <3>2. task'[u] = Idle => LoadedBy(u)'
      BY DEF Idle, LoadedBy, At
    <3>3. QED
      BY <3>1, <3>2, LoadedStays DEF Loaded
  <2>2. QED
    BY <2>1 DEF Loaded
<1>3. CASE LockExpires \/ UNCHANGED vars
  BY <1>3, LoadedStays DEF LockExpires, vars, Loaded
<1>4. CASE RoomExpires
  BY <1>4, LoadedStays DEF RoomExpires, AtWork, Loaded
<1>5. ASSUME NEW p \in Watched, Deliver(p) \/ ClientsGo(p) PROVE Loaded'
  BY <1>5, LoadedStays DEF Deliver, ClientsGo, Loaded
<1>6. ASSUME NEW t \in Task, Unlist(t) PROVE Loaded'
  <2>1. LoadedBy(t)'
    BY <1>6, UnlistWent DEF LoadedBy, At
  <2>2. ASSUME NEW u \in Task, u # t PROVE LoadedBy(u)'
    BY <1>6, <2>2, UnlistWent, LoadedStays DEF Unlist, Loaded
  <2>3. QED
    BY <2>1, <2>2 DEF Loaded
<1>7. QED
  <2>1. ASSUME NEW t \in Task, NEW what \in Requests, Request(t, what) PROVE Loaded'
    BY <1>1, <2>1 DEF Request
  <2>2. ASSUME NEW t \in Task, Reap(t) PROVE Loaded'
    BY <1>1, <2>2 DEF Reap
  <2>3. QED
    BY <1>2, <1>3, <1>4, <1>5, <1>6, <2>1, <2>2, LoadLoaded, WorkLoaded DEF Next

\* A step as one of the atomic room.
LEMMA AtomicStep ==
    TypeInv /\ Loaded /\ Faults = {} /\ [Next]_vars =>
        [Register!Next]_(Register!vars)
<1> SUFFICES ASSUME TypeInv, Loaded, Faults = {}, Next
             PROVE  Register!Next \/ UNCHANGED <<state, answer>>
  BY DEF vars, Register!vars
<1> DEFINE R == Register!Next \/ UNCHANGED <<state, answer>>
<1>0. answer \in [Task -> Words]
  BY DEF TypeInv, TypeOK, Words
<1>1. ASSUME NEW t \in Task, NEW op, NEW place \in {"create", "lock"},
             Begin(t, op, place)
      PROVE  R
  <2>1. state' = state /\ answer' = [u \in Task |-> IF u \in {t} THEN None ELSE answer[u]]
    BY <1>0, <1>1 DEF Begin, Tell
  <2>2. Register!Forget({t})
    BY <2>1 DEF Register!Forget
  <2>3. QED
    BY <2>2 DEF Register!Next
<1>2. ASSUME NEW t \in Task, Busy(t) PROVE R
  <2>1. \E word \in {"busy", "absent"} : Register!Skip(t, word)
    BY <1>2 DEF Busy, Tell, Register!Skip, Register!Tell
  <2>2. QED
    BY <2>1 DEF Register!Next
<1>3. ASSUME NEW t \in Task, Load(t) PROVE R
  <2>1. IF state = None THEN NotFound(t)
        ELSE \/ Changed(t, state) \/ Removed(t, state)
             \/ Unchanged(t, state) \/ Rejected(t)
    BY <1>3, LoadGoes
  <2>2. state' = state
    BY <1>3 DEF Load
  <2>3. CASE state = None
    <3>1. Register!Miss(t)
      BY <2>1, <2>2, <2>3 DEF NotFound, Tell, Register!Miss, Register!Tell
    <3>2. QED
      BY <3>1 DEF Register!Next
  <2>4. CASE state # None /\ (Unchanged(t, state) \/ Rejected(t))
    <3>1. \E word \in {"done", "found", "rejected"} : Register!Keep(t, word)
      BY <2>2, <2>4 DEF Unchanged, Rejected, Tell, Register!Keep, Register!Tell
    <3>2. QED
      BY <3>1 DEF Register!Next
  <2>5. CASE Changed(t, state) \/ Removed(t, state)
    BY <2>2, <2>5 DEF Changed, Removed
  <2>6. QED
    BY <2>1, <2>3, <2>4, <2>5
<1>4. ASSUME NEW t \in Task, Save(t) PROVE R
  <2>1. /\ state # None
        /\ \/ task[t].copy = Append(state, t)
           \/ Op(t) = "check" /\ task[t].copy = state
    BY <1>4 DEF Save, Loaded, LoadedBy
  <2>2. /\ state' = task[t].copy
        /\ Tell(t, IF Op(t) = "check" THEN "found" ELSE "done")
    BY <1>4 DEF Save, Success, Write
  <2>3. CASE task[t].copy = Append(state, t)
    <3>1. \E word \in {"done", "found"} : Register!Change(t, word)
      BY <2>1, <2>2, <2>3 DEF Tell, Register!Change, Register!Tell
    <3>2. QED
      BY <3>1 DEF Register!Next
  <2>4. CASE Op(t) = "check" /\ task[t].copy = state
    <3>1. Register!Keep(t, "found")
      BY <2>1, <2>2, <2>4 DEF Tell, Register!Keep, Register!Tell
    <3>2. QED
      BY <3>1 DEF Register!Next
  <2>5. QED
    BY <2>1, <2>3, <2>4
<1>5. ASSUME NEW t \in Task, Delete(t) PROVE R
  <2>1. task[t].copy = state /\ state' = None
    BY <1>5 DEF Delete, Loaded, LoadedBy, Success, Write
  <2>2. CASE state = None
    BY <1>0, <1>5, <2>1, <2>2 DEF Delete, Tell
  <2>3. CASE state # None
    <3>1. Register!Remove(t)
      BY <1>5, <2>1, <2>3 DEF Delete, Tell, Register!Remove, Register!Tell
    <3>2. QED
      BY <3>1 DEF Register!Next
  <2>4. QED
    BY <2>2, <2>3
<1>6. ASSUME NEW t \in Task, Create(t) PROVE R
  <2>1. CASE state = None
    <3>1. Register!Create(t)
      BY <1>6, <2>1 DEF Create, Success, Tell, Register!Create, Register!Tell
    <3>2. QED
      BY <3>1 DEF Register!Next
  <2>2. CASE state # None
    <3>1. backend = "redis"
      BY <1>6, <2>2 DEF Create, Unused
    <3>2. Register!Refuse(t)
      BY <1>6, <2>2, <3>1 DEF Create, Tell, Register!Refuse, Register!Tell
    <3>3. QED
      BY <3>2 DEF Register!Next
  <2>3. QED
    BY <2>1, <2>2
<1>7. ASSUME NEW t \in Task,
             TryLock(t) \/ List(t) \/ Unlist(t) \/ Emit(t) \/ Publish(t) \/ Unlock(t)
      PROVE  R
  <2>1. List(t) => answer' = answer /\ state' = state
    BY <1>0, TaskKnown DEF List, Success, Tell
  <2>2. QED
    BY <1>7, <2>1 DEF TryLock, Unlist, Emit, Publish, Unlock
<1>8. ASSUME NEW p \in Pod, Crash(p) PROVE R
  <2> DEFINE gone == {t \in Task : PodOf[t] = p}
  <2>1. Register!Forget(gone)
    BY <1>8 DEF Crash, Register!Forget
  <2>2. gone \in SUBSET Task
    OBVIOUS
  <2>3. QED
    BY <2>1, <2>2 DEF Register!Next
<1>9. CASE LockExpires \/ RoomExpires
  BY <1>9 DEF LockExpires, RoomExpires, Register!Next, Register!Vanish
<1>10. ASSUME NEW p \in Watched, Deliver(p) \/ ClientsGo(p) PROVE R
  BY <1>10 DEF Deliver, ClientsGo
<1>11. QED
  <2>1. ASSUME NEW t \in Task, NEW what \in Requests, Request(t, what) PROVE R
    BY <1>1, <2>1 DEF Request
  <2>2. ASSUME NEW t \in Task, Reap(t) PROVE R
    BY <1>1, <2>2 DEF Reap
  <2>3. QED
    BY <1>2, <1>3, <1>4, <1>5, <1>6, <1>7, <1>8, <1>9, <1>10, <2>1, <2>2 DEF Next, Work

\* The locked steps of all pods together are a room that changes at one
\* instant per request, or not at all, and whose answers tell which: nothing is
\* lost, brought back or announced that was not stored, wherever pods crash, as
\* long as nothing outlives a time to live, codes differ and Redis answers.
THEOREM RoomIsAtomic == ASSUME Faults = {} PROVE Spec => Atomic
  <1> DEFINE Inv == TypeInv /\ Copied /\ Mutex /\ Loaded
  <1>1. Init => Inv
    BY InitType, InitCopied, InitMutex, InitLoaded
  <1>2. Inv /\ [Next]_vars => Inv'
    BY TypeStep, CopiedStep, MutexStep, LoadedStep
  <1>3. Init => Register!Init
    BY DEF Init, Register!Init
  <1>4. Inv /\ [Next]_vars => [Register!Next]_(Register!vars)
    BY AtomicStep
  <1>5. QED
    BY <1>1, <1>2, <1>3, <1>4, PTL DEF Spec, Atomic, Register!Spec

-----------------------------------------------------------------------------
(* What the clients see.  First what is said of one pod's clients: sh is    *)
(* what they are shown, ev what is under way to them.                      *)

\* A later message is of a later state, and the one shown is among them.
InOrder(sh, ev) ==
    /\ \A i, j \in 1..Len(ev) : i <= j => IsPrefix(ev[i], ev[j])
    /\ \A i \in 1..Len(ev) : IsPrefix(sh, ev[i]) \/ IsPrefix(ev[i], sh)

\* Nothing is newer than s.
Under(sh, ev, s) == IsPrefix(sh, s) /\ \A i \in 1..Len(ev) : IsPrefix(ev[i], s)

LEMMA PrefixOfAppend ==
    ASSUME NEW p \in Seq(Task), NEW s \in Seq(Task), NEW t \in Task, IsPrefix(p, s)
    PROVE  IsPrefix(p, Append(s, t))
  BY DEF IsPrefix

LEMMA PrefixOfItself == ASSUME NEW s \in Seq(Task) PROVE IsPrefix(s, s)
  BY DEF IsPrefix

LEMMA EmptyPrefix == ASSUME NEW s \in Seq(Task) PROVE IsPrefix(<<>>, s)
  BY DEF IsPrefix

\* Clients that go, and messages that go with the pod.
LEMMA FewerInOrder ==
    ASSUME NEW sh \in Seq(Task), NEW ev \in Seq(Seq(Task)), InOrder(sh, ev),
           NEW sh2 \in {sh, <<>>}, NEW ev2 \in {ev, <<>>}
    PROVE  /\ InOrder(sh2, ev2)
           /\ \A s \in Seq(Task) : Under(sh, ev, s) => Under(sh2, ev2, s)
  <1>1. \A i \in 1..Len(ev) : ev[i] \in Seq(Task)
    OBVIOUS
  <1>2. CASE ev2 = ev
    BY <1>1, <1>2, EmptyPrefix DEF InOrder, Under
  <1>3. CASE ev2 = <<>>
    <2>1. 1..Len(ev2) = {}
      BY <1>3
    <2>2. QED
      BY <2>1, EmptyPrefix DEF InOrder, Under
  <1>4. QED
    BY <1>2, <1>3

\* A message that is forwarded.
LEMMA ForwardInOrder ==
    ASSUME NEW sh \in Seq(Task), NEW ev \in Seq(Seq(Task)), InOrder(sh, ev), ev # <<>>
    PROVE  /\ InOrder(Head(ev), Tail(ev))
           /\ IsPrefix(sh, Head(ev)) \/ IsPrefix(Head(ev), sh)
           /\ \A s \in Seq(Task) : Under(sh, ev, s) => Under(Head(ev), Tail(ev), s)
  <1>1. /\ Len(Tail(ev)) = Len(ev) - 1 /\ Len(ev) \in Nat /\ 1 \in 1..Len(ev)
        /\ Head(ev) = ev[1]
        /\ \A i \in 1..Len(Tail(ev)) : i + 1 \in 1..Len(ev) /\ Tail(ev)[i] = ev[i + 1]
    OBVIOUS
  <1>2. \A i, j \in 1..Len(Tail(ev)) : i <= j => i + 1 <= j + 1 /\ 1 <= i + 1
    BY <1>1
  <1>3. QED
    BY <1>1, <1>2 DEF InOrder, Under

\* The newest state is published.
LEMMA AppendInOrder ==
    ASSUME NEW sh \in Seq(Task), NEW ev \in Seq(Seq(Task)), NEW s \in Seq(Task),
           InOrder(sh, ev), Under(sh, ev, s)
    PROVE  InOrder(sh, Append(ev, s)) /\ Under(sh, Append(ev, s), s)
  <1> DEFINE ev2 == Append(ev, s)
  <1>1. /\ Len(ev2) = Len(ev) + 1 /\ Len(ev) \in Nat
        /\ \A i \in 1..Len(ev2) : ev2[i] = IF i \in 1..Len(ev) THEN ev[i] ELSE s
    OBVIOUS
  <1>2. \A i, j \in 1..Len(ev2) : i <= j /\ j \in 1..Len(ev) => i \in 1..Len(ev)
    BY <1>1
  <1> HIDE DEF ev2
  <1>3. \A i \in 1..Len(ev2) : IsPrefix(ev2[i], s)
    BY <1>1, PrefixOfItself DEF Under
  <1>4. InOrder(sh, ev2)
    BY <1>1, <1>2, <1>3 DEF InOrder, Under
  <1>5. QED
    BY <1>3, <1>4 DEF Under, ev2

\* The newest state is shown.
LEMMA ShowInOrder ==
    ASSUME NEW sh \in Seq(Task), NEW ev \in Seq(Seq(Task)), NEW s \in Seq(Task),
           InOrder(sh, ev), Under(sh, ev, s)
    PROVE  InOrder(s, ev) /\ Under(s, ev, s)
  BY PrefixOfItself DEF InOrder, Under

LEMMA UnderAppend ==
    ASSUME NEW sh \in Seq(Task), NEW ev \in Seq(Seq(Task)), NEW s \in Seq(Task),
           NEW t \in Task, Under(sh, ev, s)
    PROVE  Under(sh, ev, Append(s, t))
  <1>1. \A i \in 1..Len(ev) : ev[i] \in Seq(Task)
    OBVIOUS
  <1>2. QED
    BY <1>1, PrefixOfAppend DEF Under

-----------------------------------------------------------------------------
(* What a task tells is what it has stored, or of a room it has removed.   *)

\* A task of a locked step that has stored what it made of the room.
Stored(t) == task[t].at \in {"list", "emit"} /\ Op(t) # "create"

Keeps(t) ==
    /\ Stored(t) => state # None /\ task[t].copy = state
    /\ backend = "redis" /\ At(t, "unlist") => state = None
    /\ backend = "redis" /\ At(t, "publish") /\ task[t].copy # None =>
          state \in {None, task[t].copy}

KeptByAll == \A t \in Task : Keeps(t)

LEMMA KeepsStays ==
    ASSUME TypeInv, NEW t \in Task, Keeps(t), task'[t] = task[t], backend' = backend,
           \/ state' = state
           \/ ~InStep(t) /\ (backend = "redis" => ~LockedStep(t))
    PROVE  Keeps(t)'
  <1>1. CASE state' = state
    BY <1>1 DEF Keeps, Stored, At, Op
  <1>2. CASE ~InStep(t) /\ (backend = "redis" => ~LockedStep(t))
    <2>1. ~Stored(t)
      BY <1>2 DEF Stored, InStep
    <2>2. backend = "redis" => task[t].at \notin {"unlist", "publish"}
      BY <1>2, TaskKnown DEF LockedStep, AtWork, Fits
    <2>3. QED
      BY <2>1, <2>2 DEF Keeps, Stored, At, Op
  <1>3. QED
    BY <1>1, <1>2

\* A task of its own step stores the room and then tells of it.
LEMMA WorkStores ==
    ASSUME TypeInv, Loaded, KeptByAll, Faults = {}, NEW t \in Task,
           TryLock(t) \/ Work(t), Stored(t)'
    PROVE  state' # None /\ task'[t].copy = state'
  <1>0. "list" \in Places \ {"idle"} /\ "emit" \in Places \ {"idle"}
    BY DEF Places
  <1>1. CASE Save(t)
    <2>1. /\ state # None
          /\ task[t].copy = Append(state, t) \/ task[t].copy = state
      BY <1>1 DEF Save, Loaded, LoadedBy
    <2>2. state' = task[t].copy /\ Go(t, "list", task[t].copy)
      BY <1>1 DEF Save, Success, Write, Goto
    <2>3. task'[t].copy = task[t].copy
      BY <1>0, <2>2, TaskKnown, WentTo
    <2>4. state \in Seq(Task)
      BY <2>1 DEF TypeInv, TypeOK
    <2>5. Append(state, t) \in Seq(Task)
      BY <2>4
    <2>6. QED
      BY <2>1, <2>2, <2>3, <2>5, NoneApart
  <1>2. CASE List(t)
    <2>1. PICK place \in {"emit", "unlock", "idle"} : Go(t, place, task[t].copy)
      BY <1>2, TaskKnown, AfterGoes DEF List, At, Fits, Goto
    <2>2. CASE place = "emit"
      <3>1. /\ task'[t].op = Op(t) /\ task'[t].copy = task[t].copy
            /\ state' = state
        BY <1>0, <1>2, <2>1, <2>2, TaskKnown, WentTo DEF List
      <3>2. Stored(t)
        BY <1>2, <3>1 DEF List, At, Stored, Op
      <3>3. QED
        BY <3>1, <3>2 DEF KeptByAll, Keeps
    <2>3. CASE place # "emit"
      <3>1. task'[t].at \in {"unlock", "idle"}
        <4>1. "unlock" \in Places \ {"idle"}
          BY DEF Places
        <4>2. QED
          BY <2>1, <2>3, <4>1, TaskKnown, WentTo, WentIdle
      <3>2. QED
        BY <3>1 DEF Stored
    <2>4. QED
      BY <2>2, <2>3
  <1>3. CASE Load(t)
    <2>1. state \in Seq(Task) \cup {None}
      BY DEF TypeInv, TypeOK
    <2>2. state # None => Append(state, t) \in Seq(Task)
      BY <2>1
    <2>3. PICK place \in {"save", "remove", "unlock", "emit"},
               copy \in Seq(Task) \cup {None} :
            Go(t, place, copy) /\ (place = "emit" => state # None /\ copy = state)
      BY <1>3, <2>1, <2>2, LoadGoes, TaskKnown
         DEF NotFound, Changed, Removed, Unchanged, Rejected, Goto
    <2>4. place \in Places \ {"idle"}
      BY DEF Places
    <2>5. task'[t].at = place /\ task'[t].copy = copy
      BY <2>3, <2>4, WentTo
    <2>6. state' = state
      BY <1>3 DEF Load
    <2>7. QED
      BY <2>3, <2>5, <2>6 DEF Stored
  <1>4. CASE Unlist(t)
    BY <1>4, UnlistWent DEF Stored
  <1>5. CASE ~Save(t) /\ ~List(t) /\ ~Load(t) /\ ~Unlist(t)
    <2>1. PICK place \in Places :
              /\ Go(t, place, task[t].copy)
              /\ place \in {"list", "emit"} =>
                    Op(t) = "create" \/ task[t].at \in {"save", "list"}
      BY <1>5, WorkGoes
    <2>2. place \in {"list", "emit"}
      BY <2>1, TaskKnown, WentTo, WentIdle DEF Stored
    <2>3. task'[t].op = Op(t)
      BY <2>1, <2>2, TaskKnown, WentTo
    <2>4. task[t].at \notin {"save", "list"}
      BY <1>5 DEF Work, TryLock, Busy, Delete, Emit, Publish, Unlock, Create, At
    <2>5. QED
      BY <2>1, <2>2, <2>3, <2>4 DEF Stored, Op
  <1>6. QED
    BY <1>1, <1>2, <1>3, <1>4, <1>5

\* A removed room is gone before the last of it is told.
LEMMA WorkTells ==
    ASSUME TypeInv, KeptByAll, Faults = {}, NEW t \in Task,
           TryLock(t) \/ Work(t), backend = "redis"
    PROVE  /\ task'[t].at = "unlist" => state' = None
           /\ task'[t].at = "publish" /\ task'[t].copy # None =>
                 state' \in {None, task'[t].copy}
  <1>1. CASE Delete(t)
    <2>1. Go(t, "unlist", task[t].copy) /\ "unlist" \in Places \ {"idle"}
      BY <1>1 DEF Delete, Goto, Places
    <2>2. task'[t].at = "unlist" /\ state' = None
      BY <1>1, <2>1, TaskKnown, WentTo DEF Delete, Success, Write
    <2>3. QED
      BY <2>2
  <1>2. CASE Unlist(t)
    <2>1. state' = None
      BY <1>2 DEF Unlist, KeptByAll, Keeps
    <2>2. QED
      BY <1>2, <2>1
  <1>3. CASE Emit(t)
    <2>1. Stored(t) /\ state' = state
      BY <1>3, EmitGoes DEF Emit, At, Stored
    <2>2. "publish" \in Places \ {"idle"}
      BY DEF Places
    <2>3. task'[t].at = "publish" /\ task'[t].copy = task[t].copy
      BY <1>3, <2>2, EmitGoes, TaskKnown, WentTo
    <2>4. QED
      BY <2>1, <2>3 DEF KeptByAll, Keeps
  <1>4. CASE Load(t)
    <2>1. task'[t].at \notin {"unlist", "publish"}
      BY <1>4, LoadWent
    <2>2. QED
      BY <2>1
  <1>5. CASE ~Delete(t) /\ ~Unlist(t) /\ ~Emit(t) /\ ~Load(t)
    <2>1. task'[t].at \notin {"unlist", "publish"}
      BY <1>5, WorkWent
    <2>2. QED
      BY <2>1
  <1>6. QED
    BY <1>1, <1>2, <1>3, <1>4, <1>5

LEMMA KeptStep ==
    TypeInv /\ Mutex /\ Loaded /\ KeptByAll /\ Faults = {} /\ [Next]_vars => KeptByAll'
<1> SUFFICES ASSUME TypeInv, Mutex, Loaded, KeptByAll, Faults = {}, [Next]_vars,
                    NEW u \in Task
             PROVE  Keeps(u)'
  BY DEF KeptByAll
<1>0. /\ task'[u] = task[u] /\ backend' = backend
      /\ \/ state' = state
         \/ ~InStep(u) /\ (backend = "redis" => ~LockedStep(u))
      => Keeps(u)'
  BY KeepsStays DEF KeptByAll
<1>1. ASSUME NEW t \in Task, NEW op, NEW place \in {"create", "lock"},
             Begin(t, op, place)
      PROVE  Keeps(u)'
  <2>1. /\ task' = [task EXCEPT ![t] = [at |-> place, op |-> op, copy |-> None]]
        /\ state' = state /\ backend' = backend
    BY <1>1 DEF Begin
  <2>2. task'[u] = task[u] \/ task'[u].at = place
    BY <2>1 DEF TypeInv, TypeOK
  <2>3. task'[u].at = place => Keeps(u)'
    BY DEF Keeps, Stored, At
  <2>4. QED
    BY <1>0, <2>1, <2>2, <2>3
<1>2. ASSUME NEW t \in Task, TryLock(t) \/ Work(t) PROVE Keeps(u)'
  <2>0. backend' = backend
    BY <1>2 DEF TryLock, Work, Busy, Load, Save, List, Delete, Unlist, Emit, Publish,
                Unlock, Create
  <2>1. CASE u = t
    BY <1>2, <2>0, <2>1, WorkStores, WorkTells DEF Keeps, At
  <2>2. CASE u # t
    <3>1. task'[u] = task[u]
      <4>1. PICK place \in Places, room \in Seq(Task) \cup {None} : Go(t, place, room)
        BY <1>2, WorkMoves
      <4>2. QED
        BY <2>2, <4>1, GoMoves
    <3>2. QED
      BY <1>0, <1>2, <2>0, <2>2, <3>1, WriterAlone
  <2>3. QED
    BY <2>1, <2>2
<1>3. ASSUME NEW p \in Pod, Crash(p) PROVE Keeps(u)'
  <2>1. (task'[u] = Idle \/ task'[u] = task[u]) /\ state' = state /\ backend' = backend
    BY <1>3 DEF Crash
  <2>2. task'[u] = Idle => Keeps(u)'
    BY DEF Idle, Keeps, Stored, At
  <2>3. QED
    BY <1>0, <2>1, <2>2
<1>4. CASE LockExpires \/ UNCHANGED vars
  BY <1>0, <1>4 DEF LockExpires, vars
<1>5. CASE RoomExpires
  BY <1>0, <1>5 DEF RoomExpires, AtWork, InStep, LockedStep
<1>6. ASSUME NEW p \in Watched, Deliver(p) \/ ClientsGo(p) PROVE Keeps(u)'
  BY <1>0, <1>6 DEF Deliver, ClientsGo
<1>7. QED
  <2>1. ASSUME NEW t \in Task, NEW what \in Requests, Request(t, what) PROVE Keeps(u)'
    BY <1>1, <2>1 DEF Request
  <2>2. ASSUME NEW t \in Task, Reap(t) PROVE Keeps(u)'
    BY <1>1, <2>2 DEF Reap
  <2>3. QED
    BY <1>2, <1>3, <1>4, <1>5, <1>6, <2>1, <2>2 DEF Next

-----------------------------------------------------------------------------
(* The messages of a room follow its states.                               *)

\* A task that may still publish something of the room.
Leaving(t) ==
    backend = "redis" /\ task[t].at \in {"unlist", "publish"} /\ task[t].copy # None

\* Nothing a pod's clients see or will see is newer than the room, nor newer than
\* what a task has still to tell of it; in memory nothing is under way.
Relayed(p) ==
    /\ InOrder(shown[p], events[p])
    /\ state # None => Under(shown[p], events[p], state)
    /\ \A t \in Task : Leaving(t) => Under(shown[p], events[p], task[t].copy)
    /\ backend # "redis" => events[p] = <<>>

Relay == \A p \in Watched : Relayed(p)

LEMMA InitRelay == Init => KeptByAll /\ Relay
<1> SUFFICES ASSUME Init PROVE KeptByAll /\ Relay
  OBVIOUS
<1>1. \A t \in Task : task[t].at = "idle"
  BY DEF Init, Idle
<1>2. KeptByAll
  BY <1>1 DEF Init, KeptByAll, Keeps, Stored, At
<1>3. ASSUME NEW p \in Watched PROVE Relayed(p)
  <2>1. events[p] = <<>> /\ 1..Len(events[p]) = {}
    BY DEF Init
  <2>2. InOrder(shown[p], events[p])
    BY <2>1 DEF InOrder
  <2>3. QED
    BY <1>1, <2>1, <2>2 DEF Init, Relayed, Leaving
<1>4. QED
  BY <1>2, <1>3 DEF Relay

\* In Redis nobody else is in a step.
LEMMA OnlyLeaving ==
    ASSUME TypeInv, Mutex, NEW t \in Task, LockedStep(t), NEW u \in Task, Leaving(u)
    PROVE  u = t
  <1>1. LockedStep(u) /\ backend = "redis"
    BY TaskKnown DEF Leaving, LockedStep, AtWork, Fits
  <1>2. QED
    BY <1>1 DEF Mutex, Holding

LEMMA SeqsKnown ==
    ASSUME TypeInv, NEW p \in Watched
    PROVE  /\ shown[p] \in Seq(Task) /\ events[p] \in Seq(Seq(Task))
           /\ state \in Seq(Task) \cup {None}
  BY DEF TypeInv, TypeOK

\* A step that tells nobody anything new.
LEMMA QuietStep ==
    ASSUME TypeInv, Relay, NEW p \in Watched,
           shown'[p] \in {shown[p], <<>>}, events'[p] \in {events[p], <<>>},
           backend' = backend, state' \in {state, None},
           \A t \in Task : task'[t] = task[t] \/ ~Leaving(t)'
    PROVE  /\ Relayed(p)'
           /\ shown'[p] # shown[p] => shown'[p] = <<>>
  <1>1. Relayed(p)
    BY DEF Relay
  <1>2. /\ InOrder(shown'[p], events'[p])
        /\ \A s \in Seq(Task) : Under(shown[p], events[p], s) => Under(shown'[p], events'[p], s)
    BY <1>1, SeqsKnown, FewerInOrder DEF Relayed
  <1>3. state' # None => Under(shown'[p], events'[p], state')
    BY <1>1, <1>2, SeqsKnown DEF Relayed
  <1>4. ASSUME NEW t \in Task, Leaving(t)'
        PROVE  Under(shown'[p], events'[p], task'[t].copy)
    <2>1. task'[t] = task[t] /\ Leaving(t)
      BY <1>4 DEF Leaving
    <2>2. task[t].copy \in Seq(Task)
      BY <2>1, TaskKnown DEF Leaving
    <2>3. QED
      BY <1>1, <1>2, <2>1, <2>2 DEF Relayed
  <1>5. backend' # "redis" => events'[p] = <<>>
    BY <1>1 DEF Relayed
  <1>6. QED
    BY <1>2, <1>3, <1>4, <1>5 DEF Relayed

\* The room grows: what was not newer still is not.
LEMMA SaveRelays ==
    ASSUME TypeInv, Loaded, Relay, Faults = {}, NEW p \in Watched,
           NEW t \in Task, Save(t)
    PROVE  Relayed(p)' /\ shown'[p] = shown[p]
  <1>1. /\ state # None /\ shown' = shown /\ events' = events
        /\ state' \in {Append(state, t), state} /\ backend' = backend
    BY DEF Save, Loaded, LoadedBy, Success, Write, clients
  <1>2. state \in Seq(Task) /\ Relayed(p)
    BY <1>1, SeqsKnown DEF Relay
  <1>3. Under(shown[p], events[p], state')
    BY <1>1, <1>2, SeqsKnown, UnderAppend DEF Relayed
  <1>4. \A u \in Task : task'[u] = task[u] \/ ~Leaving(u)'
    <2>1. task'[t].at \notin {"unlist", "publish"} /\ \A u \in Task \ {t} : task'[u] = task[u]
      BY WorkWent DEF Save, Work, Delete, Unlist, Emit, Load, At
    <2>2. QED
      BY <2>1 DEF Leaving
  <1>5. \A u \in Task : Leaving(u)' => task'[u].copy = task[u].copy /\ Leaving(u)
    BY <1>1, <1>4 DEF Leaving
  <1>6. QED
    BY <1>1, <1>2, <1>3, <1>5 DEF Relayed

\* The room that is removed is the one that was loaded.
LEMMA DeleteRelays ==
    ASSUME TypeInv, Loaded, Relay, Faults = {}, NEW p \in Watched,
           NEW t \in Task, Delete(t)
    PROVE  Relayed(p)' /\ shown'[p] = shown[p]
  <1>1. /\ state' = None /\ shown' = shown /\ events' = events /\ backend' = backend
        /\ task[t].copy = state
    BY DEF Delete, Loaded, LoadedBy, Success, Write, clients
  <1>2. Go(t, "unlist", task[t].copy) /\ "unlist" \in Places \ {"idle"}
    BY DEF Delete, Goto, Places
  <1>3. task'[t].copy = state /\ \A u \in Task \ {t} : task'[u] = task[u]
    <2>1. task[t].copy \in Seq(Task) \cup {None}
      BY TaskKnown
    <2>2. task'[t].copy = task[t].copy
      BY <1>2, <2>1, WentTo
    <2>3. \A u \in Task \ {t} : task'[u] = task[u]
      BY <1>2, <2>1, GoMoves
    <2>4. QED
      BY <1>1, <2>2, <2>3
  <1>4. ASSUME NEW u \in Task, Leaving(u)'
        PROVE  Under(shown[p], events[p], task'[u].copy)
    <2>1. CASE u = t
      BY <1>3, <1>4, <2>1 DEF Relay, Relayed, Leaving
    <2>2. CASE u # t
      BY <1>1, <1>3, <1>4, <2>2 DEF Relay, Relayed, Leaving
    <2>3. QED
      BY <2>1, <2>2
  <1>5. QED
    BY <1>1, <1>4 DEF Relay, Relayed

\* The sessions of a removed room are dropped.
LEMMA UnlistRelays ==
    ASSUME TypeInv, Relay, NEW p \in Watched, NEW t \in Task, Unlist(t)
    PROVE  Relayed(p)' /\ (shown'[p] # shown[p] => shown'[p] = <<>>)
  <1>1. /\ events' = events /\ backend' = backend /\ state' = state
        /\ shown'[p] \in {shown[p], <<>>}
    <2>1. ClientsOK
      BY TaskKnown
    <2>2. QED
      BY <2>1, EmptySeq, ShowType DEF Unlist
  <1>2. Relayed(p)
    BY DEF Relay
  <1>3. /\ InOrder(shown'[p], events[p])
        /\ \A s \in Seq(Task) : Under(shown[p], events[p], s) => Under(shown'[p], events[p], s)
    BY <1>1, <1>2, SeqsKnown, FewerInOrder DEF Relayed
  <1>4. PICK place \in {"unlock", "publish"}, room \in Seq(Task) \cup {None} :
            /\ Go(t, place, room)
            /\ place = "publish" /\ room # None =>
                  task[t].copy \in Seq(Task) /\ room = Append(task[t].copy, t)
    BY UnlistGoes
  <1>5. place \in Places \ {"idle"}
    BY DEF Places
  <1>6. /\ task'[t].at = place /\ task'[t].copy = room
        /\ \A u \in Task \ {t} : task'[u] = task[u]
    BY <1>4, <1>5, GoMoves, WentTo
  <1>7. ASSUME NEW u \in Task, Leaving(u)'
        PROVE  Under(shown'[p], events[p], task'[u].copy)
    <2>1. CASE u = t
      <3>1. place = "publish" /\ room # None /\ backend = "redis"
        BY <1>1, <1>6, <1>7, <2>1 DEF Leaving
      <3>2. task[t].copy \in Seq(Task) /\ room = Append(task[t].copy, t)
        BY <1>4, <3>1
      <3>3. Leaving(t)
        BY <3>1, <3>2, NoneApart DEF Unlist, At, Leaving
      <3>4. Under(shown'[p], events[p], task[t].copy)
        BY <1>2, <1>3, <3>2, <3>3 DEF Relayed
      <3>5. shown'[p] \in Seq(Task)
        BY <1>1, SeqsKnown, EmptySeq
      <3>6. QED
        BY <1>6, <2>1, <3>2, <3>4, <3>5, SeqsKnown, UnderAppend
    <2>2. CASE u # t
      <3>1. Leaving(u) /\ task'[u] = task[u]
        BY <1>1, <1>6, <1>7, <2>2 DEF Leaving
      <3>2. task[u].copy \in Seq(Task)
        BY <3>1, TaskKnown DEF Leaving
      <3>3. QED
        BY <1>2, <1>3, <3>1, <3>2 DEF Relayed
    <2>3. QED
      BY <2>1, <2>2
  <1>8. state # None => Under(shown'[p], events[p], state)
    BY <1>2, <1>3, SeqsKnown DEF Relayed
  <1>9. QED
    BY <1>1, <1>2, <1>3, <1>7, <1>8 DEF Relayed

\* A pod's own clients are shown what is stored.
LEMMA EmitRelays ==
    ASSUME TypeInv, Mutex, KeptByAll, Relay, NEW p \in Watched, NEW t \in Task, Emit(t)
    PROVE  Relayed(p)' /\ IsPrefix(shown[p], shown'[p])
  <1>1. Stored(t) /\ LockedStep(t)
    BY EmitGoes DEF Emit, At, Stored, LockedStep, AtWork
  <1>2. /\ state # None /\ task[t].copy = state /\ state \in Seq(Task)
        /\ UNCHANGED <<state, backend, events>>
    BY <1>1, SeqsKnown DEF KeptByAll, Keeps, Emit
  <1>3. shown'[p] \in {shown[p], state}
    <2>1. ClientsOK
      BY TaskKnown
    <2>2. QED
      BY <1>2, <2>1, ShowType DEF Emit
  <1>4. Relayed(p) /\ Under(shown[p], events[p], state)
    BY <1>2 DEF Relay, Relayed
  <1>5. InOrder(shown'[p], events[p]) /\ Under(shown'[p], events[p], state)
    BY <1>2, <1>3, <1>4, SeqsKnown, ShowInOrder DEF Relayed
  <1>6. "publish" \in Places \ {"idle"}
    BY DEF Places
  <1>7. task'[t].copy = state /\ \A u \in Task \ {t} : task'[u] = task[u]
    <2>1. task[t].copy \in Seq(Task) \cup {None} /\ Go(t, "publish", task[t].copy)
      BY EmitGoes, TaskKnown
    <2>2. task'[t].copy = task[t].copy
      BY <1>6, <2>1, WentTo
    <2>3. \A u \in Task \ {t} : task'[u] = task[u]
      BY <1>6, <2>1, GoMoves
    <2>4. QED
      BY <1>2, <2>2, <2>3
  <1>8. ASSUME NEW u \in Task, Leaving(u)' PROVE u = t
    BY <1>1, <1>2, <1>7, <1>8, OnlyLeaving DEF Leaving
  <1>9. IsPrefix(shown[p], shown'[p])
    BY <1>2, <1>3, <1>4, SeqsKnown, PrefixOfItself DEF Under
  <1>10. QED
    BY <1>2, <1>4, <1>5, <1>7, <1>8, <1>9 DEF Relayed

\* The others are sent what is stored, or the last of a room that is gone.
LEMMA PublishRelays ==
    ASSUME TypeInv, Mutex, KeptByAll, Relay, NEW p \in Watched, NEW t \in Task, Publish(t)
    PROVE  Relayed(p)' /\ shown'[p] = shown[p]
  <1>1. Op(t) \in {"step", "try"} /\ At(t, "publish") /\ LockedStep(t)
    BY PublishGoes DEF Publish, At, LockedStep, AtWork
  <1>2. UNCHANGED <<state, backend, shown>> /\ Relayed(p)
    BY DEF Publish, Relay
  <1>3. "unlock" \in Places \ {"idle"}
    BY DEF Places
  <1>4. task'[t].at = "unlock" /\ \A u \in Task \ {t} : task'[u] = task[u]
    BY <1>3, PublishGoes, TaskKnown, GoMoves, WentTo
  <1>5. ASSUME NEW u \in Task PROVE ~Leaving(u)' \/ (task'[u] = task[u] /\ Leaving(u))
    <2>1. CASE u = t
      <3>1. task'[u].at = "unlock"
        BY <1>4, <2>1
      <3>2. QED
        BY <3>1 DEF Leaving
    <2>2. CASE u # t
      <3>1. task'[u] = task[u] /\ backend' = backend
        BY <1>2, <1>4, <2>2
      <3>2. QED
        BY <3>1 DEF Leaving
    <2>3. QED
      BY <2>1, <2>2
  <1>6. CASE events'[p] = events[p]
    BY <1>2, <1>5, <1>6 DEF Relayed
  <1>7. CASE events'[p] # events[p]
    <2>1. /\ p \notin Near(PodOf[t]) /\ task[t].copy \in Seq(Task)
          /\ events'[p] = Append(events[p], task[t].copy)
      BY <1>7, PublishEvents
    <2>2. backend = "redis"
      BY <2>1, StoreAssumption DEF Near
    <2>3. Leaving(t)
      BY <1>1, <2>1, <2>2, NoneApart DEF Leaving, At
    <2>4. Under(shown[p], events[p], task[t].copy)
      BY <1>2, <2>3 DEF Relayed
    <2>5. /\ InOrder(shown[p], events'[p])
          /\ Under(shown[p], events'[p], task[t].copy)
      BY <1>2, <2>1, <2>4, SeqsKnown, AppendInOrder DEF Relayed
    <2>6. state \in {None, task[t].copy}
      BY <1>1, <2>2, <2>3 DEF KeptByAll, Keeps, Leaving
    <2>7. \A u \in Task : ~Leaving(u)'
      BY <1>1, <1>4, <1>5, OnlyLeaving DEF Leaving
    <2>8. QED
      BY <1>2, <2>2, <2>5, <2>6, <2>7 DEF Relayed
  <1>8. QED
    BY <1>2, <1>6, <1>7

\* A new room's code is one nobody hears of.
LEMMA CreateRelays ==
    ASSUME TypeInv, Relay, Faults = {}, NEW p \in Watched, NEW t \in Task, Create(t)
    PROVE  Relayed(p)' /\ (shown'[p] # shown[p] => IsPrefix(shown[p], shown'[p]))
  <1>1. Op(t) = "create"
    BY TaskKnown DEF Create, At, Fits
  <1>2. task'[t].at \notin {"unlist", "publish"} /\ \A u \in Task \ {t} : task'[u] = task[u]
    BY WorkWent DEF Create, Work, Delete, Unlist, Emit, Load, At
  <1>3. events' = events /\ backend' = backend
    BY DEF Create
  <1>4. CASE state # None
    <2>1. shown' = shown /\ state' = state
      BY <1>4 DEF Create, Unused
    <2>2. \A u \in Task : task'[u] = task[u] \/ ~Leaving(u)'
      BY <1>2 DEF Leaving
    <2>3. QED
      BY <1>3, <2>1, <2>2, QuietStep
  <1>5. CASE state = None
    <2>1. /\ shown[p] = <<>> /\ events[p] = <<>>
          /\ \A u \in Task : task[u].at \in {"idle", "create"}
      BY <1>5 DEF Create, Unused
    <2>2. state' = <<t>> /\ Show(Near(PodOf[t]), <<t>>)
      BY <1>5 DEF Create, Success
    <2>3. <<t>> \in Seq(Task) /\ ClientsOK
      BY TaskKnown
    <2>4. shown'[p] \in {<<>>, <<t>>}
      <3>1. shown'[p] = IF p \in Near(PodOf[t]) THEN <<t>> ELSE shown[p]
        BY <2>2, <2>3, ShowType
      <3>2. QED
        BY <2>1, <3>1
    <2>5. IsPrefix(<<>>, <<t>>) /\ IsPrefix(<<t>>, <<t>>)
      BY <2>3, EmptyPrefix, PrefixOfItself
    <2>6. 1..Len(events'[p]) = {}
      BY <1>3, <2>1
    <2>7. InOrder(shown'[p], events'[p]) /\ Under(shown'[p], events'[p], state')
      BY <2>2, <2>4, <2>5, <2>6 DEF InOrder, Under
    <2>8. \A u \in Task : ~Leaving(u)'
      BY <1>2, <2>1 DEF Leaving
    <2>9. QED
      BY <1>3, <2>1, <2>4, <2>5, <2>7, <2>8 DEF Relayed
  <1>6. QED
    BY <1>4, <1>5

\* The subscriber forwards in the order of the messages.
LEMMA DeliverRelays ==
    ASSUME TypeInv, Relay, NEW p \in Watched, NEW q \in Watched, Deliver(q)
    PROVE  /\ Relayed(p)'
           /\ shown'[p] # shown[p] =>
                 \/ IsPrefix(shown[p], shown'[p])
                 \/ backend = "redis" /\ Forwards(p) /\ IsPrefix(shown'[p], shown[p])
  <1>1. UNCHANGED <<backend, state, task>> /\ ClientsOK /\ Relayed(p)
    BY TaskKnown DEF Deliver, Relay, TypeInv, TypeOK, ClientsOK
  <1>2. Head(events[q]) \in Seq(Task) /\ Tail(events[q]) \in Seq(Seq(Task))
    BY <1>1 DEF Deliver, ClientsOK
  <1>3. /\ shown'[p] = IF p = q THEN Head(events[q]) ELSE shown[p]
        /\ events'[p] = IF p = q THEN Tail(events[q]) ELSE events[p]
    BY <1>1, <1>2, ShowType DEF Deliver, ClientsOK
  <1>4. CASE p # q
    BY <1>1, <1>3, <1>4 DEF Relayed, Leaving
  <1>5. CASE p = q
    <2>1. /\ events[p] # <<>> /\ shown'[p] = Head(events[p])
          /\ events'[p] = Tail(events[p])
      BY <1>3, <1>5 DEF Deliver
    <2>2. backend = "redis"
      BY <1>1, <2>1 DEF Relayed
    <2>3. /\ InOrder(shown'[p], events'[p])
          /\ IsPrefix(shown[p], shown'[p]) \/ IsPrefix(shown'[p], shown[p])
          /\ \A s \in Seq(Task) : Under(shown[p], events[p], s) => Under(shown'[p], events'[p], s)
      BY <1>1, <2>1, SeqsKnown, ForwardInOrder DEF Relayed
    <2>4. state # None => Under(shown'[p], events'[p], state)
      BY <1>1, <2>3, SeqsKnown DEF Relayed
    <2>5. \A u \in Task : Leaving(u) => Under(shown'[p], events'[p], task[u].copy)
      BY <1>1, <2>3, TaskKnown DEF Relayed, Leaving
    <2>6. QED
      BY <1>1, <2>1, <2>2, <2>3, <2>4, <2>5 DEF Relayed, Leaving, Forwards
  <1>6. QED
    BY <1>4, <1>5

\* What OlderOnlyForwarded says of a pod.
Forth(p) == shown'[p] # shown[p] =>
    \/ shown'[p] = <<>>
    \/ IsPrefix(shown[p], shown'[p])
    \/ backend = "redis" /\ Forwards(p) /\ IsPrefix(shown'[p], shown[p])

LEMMA RelayStep ==
    TypeInv /\ Mutex /\ Loaded /\ KeptByAll /\ Relay /\ Faults = {} /\ [Next]_vars
    => Relay' /\ \A p \in Watched : Forth(p)
<1> SUFFICES ASSUME TypeInv, Mutex, Loaded, KeptByAll, Relay, Faults = {}, [Next]_vars,
                    NEW p \in Watched
             PROVE  Relayed(p)' /\ Forth(p)
  BY DEF Relay
<1> DEFINE Fine == Relayed(p)' /\ Forth(p)
<1>0. ASSUME shown'[p] \in {shown[p], <<>>}, events'[p] \in {events[p], <<>>},
             backend' = backend, state' \in {state, None},
             \A t \in Task : task'[t] = task[t] \/ ~Leaving(t)'
      PROVE  Fine
  BY <1>0, QuietStep DEF Forth
<1>1. ASSUME NEW t \in Task, NEW op, NEW place \in {"create", "lock"},
             Begin(t, op, place)
      PROVE  Fine
  <2>1. /\ task' = [task EXCEPT ![t] = [at |-> place, op |-> op, copy |-> None]]
        /\ state' = state /\ backend' = backend /\ shown' = shown /\ events' = events
    BY <1>1 DEF Begin, clients
  <2>2. \A u \in Task : task'[u] = task[u] \/ task'[u].at = place
    BY <2>1 DEF TypeInv, TypeOK
  <2>3. \A u \in Task : task'[u] = task[u] \/ ~Leaving(u)'
    BY <2>2 DEF Leaving
  <2>4. QED
    BY <1>0, <2>1, <2>3
<1>2. ASSUME NEW t \in Task,
             TryLock(t) \/ Busy(t) \/ Load(t) \/ List(t) \/ Unlock(t)
      PROVE  Fine
  <2>1. UNCHANGED <<backend, state, shown, events>>
    BY <1>2 DEF TryLock, Busy, Load, List, Unlock, clients
  <2>2. task'[t].at \notin {"unlist", "publish"} /\ \A u \in Task \ {t} : task'[u] = task[u]
    <3>1. CASE Load(t)
      BY <3>1, LoadWent
    <3>2. CASE TryLock(t) \/ Busy(t) \/ List(t) \/ Unlock(t)
      BY <3>2, WorkWent
         DEF TryLock, Busy, List, Unlock, Work, Delete, Unlist, Emit, Load, At
    <3>3. QED
      BY <1>2, <3>1, <3>2
  <2>3. \A u \in Task : task'[u] = task[u] \/ ~Leaving(u)'
    BY <2>2 DEF Leaving
  <2>4. QED
    BY <1>0, <2>1, <2>3
<1>3. ASSUME NEW t \in Task, Save(t) \/ Delete(t) \/ Publish(t) PROVE Fine
  BY <1>3, SaveRelays, DeleteRelays, PublishRelays DEF Forth
<1>4. ASSUME NEW t \in Task, Unlist(t) \/ Emit(t) \/ Create(t) PROVE Fine
  BY <1>4, UnlistRelays, EmitRelays, CreateRelays DEF Forth
<1>5. ASSUME NEW q \in Watched, Deliver(q) PROVE Fine
  BY <1>5, DeliverRelays DEF Forth
<1>6. ASSUME NEW q \in Watched, ClientsGo(q) PROVE Fine
  <2>1. ClientsOK
    BY TaskKnown DEF TypeInv, TypeOK, ClientsOK
  <2>2. shown'[p] \in {shown[p], <<>>}
    BY <1>6, <2>1, EmptySeq, ShowType DEF ClientsGo
  <2>3. QED
    BY <1>0, <1>6, <2>2 DEF ClientsGo
<1>7. ASSUME NEW q \in Pod, Crash(q) PROVE Fine
  <2>1. ClientsOK
    BY DEF TypeInv, TypeOK, ClientsOK
  <2>2. shown'[p] \in {shown[p], <<>>} /\ events'[p] \in {events[p], <<>>}
    BY <1>7, <2>1, EmptySeq, ShowType DEF Crash
  <2>3. \A u \in Task : task'[u] = task[u] \/ task'[u] = Idle
    BY <1>7 DEF Crash
  <2>4. \A u \in Task : task'[u] = task[u] \/ ~Leaving(u)'
    BY <2>3 DEF Leaving, Idle
  <2>5. QED
    BY <1>0, <1>7, <2>2, <2>4 DEF Crash
<1>8. CASE LockExpires \/ RoomExpires \/ UNCHANGED vars
  BY <1>0, <1>8 DEF LockExpires, RoomExpires, vars, clients
<1>9. QED
  <2>1. ASSUME NEW t \in Task, NEW what \in Requests, Request(t, what) PROVE Fine
    BY <1>1, <2>1 DEF Request
  <2>2. ASSUME NEW t \in Task, Reap(t) PROVE Fine
    BY <1>1, <2>2 DEF Reap
  <2>3. QED
    BY <1>2, <1>3, <1>4, <1>5, <1>6, <1>7, <1>8, <2>1, <2>2 DEF Next, Work

ShowsInv == TypeInv /\ Copied /\ Mutex /\ Loaded /\ KeptByAll /\ Relay

LEMMA ShowsInvHolds ==
    ASSUME Faults = {}
    PROVE  (Init => ShowsInv) /\ (ShowsInv /\ [Next]_vars => ShowsInv')
  <1>1. Init => ShowsInv
    BY InitType, InitCopied, InitMutex, InitLoaded, InitRelay DEF ShowsInv
  <1>2. ShowsInv /\ [Next]_vars => ShowsInv'
    BY TypeStep, CopiedStep, MutexStep, LoadedStep, KeptStep, RelayStep DEF ShowsInv
  <1>3. QED
    BY <1>1, <1>2

\* The messages of a room that are under way to a pod are of states that were
\* stored one after the other, whichever pods sent them, wherever pods crash.
THEOREM PublishedInOrder == ASSUME Faults = {} PROVE Spec => []EventsInOrder
  <1>1. Init => ShowsInv
    BY ShowsInvHolds
  <1>2. ShowsInv /\ [Next]_vars => ShowsInv'
    BY ShowsInvHolds
  <1>3. ShowsInv => EventsInOrder
    BY DEF ShowsInv, Relay, Relayed, InOrder, EventsInOrder
  <1>4. QED
    BY <1>1, <1>2, <1>3, PTL DEF Spec

\* A pod shows its clients ever newer states of a room, except that a message of
\* another pod may come after a newer state this pod has stored itself: then, and
\* only in Redis, they are shown what that pod had stored.
THEOREM ShownInOrder == ASSUME Faults = {} PROVE Spec => OlderOnlyForwarded
  <1> DEFINE AllForth == \A p \in Watched : Forth(p)
  <1>1. Init => ShowsInv
    BY ShowsInvHolds
  <1>2. ShowsInv /\ [Next]_vars => ShowsInv'
    BY ShowsInvHolds
  <1>3. ShowsInv /\ [Next]_vars => [AllForth]_vars
    BY RelayStep DEF ShowsInv
  <1>4. [AllForth]_vars => [\A p \in Watched : shown'[p] # shown[p] =>
          \/ shown'[p] = <<>>
          \/ IsPrefix(shown[p], shown'[p])
          \/ backend = "redis" /\ Forwards(p) /\ IsPrefix(shown'[p], shown[p])]_vars
    BY DEF Forth
  <1>5. QED
    BY <1>1, <1>2, <1>3, <1>4, PTL DEF Spec, OlderOnlyForwarded
=============================================================================
