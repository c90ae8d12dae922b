----------------------------- MODULE PodsProofs -----------------------------
(***************************************************************************)
(* Theorems of module Pods: what crashes, reapers and reclaims do to the   *)
(* seats, whatever processes, sockets and tokens there are.                *)
(*                                                                         *)
(* The lobby's invariant RoomInv survives every step; the order of seats   *)
(* and entries, Sound, does not survive a reclaim that compacts the lobby. *)
(***************************************************************************)
EXTENDS PodsProperties, LobbyProofs

-----------------------------------------------------------------------------
(* The closure of reap_zombie_seats.                                       *)

LEMMA SeatDisconnectOutcome ==
    ASSUME NEW r, NEW s, NEW a, a = SeatDisconnect(r, s)
    PROVE  IsOutcome(a)
<1>1. \A x : IsOutcome(Outcome(x))
  BY DEF IsOutcome, Outcome
<1>2. ASSUME NEW b, IsOutcome(b)
      PROVE  IsOutcome(UnlessOrphaned(b))
  BY <1>1, <1>2 DEF UnlessOrphaned
<1>3. CASE Dissolves(r, s)
  BY <1>1, <1>3 DEF SeatDisconnect, Dissolves
<1>4. CASE ~Human(r, s)
  BY <1>1, <1>4 DEF SeatDisconnect, Dissolves
<1>5. CASE Human(r, s) /\ r.phase # "Lobby"
  BY <1>1, <1>2, <1>5 DEF SeatDisconnect, Dissolves
<1>6. CASE Human(r, s) /\ r.phase = "Lobby" /\ ~Dissolves(r, s)
  <2>1. PICK passed : passed = PassCrownOn(
           Disconnect(AddDisconnected(r, s, r.players[s].token), s), s)
    OBVIOUS
  <2>2. PICK reaped : reaped = ReapStale(passed)
    OBVIOUS
  <2>3. IsOutcome(reaped)
    BY <2>2, ReapStaleOutcome
  <2>4. PICK last : last = [reaped EXCEPT !.room = RecordHumanDisconnect(@)]
    OBVIOUS
  <2>5. IsOutcome(last)
    BY <2>3, <2>4 DEF IsOutcome
  <2>6. a = UnlessOrphaned(last)
    BY <1>6, <2>1, <2>2, <2>4 DEF SeatDisconnect
  <2> QED
    BY <1>2, <2>5, <2>6
<1> QED
  BY <1>3, <1>4, <1>5, <1>6

\* One outcome comes from another by taking the seats of Z, as far as they are
\* there: what SeatDisconnect promises for one seat, for several.
Took(b, a, Z) ==
    /\ Keeps(b.room, a.room)
    /\ b.renumbered \in Renumberings
    /\ \/ b.room.phase = a.room.phase
       \/ b.room.phase = "Gone" /\ Len(b.room.players) = 0
    /\ Len(b.room.players) <= Len(a.room.players)
    /\ Len(b.room.players) = Len(a.room.players)
       => /\ DOMAIN a.renumbered = {} => DOMAIN b.renumbered = {}
          /\ \A i \in 1..Len(a.room.players) :
                /\ b.room.players[i].token \in {a.room.players[i].token, None}
                /\ i \notin Z => SameHolder(b.room.players[i], a.room.players[i])
    /\ Good(a.room) /\ a.room.phase # "Lobby" /\ b.room.phase # "Gone"
       => Recalls(b.room, a.room)

LEMMA TookTypes ==
    ASSUME NEW a, NEW b, NEW Z, Took(b, a, Z)
    PROVE  Typed(b.room) /\ b.renumbered \in Renumberings
BY DEF Took, Keeps

LEMMA TookNothing ==
    ASSUME NEW a, Typed(a.room), a.renumbered \in Renumberings, NEW Z
    PROVE  Took(a, a, Z)
<1>1. PICK n \in 0..4 : Len(a.room.players) = n
  BY RoomTypeFacts DEF Typed
<1>2. n <= n
  OBVIOUS
<1> QED
  BY <1>1, <1>2 DEF Took, Keeps, SameHolder, Recalls

LEMMA RecallsTwice ==
    ASSUME NEW a, NEW b, NEW c, Recalls(b, a), Recalls(c, b)
    PROVE  Recalls(c, a)
<1>1. /\ a.disconnected \subseteq c.disconnected
      /\ \A e \in c.disconnected : e \in a.disconnected \/ e.age < RejoinTimeout
  BY DEF Recalls
<1>2. ASSUME NEW i \in 1..Len(a.players), Human(a, i)
      PROVE  \/ Human(c, i) /\ c.players[i].token = a.players[i].token
             \/ \E e \in c.disconnected : e.token = a.players[i].token
  <2>1. CASE Human(b, i) /\ b.players[i].token = a.players[i].token
    BY <2>1 DEF Recalls, Human, IsSeat
  <2>2. CASE \E e \in b.disconnected : e.token = a.players[i].token
    BY <2>2 DEF Recalls
  <2> QED
    BY <1>2, <2>1, <2>2 DEF Recalls
<1> QED
  BY <1>1, <1>2 DEF Recalls

LEMMA TookTwice ==
    ASSUME NEW a, Typed(a.room), NEW Z, NEW b, Took(b, a, Z), NEW c, Took(c, b, Z)
    PROVE  Took(c, a, Z)
<1>1. Keeps(c.room, a.room)
  BY KeepsTwice DEF Took
<1>2. PICK n1 \in 0..4, n2 \in 0..4, n3 \in 0..4 :
         /\ Len(a.room.players) = n1 /\ Len(b.room.players) = n2
         /\ Len(c.room.players) = n3
  BY RoomTypeFacts DEF Took, Keeps, Typed
<1>3. n2 <= n1 /\ n3 <= n2
  BY <1>2 DEF Took
<1>4. n3 <= n1 /\ (n3 = n1 => n2 = n1 /\ n3 = n2)
  BY <1>3
<1>5. \/ c.room.phase = a.room.phase
      \/ c.room.phase = "Gone" /\ n3 = 0
  <2>1. n2 = 0 => n3 = 0
    BY <1>3
  <2> QED
    BY <1>2, <2>1 DEF Took
<1>6. c.renumbered \in Renumberings
  BY DEF Took
<1>7. ASSUME n3 = n1
      PROVE  /\ DOMAIN a.renumbered = {} => DOMAIN c.renumbered = {}
             /\ \A i \in 1..n1 :
                   /\ c.room.players[i].token \in {a.room.players[i].token, None}
                   /\ i \notin Z => SameHolder(c.room.players[i], a.room.players[i])
  <2>1. n2 = n1 /\ n3 = n2
    BY <1>4, <1>7
  <2>2. /\ DOMAIN a.renumbered = {} => DOMAIN b.renumbered = {}
        /\ \A i \in 1..n1 :
              /\ b.room.players[i].token \in {a.room.players[i].token, None}
              /\ i \notin Z => SameHolder(b.room.players[i], a.room.players[i])
    BY <1>2, <2>1 DEF Took
  <2>3. /\ DOMAIN b.renumbered = {} => DOMAIN c.renumbered = {}
        /\ \A i \in 1..n1 :
              /\ c.room.players[i].token \in {b.room.players[i].token, None}
              /\ i \notin Z => SameHolder(c.room.players[i], b.room.players[i])
    BY <1>2, <2>1 DEF Took
  <2> QED
    BY <2>2, <2>3 DEF SameHolder
<1>8. ASSUME Good(a.room), a.room.phase # "Lobby", c.room.phase # "Gone"
      PROVE  Recalls(c.room, a.room)
  <2>1. b.room.phase # "Gone" /\ b.room.phase = a.room.phase
    BY <1>8 DEF Took
  <2>2. Good(b.room)
    BY <1>8 DEF Took, Keeps, Good
  <2>3. Recalls(b.room, a.room) /\ Recalls(c.room, b.room)
    BY <1>8, <2>1, <2>2 DEF Took
  <2> QED
    BY <2>3, RecallsTwice
<1> QED
  BY <1>1, <1>2, <1>4, <1>5, <1>6, <1>7, <1>8 DEF Took

LEMMA TakeZombieFacts ==
    ASSUME NEW o, Typed(o.room), o.renumbered \in Renumberings, NEW s \in 1..4, NEW Z,
           NEW b, b = TakeZombie(o, s, Z)
    PROVE  Took(b, o, Z)
<1>1. CASE ~(s \in Z /\ IsSeat(o.room, s))
  BY <1>1, TookNothing DEF TakeZombie
<1>2. CASE s \in Z /\ IsSeat(o.room, s)
  <2>1. PICK r : r = o.room
    OBVIOUS
  <2>2. s \in 1..Len(r.players) /\ Typed(r)
    BY <1>2, <2>1 DEF IsSeat
  <2>3. PICK a : a = SeatDisconnect(r, s)
    OBVIOUS
  <2>4. /\ Keeps(a.room, r) /\ Departs(a, r, s) /\ StaysPut(a, r, s)
        /\ IsOutcome(a) /\ a.renumbered \in Renumberings
    BY <2>2, <2>3, SeatDisconnectFacts, SeatDisconnectOutcome, OutcomeType
  <2>5. b = [a EXCEPT !.renumbered = Extend(o.renumbered, @)]
    BY <1>2, <2>1, <2>3 DEF TakeZombie
  <2>6. b.room = a.room /\ b.renumbered = Extend(o.renumbered, a.renumbered)
    BY <2>4, <2>5 DEF IsOutcome
  <2>7. b.renumbered \in Renumberings
    BY <2>4, <2>6, ExtendType
  <2>8. \/ b.room.phase = r.phase
        \/ b.room.phase = "Gone" /\ Len(b.room.players) = 0
    BY <2>4, <2>6, GoneRoomFacts DEF Departs
  <2>9. ASSUME Len(b.room.players) = Len(r.players)
        PROVE  /\ DOMAIN o.renumbered = {} => DOMAIN b.renumbered = {}
               /\ \A i \in 1..Len(r.players) :
                     /\ b.room.players[i].token \in {r.players[i].token, None}
                     /\ i \notin Z => SameHolder(b.room.players[i], r.players[i])
    <3>1. /\ DOMAIN a.renumbered = {}
          /\ a.room.players[s].token \in {r.players[s].token, None}
          /\ \A i \in 1..Len(r.players) :
                i # s => SameHolder(a.room.players[i], r.players[i])
      BY <2>4, <2>6, <2>9 DEF StaysPut
    <3>2. DOMAIN b.renumbered = DOMAIN o.renumbered \cup DOMAIN a.renumbered
      BY <2>6 DEF Extend
    <3> QED
      BY <1>2, <2>6, <3>1, <3>2 DEF SameHolder
  <2>10. ASSUME Good(r), r.phase # "Lobby", b.room.phase # "Gone"
         PROVE  Recalls(b.room, r)
    BY <2>2, <2>3, <2>6, <2>10, SeatDisconnectRemembers
  <2>11. Len(b.room.players) <= Len(r.players)
    BY <2>4, <2>6 DEF StaysPut
  <2> QED
    BY <2>1, <2>4, <2>6, <2>7, <2>8, <2>9, <2>10, <2>11 DEF Took
<1> QED
  BY <1>1, <1>2

\* However many zombies there are among the seats.
LEMMA TakeZombiesFacts ==
    ASSUME NEW r, Typed(r), NEW live, NEW b, b = TakeZombies(r, live)
    PROVE  Took(b, Outcome(r), {s \in 1..Len(r.players) : Zombie(r, s, live)})
<1>1. PICK Z : Z = {s \in 1..Len(r.players) : Zombie(r, s, live)}
  OBVIOUS
<1>2. PICK o0 : o0 = Outcome(r)
  OBVIOUS
<1>3. o0.room = r /\ o0.renumbered \in Renumberings
  BY <1>2, NoRenumbering DEF Outcome
<1>4. PICK o1, o2, o3 : /\ o1 = TakeZombie(o0, 1, Z) /\ o2 = TakeZombie(o1, 2, Z)
                        /\ o3 = TakeZombie(o2, 3, Z)
  OBVIOUS
<1>5. b = TakeZombie(o3, 4, Z)
  BY <1>1, <1>2, <1>4 DEF TakeZombies
<1>6. Took(o1, o0, Z)
  BY <1>3, <1>4, TakeZombieFacts
<1>7. Took(o2, o1, Z)
  BY <1>4, <1>6, TookTypes, TakeZombieFacts
<1>8. Took(o3, o2, Z)
  BY <1>4, <1>7, TookTypes, TakeZombieFacts
<1>9. Took(b, o3, Z)
  BY <1>5, <1>8, TookTypes, TakeZombieFacts
<1>10. Took(o2, o0, Z)
  BY <1>3, <1>6, <1>7, TookTwice
<1>11. Took(o3, o0, Z)
  BY <1>3, <1>8, <1>10, TookTwice
<1>12. Took(b, o0, Z)
  BY <1>3, <1>9, <1>11, TookTwice
<1> QED
  BY <1>1, <1>2, <1>12

-----------------------------------------------------------------------------
(* The steps that module Pods adds to the lobby.                           *)

PodInv ==
    /\ RoomInv /\ SocketInv
    /\ up \subseteq Pod /\ alive \subseteq Pod
    /\ seen \in [Pod \cup Socket -> (SUBSET Pod) \cup {None}]

\* Every other step is one of the lobby, or none.
LEMMA PodsSteps ==
    ASSUME PodInv, [NextPods]_allVars
    PROVE  \/ [Next]_vars
           \/ \E p \in Pod : Crash(p) \/ ReapZombies(p)
           \/ \E c \in Socket, t \in Token : RejoinZombie(c, t)
<1>1. CASE UNCHANGED allVars
  BY <1>1 DEF allVars
<1>2. ASSUME NEW c \in Socket, Arrive(c)
      PROVE  [Next]_vars
  <2>1. CASE \E t \in Token : Rejoin(c, t)
    BY <2>1 DEF Next
  <2>2. CASE /\ issued # Token
             /\ \/ \E public \in Publicity : Create(c, NewToken, public)
                \/ Join(c, NewToken)
    <3>1. NewToken \in Token
      <4>1. \E t \in Token : t \notin issued
        BY <2>2 DEF PodInv, RoomInv
      <4> QED
        BY <4>1 DEF NewToken
    <3>2. Publicity \subseteq BOOLEAN
      BY PodsAssumption
    <3> HIDE DEF NewToken
    <3> QED
      BY <2>2, <3>1, <3>2 DEF Next
  <2> QED
    BY <1>2, <2>1, <2>2 DEF Arrive
<1>3. ASSUME NEW c \in Socket, Request(c)
      PROVE  [Next]_vars
  BY <1>3 DEF Request, Next
<1>4. ASSUME NEW p \in Pod, Heartbeat(p) \/ KeyExpires(p) \/ ReadForReap(p) \/ Reap(p)
      PROVE  [Next]_vars
  BY <1>4 DEF Heartbeat, KeyExpires, ReadForReap, ReadLive, Reap, Next
<1>5. ASSUME NEW c \in Socket, ReadForRejoin(c)
      PROVE  [Next]_vars
  BY <1>5 DEF ReadForRejoin, ReadLive
<1>6. CASE Background
  BY <1>6 DEF Background, Next
<1> QED
  BY <1>1, <1>2, <1>3, <1>4, <1>5, <1>6 DEF NextPods

LEMMA CrashFacts ==
    ASSUME SocketInv, NEW p \in Pod, Crash(p)
    PROVE  /\ room' = room /\ issued' = issued
           /\ SocketInv'
           /\ \A c \in Socket :
                 /\ tokenOf'[c] \in {tokenOf[c], None}
                 /\ session'[c] \in {session[c], None}
                 /\ \/ tokenOf'[c] = None
                    \/ events'[PodOf[c]] = events[PodOf[c]]
<1>1. <<>> \in Seq(Renumberings)
  OBVIOUS
<1>2. \A c \in Socket : PodOf[c] \in Pod
  BY PodOfAssumption
<1> QED
  BY <1>1, <1>2 DEF Crash, SocketInv, SeatOrNone

LEMMA ReapZombiesFacts ==
    ASSUME RoomInv, NEW p \in Pod, ReapZombies(p)
    PROVE  /\ Exists /\ seen[p] # None
           /\ issued' = issued /\ events' = events
           /\ tokenOf' = tokenOf /\ player_id' = player_id
           /\ \E b : /\ Commit(b, p) /\ room' = b.room
                     /\ Took(b, Outcome(room),
                             {s \in 1..Len(room.players) : Zombie(room, s, seen[p])})
<1>1. PICK b : b = TakeZombies(room, seen[p])
  OBVIOUS
<1>2. Commit(b, p) /\ room' = b.room
  BY <1>1 DEF ReapZombies, Commit
<1>3. Took(b, Outcome(room), {s \in 1..Len(room.players) : Zombie(room, s, seen[p])})
  BY <1>1, TakeZombiesFacts DEF RoomInv
<1> QED
  BY <1>2, <1>3 DEF ReapZombies

\* Seat s is given up and taken again for token t, by its old number: what the
\* outcome is, compared with the room before.
Reclaimed(b, r, s, t) ==
    /\ r.players[s].token = t
    /\ Typed(b.room) /\ TokensOf(b.room) \subseteq TokensOf(r)
    /\ b.renumbered \in Renumberings
    /\ b.room.phase = r.phase \/ b.room = GoneRoom
    /\ Len(b.room.players) <= Len(r.players)
    /\ Len(b.room.players) = Len(r.players)
       => /\ DOMAIN b.renumbered = {}
          /\ b.room.players[s].token = t /\ b.room.players[s].gone = None
          /\ \A i \in 1..Len(r.players) :
                i # s => SameHolder(b.room.players[i], r.players[i])
    /\ Sound(r) /\ (Len(b.room.players) = Len(r.players) \/ b.room = GoneRoom)
       => Sound(b.room)
    /\ Sound(r) /\ r.phase # "Lobby" /\ b.room # GoneRoom
       => \A i \in 1..Len(r.players) :
             Human(r, i) => r.players[i].token \in Remembered(b.room)

\* An entry that is not too old leads its token to a seat.
LEMMA FreshRemembered ==
    ASSUME NEW r, Typed(r), NEW e \in r.disconnected, e.age < RejoinTimeout
    PROVE  e.token \in Remembered(r)
<1>1. r \in Room
  BY DEF Typed, RoomType
<1>2. e \in CleanupExpired(r).disconnected
  BY <1>1 DEF CleanupExpired, Room
<1> QED
  BY <1>2 DEF Remembered

LEMMA RejoinZombieFacts ==
    ASSUME RoomInv, NEW c \in Socket, NEW t \in Token, RejoinZombie(c, t)
    PROVE  /\ Exists /\ Fresh(c)
           /\ issued' = issued /\ events' = events
           /\ tokenOf' = [tokenOf EXCEPT ![c] = t]
           /\ \E s \in 1..Len(room.players) : \E b :
                 /\ player_id' = [player_id EXCEPT ![c] = s]
                 /\ Commit(b, PodOf[c]) /\ room' = b.room
                 /\ Reclaimed(b, room, s, t)
<1>1. PICK current : current = CleanupExpired(room)
  OBVIOUS
<1>2. /\ Keeps(current, room) /\ current.players = room.players
      /\ current.phase = room.phase /\ current.public = room.public
  BY <1>1, CleanupKeeps DEF RoomInv
<1>3. PICK s \in 1..Len(room.players) :
         LET outcome == SeatDisconnect(current, s)
         IN  /\ Zombie(current, s, seen[c]) /\ current.players[s].token = t
             /\ IsSeat(outcome.room, s) \/ outcome.room.phase = "Gone"
             /\ Commit(IF outcome.room.phase = "Gone" THEN outcome
                       ELSE [outcome EXCEPT !.room = RestoreSeat(@, s, t, PodOf[c])],
                       PodOf[c])
             /\ tokenOf' = [tokenOf EXCEPT ![c] = t]
             /\ player_id' = [player_id EXCEPT ![c] = s]
  BY <1>1, Zenon DEF RejoinZombie
<1>4. PICK a : a = SeatDisconnect(current, s)
  OBVIOUS
<1>5. PICK b : b = IF a.room.phase = "Gone" THEN a
                   ELSE [a EXCEPT !.room = RestoreSeat(@, s, t, PodOf[c])]
  OBVIOUS
<1>6. /\ Commit(b, PodOf[c]) /\ room' = b.room
      /\ IsSeat(a.room, s) \/ a.room.phase = "Gone"
  BY <1>3, <1>4, <1>5 DEF Commit
<1>7. /\ Keeps(a.room, current) /\ Departs(a, current, s) /\ StaysPut(a, current, s)
      /\ IsOutcome(a) /\ a.renumbered \in Renumberings
  <2>1. Typed(current) /\ s \in 1..Len(current.players)
    BY <1>2 DEF Keeps
  <2> QED
    BY <1>4, <2>1, SeatDisconnectFacts, SeatDisconnectOutcome, OutcomeType
<1>8. /\ Exists /\ Fresh(c) /\ issued' = issued /\ events' = events
      /\ ~\E e \in current.disconnected : e.token = t
  BY <1>1 DEF RejoinZombie
<1>9. t # None /\ PodOf[c] \in Pod /\ t \in TokensOf(room)
  BY <1>2, <1>3, NoneAssumption, PodOfAssumption DEF TokensOf
<1>10. PICK n \in 0..4 : Len(room.players) = n
  BY RoomTypeFacts DEF RoomInv, Typed
<1>11. CASE a.room.phase = "Gone"
  <2>1. b = a /\ a.room = GoneRoom
    BY <1>2, <1>5, <1>7, <1>8, <1>11, GoneRoomFacts DEF Departs, Exists
  <2>2. Len(a.room.players) = 0 /\ 0 <= n /\ n # 0
    BY <1>10, <2>1, GoneRoomFacts
  <2>3. Keeps(a.room, room) /\ Good(a.room)
    BY <2>1, GoneRoomKeeps
  <2>4. room.players[s].token = t
    BY <1>2, <1>3
  <2>5. Reclaimed(b, room, s, t)
    BY <1>7, <1>10, <2>1, <2>2, <2>3, <2>4 DEF Keeps, Good, Reclaimed
  <2> QED
    BY <1>3, <1>6, <1>8, <2>5
<1>12. CASE a.room.phase # "Gone"
  <2>1. PICK q : q = RestoreSeat(a.room, s, t, PodOf[c])
    OBVIOUS
  <2>2. b.room = q /\ b.renumbered = a.renumbered
    BY <1>5, <1>7, <1>12, <2>1 DEF IsOutcome
  <2>3. PICK r : r = a.room
    OBVIOUS
  <2>4. s \in 1..Len(r.players) /\ Typed(r) /\ q = RestoreSeat(r, s, t, PodOf[c])
    BY <1>6, <1>7, <1>12, <2>1, <2>3 DEF IsSeat, Keeps
  <2>5. /\ Typed(q) /\ TokensOf(q) \subseteq TokensOf(r) \cup {t}
        /\ Len(q.players) = Len(r.players)
        /\ q.players[s].token = t /\ q.players[s].gone = None
        /\ \A i \in 1..Len(r.players) : i # s => q.players[i] = r.players[i]
        /\ q.disconnected = r.disconnected
        /\ q.phase = r.phase /\ q.public = r.public
    BY <1>9, <2>4, RestoreSeatFacts
  <2>6. TokensOf(r) \subseteq TokensOf(room)
    BY <1>2, <1>7, <2>3 DEF Keeps
  <2>7. r.phase = room.phase
    BY <1>2, <1>7, <1>12, <2>3, GoneRoomFacts DEF Departs
  <2>8. Len(r.players) <= Len(room.players)
    BY <1>2, <1>7, <2>3 DEF StaysPut
  <2>9. ASSUME Len(r.players) = Len(room.players)
        PROVE  /\ DOMAIN a.renumbered = {}
               /\ \A i \in 1..Len(room.players) :
                     i # s => SameHolder(r.players[i], room.players[i])
               /\ \A e \in r.disconnected :
                     e \in current.disconnected \/ (e.seat = s /\ e.token = t)
    BY <1>2, <1>3, <1>7, <2>3, <2>9 DEF StaysPut
  <2>10. ASSUME Sound(room), Len(r.players) = Len(room.players)
         PROVE  Sound(q)
    <3>1. Sound(r) /\ Sound(current)
      BY <1>2, <1>7, <2>3, <2>10 DEF Keeps
    <3>2. \A e \in r.disconnected :
             e.token = t \/ e.seat = s => e.token = t /\ e.seat = s
      <4>1. \A e \in current.disconnected : e.token # t /\ e.seat # s
        BY <1>3, <1>8, <1>9, <3>1 DEF Sound, LeadsHome
      <4> QED
        BY <2>9, <2>10, <4>1
    <3>3. \A i \in 1..Len(r.players) : r.players[i].token = t => i = s
      <4>1. ASSUME NEW i \in 1..Len(r.players), r.players[i].token = t, i # s
            PROVE  FALSE
        <5>1. i \in 1..Len(room.players) /\ room.players[i].token = t
          BY <2>9, <2>10, <4>1 DEF SameHolder
        <5>2. s \in 1..Len(room.players) /\ room.players[s].token = t
          BY <1>2, <1>3
        <5>3. Unmixed(room)
          BY <2>10 DEF Sound
        <5> QED
          BY <1>9, <4>1, <5>1, <5>2, <5>3, OneSeatOnly
      <4> QED
        BY <4>1
    <3>4. PodOf[c] \in Pod
      BY <1>9
    <3> QED
      BY <2>4, <3>1, <3>2, <3>3, <3>4, RestoreSeatSound
  <2>11. ASSUME Sound(room), room.phase # "Lobby", NEW i \in 1..Len(room.players),
                Human(room, i)
         PROVE  room.players[i].token \in Remembered(q)
    <3>1. Good(current) /\ s \in 1..Len(current.players)
      BY <1>2, <2>11 DEF Keeps, Good
    <3>2. Recalls(r, current)
      BY <1>2, <1>4, <1>12, <2>3, <2>11, <3>1, SeatDisconnectRemembers
    <3>3. \A e \in q.disconnected : e.age < RejoinTimeout
      <4>1. \A e \in current.disconnected : e.age < RejoinTimeout
        <5>1. room \in Room
          BY DEF RoomInv, Typed, RoomType
        <5> QED
          BY <1>1, <5>1 DEF CleanupExpired, Room
      <4> QED
        BY <2>5, <3>2, <4>1 DEF Recalls
    <3>4. {q.players[j].token : j \in 1..Len(q.players)} \subseteq Remembered(q)
      BY DEF Remembered
    <3>5. \A e \in q.disconnected : e.token \in Remembered(q)
      BY <2>5, <3>3, FreshRemembered
    <3>6. CASE i = s
      <4>1. room.players[i].token = q.players[s].token
        BY <1>2, <1>3, <2>5, <3>6
      <4> QED
        BY <2>4, <2>5, <3>4, <4>1
    <3>7. CASE i # s
      <4>1. Human(current, i) /\ current.players[i].token = room.players[i].token
        BY <1>2, <2>11 DEF Human, IsSeat
      <4>2. CASE Human(r, i) /\ r.players[i].token = room.players[i].token
        BY <2>5, <3>4, <3>7, <4>2 DEF Human, IsSeat
      <4>3. CASE \E e \in q.disconnected : e.token = room.players[i].token
        BY <3>5, <4>3
      <4> QED
        BY <1>2, <2>5, <3>2, <4>1, <4>2, <4>3 DEF Recalls
    <3> QED
      BY <3>6, <3>7
  <2>12. q # GoneRoom
    BY <1>12, <2>3, <2>5, GoneRoomFacts
  <2>13. room.players[s].token = t
    BY <1>2, <1>3
  <2>14. Reclaimed(b, room, s, t)
    BY <1>7, <1>9, <2>2, <2>5, <2>6, <2>7, <2>8, <2>9, <2>10, <2>11, <2>12, <2>13
    DEF SameHolder, Reclaimed
  <2> QED
    BY <1>3, <1>6, <1>8, <2>14
<1> QED
  BY <1>11, <1>12

-----------------------------------------------------------------------------
(* The invariant.                                                          *)

LEMMA CrashKept ==
    ASSUME RoomInv, SocketInv, NEW p \in Pod, Crash(p)
    PROVE  Kept
BY CrashFacts DEF Kept, RoomInv, Exists

\* A room that keeps its phase is a room, and one without seats has none.
LEMMA StillVacant ==
    ASSUME RoomInv, NEW q, Typed(q),
           q.phase = room.phase \/ Len(q.players) = 0, Exists
    PROVE  q.phase \in {"Lobby", "Started"} \/ q.players = <<>>
<1>1. q.players \in Seq(SeatRecord)
  BY RoomTypeFacts DEF Typed
<1>2. Len(q.players) = 0 => q.players = <<>>
  BY <1>1, EmptySeq
<1> QED
  BY <1>2 DEF Exists

LEMMA ReapZombiesKept ==
    ASSUME RoomInv, SocketInv, NEW p \in Pod, ReapZombies(p)
    PROVE  Kept /\ SocketInv'
<1>1. PICK b : /\ Commit(b, p) /\ room' = b.room
               /\ Took(b, Outcome(room),
                       {s \in 1..Len(room.players) : Zombie(room, s, seen[p])})
  BY ReapZombiesFacts
<1>2. Outcome(room).room = room
  BY DEF Outcome
<1>3. /\ Keeps(room', room) /\ b.renumbered \in Renumberings
      /\ room'.phase = room.phase \/ Len(room'.players) = 0
  BY <1>1, <1>2 DEF Took
<1>4. /\ Exists /\ issued' = issued /\ events' = events
      /\ tokenOf' = tokenOf /\ player_id' = player_id
  BY ReapZombiesFacts
<1>5. Kept
  BY <1>3, <1>4, StillVacant, RoomKept DEF Keeps
<1>6. session' \in [Socket -> SeatOrNone]
  BY <1>1, <1>3, CommitType DEF SocketInv
<1> QED
  BY <1>4, <1>5, <1>6 DEF SocketInv

LEMMA RejoinZombieKept ==
    ASSUME RoomInv, SocketInv, NEW c \in Socket, NEW t \in Token, RejoinZombie(c, t)
    PROVE  /\ RoomInv' /\ SocketInv'
           /\ Sound(room) => Sound(room') \/ ReclaimCompacts
<1>1. PICK s \in 1..Len(room.players) : \E b :
         /\ player_id' = [player_id EXCEPT ![c] = s]
         /\ Commit(b, PodOf[c]) /\ room' = b.room
         /\ Reclaimed(b, room, s, t)
  BY RejoinZombieFacts
<1>2. PICK b : /\ player_id' = [player_id EXCEPT ![c] = s]
               /\ Commit(b, PodOf[c]) /\ room' = b.room
               /\ Reclaimed(b, room, s, t)
  BY <1>1
<1>3. /\ Exists /\ Fresh(c) /\ issued' = issued /\ events' = events
      /\ tokenOf' = [tokenOf EXCEPT ![c] = t]
  BY RejoinZombieFacts
<1>4. /\ Typed(room') /\ TokensOf(room') \subseteq TokensOf(room)
      /\ room'.phase = room.phase \/ Len(room'.players) = 0
      /\ b.renumbered \in Renumberings
  BY <1>2, GoneRoomFacts DEF Reclaimed
<1>5. RoomInv'
  BY <1>3, <1>4, StillVacant DEF RoomInv, Exists
<1>6. SocketInv'
  <2>1. session' \in [Socket -> SeatOrNone]
    BY <1>2, <1>4, CommitType DEF SocketInv
  <2>2. s \in SeatOrNone /\ s # None /\ t # None
    <3>1. PICK n \in 0..4 : Len(room.players) = n
      BY RoomTypeFacts DEF RoomInv, Typed
    <3> QED
      BY <3>1, NoneAssumption DEF SeatOrNone, MaxSeats
  <2> QED
    BY <1>2, <1>3, <2>1, <2>2 DEF SocketInv
<1>7. ASSUME Sound(room), ~Sound(room')
      PROVE  ReclaimCompacts
  <2>1. Len(room'.players) < Len(room.players)
    <3>1. PICK n \in 0..4 : Len(room.players) = n
      BY RoomTypeFacts DEF RoomInv, Typed
    <3>2. PICK m \in 0..4 : Len(room'.players) = m
      BY <1>4, RoomTypeFacts DEF Typed
    <3>3. m # n /\ m <= n
      BY <1>2, <1>7, <3>1, <3>2 DEF Reclaimed
    <3> QED
      BY <3>1, <3>2, <3>3
  <2>2. tokenOf[c] = None /\ tokenOf'[c] # None
    BY <1>3, NoneAssumption DEF SocketInv, Fresh
  <2> QED
    BY <2>1, <2>2 DEF ReclaimCompacts
<1> QED
  BY <1>5, <1>6, <1>7

\* Processes and what they have read.
LEMMA PodTypes ==
    ASSUME up \subseteq Pod, alive \subseteq Pod,
           seen \in [Pod \cup Socket -> (SUBSET Pod) \cup {None}],
           [NextPods]_allVars
    PROVE  /\ up' \subseteq Pod /\ alive' \subseteq Pod
           /\ seen' \in [Pod \cup Socket -> (SUBSET Pod) \cup {None}]
<1> DEFINE Typed3 == /\ up' \subseteq Pod /\ alive' \subseteq Pod
                     /\ seen' \in [Pod \cup Socket -> (SUBSET Pod) \cup {None}]
<1> SUFFICES Typed3
  OBVIOUS
<1>1. CASE UNCHANGED podVars
  BY <1>1 DEF podVars
<1>2. ASSUME NEW x \in Pod \cup Socket, Forget(x), UNCHANGED <<up, alive>>
      PROVE  Typed3
  <2>1. seen' \in [Pod \cup Socket -> (SUBSET Pod) \cup {None}]
    <3>1. None \in (SUBSET Pod) \cup {None}
      OBVIOUS
    <3> QED
      BY <1>2, <3>1 DEF Forget
  <2> QED
    BY <1>2, <2>1
<1>3. ASSUME NEW x \in Pod \cup Socket, ReadLive(x)
      PROVE  Typed3
  <2>1. PICK live \in SUBSET alive : seen' = [seen EXCEPT ![x] = live]
    BY <1>3 DEF ReadLive
  <2> QED
    BY <1>3, <2>1 DEF ReadLive
<1>4. ASSUME NEW p \in Pod, Heartbeat(p) \/ KeyExpires(p) \/ Crash(p)
      PROVE  Typed3
  <2>1. CASE Heartbeat(p) \/ KeyExpires(p)
    BY <2>1 DEF Heartbeat, KeyExpires
  <2>2. CASE Crash(p)
    <3>1. up' \subseteq Pod /\ alive' \subseteq Pod
      BY <2>2 DEF Crash
    <3>2. seen' \in [Pod \cup Socket -> (SUBSET Pod) \cup {None}]
      <4>1. seen' = [x \in Pod \cup Socket |->
                       IF x = p \/ (x \in Socket /\ PodOf[x] = p) THEN None ELSE seen[x]]
        BY <2>2 DEF Crash
      <4>2. None \in (SUBSET Pod) \cup {None}
        OBVIOUS
      <4> QED
        BY <4>1, <4>2
    <3> QED
      BY <3>1, <3>2
  <2> QED
    BY <1>4, <2>1, <2>2
<1> HIDE DEF Typed3
<1>5. ASSUME NEW c \in Socket, Arrive(c) \/ Request(c) \/ ReadForRejoin(c)
             \/ \E t \in Token : RejoinZombie(c, t)
      PROVE  Typed3
  BY <1>1, <1>2, <1>3, <1>5 DEF Arrive, Request, ReadForRejoin, RejoinZombie
<1>6. ASSUME NEW p \in Pod, ReadForReap(p) \/ ReapZombies(p) \/ Reap(p)
      PROVE  Typed3
  BY <1>1, <1>2, <1>3, <1>6 DEF ReadForReap, ReapZombies, Reap
<1>7. CASE Background \/ UNCHANGED allVars
  BY <1>1, <1>7 DEF Background, allVars
<1> QED
  BY <1>4, <1>5, <1>6, <1>7 DEF NextPods

LEMMA PodInvNext == PodInv /\ [NextPods]_allVars => PodInv'
<1> SUFFICES ASSUME PodInv, [NextPods]_allVars PROVE PodInv'
  OBVIOUS
<1>1. RoomInv' /\ SocketInv'
  BY PodsSteps, RoomInvNext, SocketInvNext, CrashKept, CrashFacts, ReapZombiesKept,
     RejoinZombieKept DEF PodInv, Kept
<1> QED
  BY <1>1, PodTypes DEF PodInv

LEMMA PodInvHolds == SpecPods => []PodInv
<1>1. InitPods => PodInv
  <2> SUFFICES ASSUME InitPods PROVE PodInv
    OBVIOUS
  <2>1. RoomInv
    BY SeatInvInit DEF InitPods, SeatInv
  <2>2. SocketInv
    BY DEF InitPods, Init, SocketInv, SeatOrNone
  <2>3. seen \in [Pod \cup Socket -> (SUBSET Pod) \cup {None}]
    BY DEF InitPods
  <2> QED
    BY <2>1, <2>2, <2>3, PodsAssumption DEF InitPods, PodInv
<1> QED
  BY <1>1, PodInvNext, PTL DEF SpecPods

\* Every variable of the lobby and of the processes keeps its type, a room with
\* mixed seats included.
THEOREM PodsTypeCorrect == SpecPods => []PodsTypeOK
<1>1. PodInv => PodsTypeOK
  BY DEF PodInv, RoomInv, Typed, SocketInv, SeatOrNone, TypeOK, PodsTypeOK
<1> QED
  BY <1>1, PodInvHolds, PTL

\* Seats and entries stay in order through crashes, reapers and whoever comes
\* back: only a reclaim that compacts the lobby, and then writes its token to
\* the old number, mixes them up.
THEOREM OnlyReclaimsMixSeats == SpecPods => OnlyReclaimMixesSeats
<1>1. PodInv /\ [NextPods]_allVars
      => (Sound(room) => Sound(room') \/ ReclaimCompacts)
  BY PodsSteps, RoomInvNext, CrashKept, ReapZombiesKept, RejoinZombieKept
  DEF PodInv, Kept
<1> QED
  BY <1>1, PodInvHolds, PTL DEF SpecPods, OnlyReclaimMixesSeats

-----------------------------------------------------------------------------
(* Whom reapers and reclaims leave alone.                                  *)

\* A socket that leaves or drops has a human, who goes.
LEMMA GoersGo ==
    ASSUME SocketInv, NobodyGoes, NEW c \in Socket
    PROVE  ~Leave(c) /\ ~Drop(c)
<1>1. Leave(c) \/ Drop(c) => tokenOf[c] # None /\ tokenOf'[c] = None
  BY DEF Leave, Drop, MayGo, Seated, EndTask, SocketInv
<1> QED
  BY <1>1 DEF NobodyGoes

LEMMA InSeatFacts ==
    ASSUME NEW c \in Socket
    PROVE  /\ InSeat(c) <=> tokenOf[c] # None /\ tokenOf[c] \in PresentTokens(room)
           /\ InSeat(c)' <=> tokenOf'[c] # None /\ tokenOf'[c] \in PresentTokens(room')
BY DEF InSeat, PresentTokens

\* Without a socket that goes, the lobby's own steps leave everybody seated.
LEMMA LobbyLeavesSeats ==
    ASSUME RoomInv, SocketInv, Sound(room), [Next]_vars, NobodyGoes,
           room'.phase # "Gone", NEW c \in Socket, InSeat(c)
    PROVE  InSeat(c)'
<1>1. tokenOf[c] # None /\ tokenOf'[c] = tokenOf[c] /\ tokenOf[c] \in PresentTokens(room)
  BY InSeatFacts DEF NobodyGoes
<1>2. PresentTokens(room) \subseteq PresentTokens(room')
  BY <1>1, GoersGo, DepartureCases, NoneYet, GoneRoomFacts DEF Remains, SeatInv
<1> QED
  BY <1>1, <1>2, InSeatFacts

\* A reaper leaves the seats alone whose owner it has read to be alive, unless
\* numbers shift while it works.
LEMMA ReaperLeavesSeats ==
    ASSUME RoomInv, Unmixed(room), NEW p \in Pod, ReapZombies(p),
           Len(room'.players) = Len(room.players),
           NEW c \in Socket, Holds(c), TakenForAlive(c)
    PROVE  InSeat(c)'
<1>1. PICK b : /\ room' = b.room
               /\ Took(b, Outcome(room),
                       {s \in 1..Len(room.players) : Zombie(room, s, seen[p])})
  BY ReapZombiesFacts
<1>2. PICK Z : Z = {s \in 1..Len(room.players) : Zombie(room, s, seen[p])}
  OBVIOUS
<1>3. Outcome(room).room = room
  BY DEF Outcome
<1>4. \A i \in 1..Len(room.players) :
         i \notin Z => SameHolder(room'.players[i], room.players[i])
  BY <1>1, <1>2, <1>3 DEF Took
<1>5. PICK s \in 1..Len(room.players) : Present(room, s) /\ room.players[s].token = tokenOf[c]
  BY DEF Holds, InSeat
<1>6. PICK i \in 1..Len(room.players) :
         room.players[i].token = tokenOf[c] /\ room.players[i].owner = PodOf[c]
  BY DEF Holds
<1>7. s = i /\ tokenOf[c] # None
  BY <1>5, <1>6, OneSeatOnly DEF Holds, InSeat
<1>8. PodOf[c] \in seen[p]
  BY ReapZombiesFacts DEF TakenForAlive
<1>9. s \notin Z
  BY <1>2, <1>6, <1>7, <1>8 DEF Zombie
<1>10. tokenOf'[c] = tokenOf[c]
  BY ReapZombiesFacts
<1> QED
  BY <1>4, <1>5, <1>7, <1>9, <1>10 DEF InSeat, Present, Human, IsSeat, SameHolder

\* A reclaim gives the seat back to the same token, unless numbers shift.
LEMMA ReclaimLeavesSeats ==
    ASSUME RoomInv, NEW d \in Socket, NEW t \in Token, RejoinZombie(d, t), NobodyGoes,
           Len(room'.players) = Len(room.players),
           NEW c \in Socket, InSeat(c)
    PROVE  InSeat(c)'
<1>1. PICK s \in 1..Len(room.players) : \E b :
         room' = b.room /\ Reclaimed(b, room, s, t)
  BY RejoinZombieFacts
<1>2. /\ room.players[s].token = t
      /\ room'.players[s].token = t /\ room'.players[s].gone = None
      /\ \A i \in 1..Len(room.players) :
            i # s => SameHolder(room'.players[i], room.players[i])
  BY <1>1 DEF Reclaimed
<1>3. tokenOf[c] # None /\ tokenOf'[c] = tokenOf[c]
  BY DEF NobodyGoes, InSeat
<1>4. PICK i \in 1..Len(room.players) : Present(room, i) /\ room.players[i].token = tokenOf[c]
  BY DEF InSeat
<1>5. Present(room', i) /\ room'.players[i].token = tokenOf[c]
  BY <1>2, <1>4 DEF Present, Human, IsSeat, SameHolder
<1> QED
  BY <1>3, <1>4, <1>5 DEF InSeat

\* A pod that others take for alive loses no seat to a reaper or a reclaim that
\* does not compact the lobby: whatever else interleaves, both look at the owner
\* the seat has when they take it (reap_zombie_seats, rejoin_room).
THEOREM OnlyCompactionsTakeSeats == SpecPods => OnlyCompactionTakesSeats
<1>1. PodInv /\ [NextPods]_allVars
      => (/\ NobodyGoes /\ room'.phase # "Gone"
          /\ Len(room'.players) >= Len(room.players) /\ Sound(room)
          => \A c \in Socket : Holds(c) /\ TakenForAlive(c) => InSeat(c)')
  <2> SUFFICES ASSUME PodInv, [NextPods]_allVars,
                      NobodyGoes, room'.phase # "Gone",
                      Len(room'.players) >= Len(room.players), Sound(room),
                      NEW c \in Socket, Holds(c), TakenForAlive(c)
               PROVE  InSeat(c)'
    OBVIOUS
  <2>1. RoomInv /\ SocketInv /\ Unmixed(room) /\ InSeat(c)
    BY DEF PodInv, Sound, Holds
  <2>2. CASE [Next]_vars
    BY <2>1, <2>2, LobbyLeavesSeats
  <2>3. ASSUME NEW p \in Pod, Crash(p)
        PROVE  InSeat(c)'
    <3>1. room' = room /\ tokenOf'[c] = tokenOf[c]
      BY <2>1, <2>3, CrashFacts DEF NobodyGoes, InSeat
    <3> QED
      BY <2>1, <3>1, InSeatFacts
  <2>4. Len(room'.players) <= Len(room.players) => Len(room'.players) = Len(room.players)
    <3>1. Len(room.players) \in Nat
      BY <2>1, RoomTypeFacts DEF RoomInv, Typed
    <3>2. RoomInv'
      BY PodInvNext DEF PodInv
    <3>3. Len(room'.players) \in Nat
      BY <3>2, RoomTypeFacts DEF RoomInv, Typed
    <3> QED
      BY <3>1, <3>3
  <2>5. ASSUME NEW p \in Pod, ReapZombies(p)
        PROVE  InSeat(c)'
    <3>1. Len(room'.players) <= Len(room.players)
      <4>1. Outcome(room).room = room
        BY DEF Outcome
      <4> QED
        BY <2>1, <2>5, <4>1, ReapZombiesFacts DEF Took
    <3> QED
      BY <2>1, <2>4, <2>5, <3>1, ReaperLeavesSeats
  <2>6. ASSUME NEW d \in Socket, NEW t \in Token, RejoinZombie(d, t)
        PROVE  InSeat(c)'
    <3>1. Len(room'.players) <= Len(room.players)
      BY <2>1, <2>6, RejoinZombieFacts DEF Reclaimed
    <3> QED
      BY <2>1, <2>4, <2>6, <3>1, ReclaimLeavesSeats
  <2> QED
    BY <2>2, <2>3, <2>5, <2>6, PodsSteps
<1> QED
  BY <1>1, PodInvHolds, PTL DEF SpecPods, OnlyCompactionTakesSeats

-----------------------------------------------------------------------------
(* What a running game remembers.                                          *)

\* The lobby's own steps move no human of a running game without a trace.
LEMMA LobbyRemembers ==
    ASSUME RoomInv, SocketInv, Sound(room), [Next]_vars, NobodyGoes,
           room.phase = "Started", room'.phase = "Started",
           NEW s \in 1..Len(room.players), Human(room, s)
    PROVE  room.players[s].token \in Remembered(room')
<1>1. ASSUME Len(room'.players) = Len(room.players),
             room'.players[s].token = room.players[s].token
      PROVE  room.players[s].token \in Remembered(room')
  BY <1>1 DEF Remembered
<1>2. ASSUME room' = room
      PROVE  room.players[s].token \in Remembered(room')
  BY <1>1, <1>2
<1>3. ASSUME NEW c \in Socket, NEW t \in Token, Rejoin(c, t)
      PROVE  room.players[s].token \in Remembered(room')
  <2>1. PICK e \in room.disconnected :
           /\ e.token = t /\ e.seat \in 1..Len(room.players)
           /\ Len(room'.players) = Len(room.players)
           /\ room'.players[e.seat].token = t
           /\ \A i \in 1..Len(room.players) :
                 i # e.seat => room'.players[i] = room.players[i]
    BY <1>3, RejoinFacts
  <2>2. CASE s # e.seat
    BY <1>1, <2>1, <2>2
  <2>3. CASE s = e.seat
    BY <1>1, <2>1, <2>3 DEF Sound, LeadsHome, Human
  <2> QED
    BY <2>2, <2>3
<1>4. CASE \/ \E c \in Socket, ready \in BOOLEAN : Ready(c, ready)
           \/ CheckRoom \/ Tick
  BY <1>1, <1>4, InPlaceFacts
<1>5. CASE \/ \E c \in Socket : AddSession(c) \/ RemoveSession(c)
           \/ \E p \in Pod : Deliver(p)
           \/ UNCHANGED vars
  BY <1>2, <1>5 DEF AddSession, RemoveSession, Deliver, vars
<1>6. ASSUME \/ \E c \in Socket, t \in Token :
                   \/ \E public \in BOOLEAN : Create(c, t, public)
                   \/ Join(c, t)
             \/ \E c \in Socket : Start(c) \/ Leave(c) \/ Drop(c)
             \/ \E p \in Pod : ReapOrphan(p)
      PROVE  FALSE
  BY <1>6, GoersGo, ReapOrphanFacts, GoneRoomFacts DEF Create, Join, Start
<1> QED
  BY <1>3, <1>4, <1>5, <1>6 DEF Next

\* Every human of a running game keeps a seat or an entry that rejoin_room does
\* not drop, whoever is taken for dead in whatever order, but for one whose seat
\* has an expired entry of an earlier reclaim (apply_seat_disconnect,
\* reap_zombie_seats).
THEOREM ReapedCanAlwaysReturn == SpecPods => ReapedCanReturn
<1>1. PodInv /\ [NextPods]_allVars
      => (/\ room.phase = "Started" /\ room'.phase = "Started"
          /\ NobodyGoes /\ Sound(room)
          => \A s \in 1..Len(room.players) :
                Human(room, s) => \/ room.players[s].token \in Remembered(room')
                                  \/ LeftoverExpired(room, s))
  <2> SUFFICES ASSUME PodInv, [NextPods]_allVars,
                      room.phase = "Started", room'.phase = "Started",
                      NobodyGoes, Sound(room),
                      NEW s \in 1..Len(room.players), Human(room, s)
               PROVE  \/ room.players[s].token \in Remembered(room')
                      \/ LeftoverExpired(room, s)
    OBVIOUS
  <2>1. RoomInv /\ SocketInv /\ Typed(room) /\ Good(room)
    BY DEF PodInv, RoomInv, Good
  <2>2. CASE [Next]_vars
    BY <2>1, <2>2, LobbyRemembers
  <2>3. ASSUME NEW p \in Pod, Crash(p)
        PROVE  room.players[s].token \in Remembered(room')
    BY <2>1, <2>3, CrashFacts DEF Remembered
  <2>4. ASSUME NEW p \in Pod, ReapZombies(p)
        PROVE  \/ room.players[s].token \in Remembered(room')
               \/ LeftoverExpired(room, s)
    <3>1. Outcome(room).room = room
      BY DEF Outcome
    <3>2. Recalls(room', room) /\ Typed(room')
      BY <2>1, <2>4, <3>1, ReapZombiesFacts DEF Took, Keeps
    <3>3. CASE Human(room', s) /\ room'.players[s].token = room.players[s].token
      BY <3>3 DEF Remembered, Human, IsSeat
    <3>4. ASSUME NEW e \in room'.disconnected, e.token = room.players[s].token
          PROVE  \/ room.players[s].token \in Remembered(room')
                 \/ LeftoverExpired(room, s)
      <4>1. CASE e.age < RejoinTimeout
        BY <3>2, <3>4, <4>1, FreshRemembered
      <4>2. CASE ~(e.age < RejoinTimeout)
        <5>1. e \in room.disconnected
          BY <3>2, <4>2 DEF Recalls
        <5>2. e.age \in Nat
          <6>1. room \in Room
            BY <2>1 DEF Typed, RoomType
          <6> QED
            BY <5>1, <6>1, TimeoutAssumption DEF Room, Entry, Age
        <5>3. e.age >= RejoinTimeout
          BY <4>2, <5>2, TimeoutAssumption
        <5> QED
          BY <3>4, <5>1, <5>3 DEF LeftoverExpired
      <4> QED
        BY <4>1, <4>2
    <3> QED
      BY <3>2, <3>3, <3>4 DEF Recalls
  <2>5. ASSUME NEW d \in Socket, NEW t \in Token, RejoinZombie(d, t)
        PROVE  room.players[s].token \in Remembered(room')
    <3>1. room' # GoneRoom
      BY GoneRoomFacts
    <3> QED
      BY <2>1, <2>5, <3>1, RejoinZombieFacts DEF Reclaimed
  <2> QED
    BY <2>2, <2>3, <2>4, <2>5, PodsSteps
<1> QED
  BY <1>1, PodInvHolds, PTL DEF SpecPods, ReapedCanReturn

-----------------------------------------------------------------------------
(* The session maps of the processes that live.                            *)

LEMMA CrashKeepsUp ==
    ASSUME Unmixed(room), SocketInv, NEW p \in Pod, Crash(p)
    PROVE  KeptUp
<1>1. ASSUME NEW c \in Socket
      PROVE  KeepsUp(c)
  <2>1. CASE tokenOf'[c] = None
    BY <2>1 DEF KeepsUp, Sits
  <2>2. CASE tokenOf'[c] # None
    BY <2>2, CrashFacts, InPlaceKeepsUp DEF IsSeat
  <2> QED
    BY <2>1, <2>2
<1> QED
  BY <1>1 DEF KeptUp

LEMMA ReaperKeepsUp ==
    ASSUME RoomInv, Unmixed(room), SocketInv, NEW p \in Pod, ReapZombies(p)
    PROVE  KeptUp
<1>1. PICK b : /\ Commit(b, p) /\ room' = b.room
               /\ Took(b, Outcome(room),
                       {s \in 1..Len(room.players) : Zombie(room, s, seen[p])})
  BY ReapZombiesFacts
<1>2. events' = events /\ tokenOf' = tokenOf
  BY ReapZombiesFacts
<1>3. Outcome(room).room = room /\ DOMAIN Outcome(room).renumbered = {}
  BY DEF Outcome
<1>4. Len(room'.players) < Len(room.players) \/ Len(room'.players) = Len(room.players)
  <2>1. PICK n \in 0..4 : Len(room.players) = n
    BY RoomTypeFacts DEF RoomInv, Typed
  <2>2. PICK m \in 0..4 : Len(room'.players) = m
    BY <1>1, RoomTypeFacts DEF Took, Keeps, Typed
  <2>3. m <= n
    BY <1>1, <1>3, <2>1, <2>2 DEF Took
  <2> QED
    BY <2>1, <2>2, <2>3
<1>5. CASE Len(room'.players) < Len(room.players)
  BY <1>2, <1>5 DEF KeptUp, CompactsUntold
<1>6. CASE Len(room'.players) = Len(room.players)
  <2>1. /\ DOMAIN b.renumbered = {}
        /\ \A i \in 1..Len(room.players) :
              room'.players[i].token \in {room.players[i].token, None}
    BY <1>1, <1>3, <1>6 DEF Took
  <2>2. ASSUME NEW c \in Socket
        PROVE  KeepsUp(c)
    <3>1. session'[c] \in {session[c], None}
      BY <1>1, <2>1, RenumberNothing DEF Commit
    <3>2. Sits(c) => \A i \in 1..Len(room'.players) :
             room'.players[i].token = tokenOf[c]
             => IsSeat(room, i) /\ room.players[i].token = tokenOf[c]
      BY <1>6, <2>1 DEF Sits, IsSeat
    <3> QED
      BY <1>2, <3>1, <3>2, InPlaceKeepsUp
  <2> QED
    BY <2>2 DEF KeptUp
<1> QED
  BY <1>4, <1>5, <1>6

LEMMA ReclaimKeepsUp ==
    ASSUME RoomInv, Unmixed(room), SocketInv, NEW d \in Socket, NEW t \in Token,
           RejoinZombie(d, t)
    PROVE  KeptUp
<1>1. PICK s \in 1..Len(room.players) : \E b :
         Commit(b, PodOf[d]) /\ room' = b.room /\ Reclaimed(b, room, s, t)
  BY RejoinZombieFacts
<1>2. PICK b : Commit(b, PodOf[d]) /\ room' = b.room /\ Reclaimed(b, room, s, t)
  BY <1>1
<1>3. Fresh(d) /\ events' = events /\ tokenOf' = [tokenOf EXCEPT ![d] = t]
  BY RejoinZombieFacts
<1>4. Len(room'.players) < Len(room.players) \/ Len(room'.players) = Len(room.players)
  <2>1. PICK n \in 0..4 : Len(room.players) = n
    BY RoomTypeFacts DEF RoomInv, Typed
  <2>2. PICK m \in 0..4 : Len(room'.players) = m
    BY <1>2, RoomTypeFacts DEF Reclaimed, Typed
  <2>3. m <= n
    BY <1>2, <2>1, <2>2 DEF Reclaimed
  <2> QED
    BY <2>1, <2>2, <2>3
<1>5. CASE Len(room'.players) < Len(room.players)
  BY <1>3, <1>5 DEF KeptUp, CompactsUntold
<1>6. CASE Len(room'.players) = Len(room.players)
  <2>1. /\ DOMAIN b.renumbered = {}
        /\ \A i \in 1..Len(room.players) :
              room'.players[i].token = room.players[i].token
    BY <1>2, <1>6 DEF Reclaimed, SameHolder
  <2>2. ASSUME NEW c \in Socket
        PROVE  KeepsUp(c)
    <3>1. session'[c] \in {session[c], None}
      BY <1>2, <2>1, RenumberNothing DEF Commit
    <3>2. CASE c = d
      <4>1. session'[c] = None
        BY <1>3, <3>1, <3>2 DEF Fresh
      <4> QED
        BY <4>1 DEF KeepsUp, Sits
    <3>3. CASE c # d
      <4>1. tokenOf'[c] = tokenOf[c]
        BY <1>3, <3>3 DEF SocketInv
      <4> QED
        BY <1>3, <1>6, <2>1, <3>1, <4>1, InPlaceKeepsUp DEF IsSeat
    <3> QED
      BY <3>2, <3>3
  <2> QED
    BY <2>2 DEF KeptUp
<1> QED
  BY <1>4, <1>5, <1>6

\* Crashes, reapers and reclaims included, the session maps follow the seats,
\* but for the compactions that no pod is told of.
THEOREM SessionsKeepUpWithPods == SpecPods => SessionsKeepUp
<1>1. PodInv /\ [NextPods]_allVars
      => (Exists
          => \/ \A c \in Socket : Sits(c) /\ Agrees(c) /\ Sits(c)' => Agrees(c)'
             \/ CompactsUntold \/ CompactsAhead
             \/ ~Unmixed(room))
  <2> SUFFICES ASSUME PodInv, [NextPods]_allVars, Exists, Unmixed(room)
               PROVE  KeptUp
    BY DEF KeptUp, KeepsUp
  <2>1. RoomInv /\ SocketInv
    BY DEF PodInv
  <2> QED
    BY <2>1, PodsSteps, StepKeepsUp, CrashKeepsUp, ReaperKeepsUp, ReclaimKeepsUp
<1> QED
  BY <1>1, PodInvHolds, PTL DEF SpecPods, SessionsKeepUp
=============================================================================
