---------------------------- MODULE LobbyProofs -----------------------------
(***************************************************************************)
(* Theorems of module Lobby, whatever sockets, pods and tokens there are:  *)
(* entries lead home, no token is at two places, whoever goes takes nobody *)
(* along, and the sessions of every pod follow the seats.                  *)
(***************************************************************************)
EXTENDS SeatsProofs, FiniteSetTheorems

-----------------------------------------------------------------------------
(* The inductive invariant.  Compaction alone could lead an entry to the   *)
(* seat of another human, if two entries had one seat; and a human who     *)
(* joins could be given a token that an entry waits for, if the tokens of  *)
(* the room were not among the tokens issued.                              *)

\* What holds whether or not seats and entries are in order: module Pods has
\* a step that mixes them up.
RoomInv ==
    /\ Typed(room)
    /\ issued \subseteq Token
    /\ TokensOf(room) \subseteq issued
    /\ Exists \/ room.players = <<>>

SeatInv == RoomInv /\ Sound(room)

\* What a step of the lobby keeps.
Kept == RoomInv' /\ (Sound(room) => Sound(room'))

LEMMA SeatInvInit == Init => SeatInv
<1> SUFFICES ASSUME Init PROVE SeatInv
  OBVIOUS
<1>1. Typed(room) /\ Sound(room) /\ room.players = <<>> /\ issued = {}
  BY GoneRoomKeeps, GoneRoomFacts DEF Init, Good
<1>2. TokensOf(room) = {}
  <2>1. Len(<<>>) = 0 /\ 1..0 = {} /\ room.disconnected = {}
    BY DEF Init, NoRoom
  <2> QED
    BY <1>1, <2>1 DEF TokensOf
<1> QED
  BY <1>1, <1>2 DEF SeatInv, RoomInv

\* A step that issues no token.
LEMMA RoomKept ==
    ASSUME RoomInv, issued' = issued, Keeps(room', room),
           room'.phase \in {"Lobby", "Started"} \/ room'.players = <<>>
    PROVE  Kept
BY DEF RoomInv, Keeps, Kept, Exists

LEMMA CreateStep ==
    ASSUME RoomInv, NEW c \in Socket, NEW t \in Token, NEW public \in BOOLEAN,
           Create(c, t, public)
    PROVE  Kept
<1>1. PICK q : q = NewRoom(t, PodOf[c], public)
  OBVIOUS
<1>2. PodOf[c] \in Pod
  BY PodOfAssumption
<1>3. Good(q) /\ TokensOf(q) \subseteq {t} /\ q.phase = "Lobby"
  BY <1>1, <1>2, GoodNewRoom DEF NewRoom
<1>4. room' = q /\ issued' = {t}
  BY <1>1 DEF Create
<1> QED
  BY <1>3, <1>4 DEF RoomInv, Kept, Good, Exists

LEMMA JoinStep ==
    ASSUME RoomInv, NEW c \in Socket, NEW t \in Token, Join(c, t)
    PROVE  Kept
<1>1. PICK q : q = AddPlayer(room, t, PodOf[c])
  OBVIOUS
<1>2. PodOf[c] \in Pod /\ t \notin TokensOf(room) /\ Len(room.players) < MaxSeats
  BY PodOfAssumption DEF Join, RoomInv
<1>3. /\ Typed(q) /\ TokensOf(q) \subseteq TokensOf(room) \cup {t}
      /\ Sound(room) => Sound(q)
  BY <1>1, <1>2, AddPlayerKeeps DEF RoomInv
<1>4. room' = q /\ issued' = issued \cup {t}
  BY <1>1 DEF Join
<1>5. q.phase = "Lobby"
  BY <1>1 DEF Join, AddPlayer, RoomInv, Typed, RoomType, Room
<1> QED
  BY <1>3, <1>4, <1>5 DEF RoomInv, Kept, Exists

\* Who comes back by an entry, in terms of the room before.
LEMMA RejoinFacts ==
    ASSUME RoomInv, NEW c \in Socket, NEW t \in Token, Rejoin(c, t)
    PROVE  \E e \in room.disconnected :
              /\ Keeps(room', room) /\ TakeSeat(c, t, e.seat) /\ issued' = issued
              /\ e.token = t /\ e.seat \in 1..Len(room.players) /\ e.seat \in 1..4
              /\ Len(room'.players) = Len(room.players)
              /\ room'.players[e.seat].token = t /\ room'.players[e.seat].gone = None
              /\ room'.players[e.seat].creator = room.players[e.seat].creator
              /\ \A i \in 1..Len(room.players) :
                    i # e.seat => room'.players[i] = room.players[i]
              /\ room'.phase = room.phase /\ room'.public = room.public
<1>1. PICK current : current = CleanupExpired(room)
  OBVIOUS
<1>2. /\ Keeps(current, room) /\ current.players = room.players
      /\ current.disconnected \subseteq room.disconnected
      /\ current.phase = room.phase /\ current.public = room.public
  BY <1>1, CleanupKeeps DEF RoomInv
<1>3. PICK e \in current.disconnected :
         /\ e.token = t /\ TakeSeat(c, t, e.seat)
         /\ room' = RestoreSeat([current EXCEPT !.disconnected = @ \ {e}],
                                e.seat, t, PodOf[c])
  BY <1>1 DEF Rejoin
<1>4. PICK q : q = RestoreSeat([current EXCEPT !.disconnected = @ \ {e}],
                               e.seat, e.token, PodOf[c])
  OBVIOUS
<1>5. PodOf[c] \in Pod /\ Typed(current) /\ room' = q /\ issued' = issued
  BY <1>2, <1>3, <1>4, PodOfAssumption DEF Keeps, Rejoin
<1>6. BackBy(q, current, e)
  BY <1>4, <1>5, RejoinKeeps, Zenon
<1>7. Keeps(room', room)
  BY <1>2, <1>5, <1>6, KeepsTwice DEF BackBy
<1>8. /\ e.seat \in 1..Len(room.players) /\ e.seat \in 1..4
      /\ Len(q.players) = Len(room.players)
      /\ q.players[e.seat].token = t /\ q.players[e.seat].gone = None
      /\ q.players[e.seat].creator = room.players[e.seat].creator
      /\ \A i \in 1..Len(room.players) : i # e.seat => q.players[i] = room.players[i]
      /\ q.phase = room.phase /\ q.public = room.public
  BY <1>2, <1>3, <1>6 DEF BackBy
<1> QED
  BY <1>2, <1>3, <1>5, <1>7, <1>8

LEMMA RejoinStep ==
    ASSUME RoomInv, NEW c \in Socket, NEW t \in Token, Rejoin(c, t)
    PROVE  Kept
<1>1. Keeps(room', room) /\ issued' = issued /\ room'.phase = room.phase
  BY RejoinFacts
<1>2. room.phase \in {"Lobby", "Started"}
  BY DEF Rejoin, Exists
<1> QED
  BY <1>1, <1>2, RoomKept

\* The steps that move no seat: ready, check_room and the clock.
LEMMA InPlaceFacts ==
    ASSUME RoomInv,
           \/ \E c \in Socket, ready \in BOOLEAN : Ready(c, ready)
           \/ CheckRoom \/ Tick
    PROVE  /\ Keeps(room', room) /\ issued' = issued
           /\ room'.phase = room.phase /\ room'.public = room.public /\ Exists
           /\ Len(room'.players) = Len(room.players)
           /\ \A s \in 1..Len(room.players) :
                 /\ room'.players[s].token = room.players[s].token
                 /\ room'.players[s].gone = None <=> room.players[s].gone = None
                 /\ room'.players[s].creator = room.players[s].creator
<1>1. ASSUME NEW c \in Socket, NEW ready \in BOOLEAN, Ready(c, ready)
      PROVE  /\ Keeps(room', room) /\ room'.players = room.players
             /\ room'.phase = room.phase /\ room'.public = room.public
             /\ Exists /\ issued' = issued
  <2>1. PICK s \in 1..Len(room.players) : s = player_id[c]
    BY <1>1 DEF Ready, Human, IsSeat
  <2>2. PICK q : q = [room EXCEPT !.ready[s] = ready]
    OBVIOUS
  <2>3. /\ RoomType(q) /\ q.players = room.players /\ q.disconnected = room.disconnected
        /\ q.phase = room.phase /\ q.public = room.public
    BY <2>2, ReadySeat DEF RoomInv, Typed
  <2>4. SameSeats(q, room)
    BY <2>3 DEF SameSeats
  <2>5. Keeps(q, room)
    BY <2>3, <2>4, SameSeatsKeep DEF RoomInv
  <2>6. room' = q
    BY <1>1, <2>1, <2>2 DEF Ready
  <2> QED
    BY <1>1, <2>3, <2>5, <2>6 DEF Ready
<1>2. CASE \E c \in Socket, ready \in BOOLEAN : Ready(c, ready)
  BY <1>1, <1>2
<1>3. CASE CheckRoom
  BY <1>3, CleanupKeeps DEF CheckRoom, RoomInv
<1>4. CASE Tick
  BY <1>4, AgeRoomFacts DEF Tick, RoomInv
<1> QED
  BY <1>2, <1>3, <1>4

LEMMA StartFacts ==
    ASSUME RoomInv, NEW c \in Socket, Start(c)
    PROVE  /\ Keeps(room', room) /\ issued' = issued
           /\ PresentSeats(room) \subseteq PresentSeats(room')
           /\ room'.phase = "Started" /\ Exists /\ Len(room'.players) = 4
           /\ \A i \in 1..Len(room'.players) :
                 room'.players[i].token # None
                 => i \in 1..Len(room.players) /\ room'.players[i] = room.players[i]
<1>1. PICK q : q = FillWithBots(room)
  OBVIOUS
<1>2. room' = q /\ issued' = issued /\ Exists
  BY <1>1 DEF Start, Exists
<1>3. /\ Keeps(q, room) /\ PresentSeats(room) \subseteq PresentSeats(q)
      /\ q.phase = "Started" /\ Len(q.players) = 4
      /\ \A i \in 1..Len(q.players) :
            q.players[i].token # None
            => i \in 1..Len(room.players) /\ q.players[i] = room.players[i]
  BY <1>1, FillWithBotsKeeps, FillWithBotsPresent DEF RoomInv
<1> QED
  BY <1>2, <1>3

\* A socket goes, by either way: from a seat, or from a number that is no seat.
LEMMA LeaveFacts ==
    ASSUME RoomInv, NEW c \in Socket, Leave(c)
    PROVE  /\ issued' = issued /\ Exists
           /\ \/ room' = room /\ session' = session /\ events' = events
              \/ \E s \in 1..Len(room.players) : \E a :
                    /\ s = player_id[c] /\ a = RemovePlayer(room, s)
                    /\ Commit(a, PodOf[c]) /\ PublishSeatChanged(a.renumbered, PodOf[c])
                    /\ room' = a.room
                    /\ Keeps(room', room) /\ Departs(a, room, s)
                    /\ \/ TakesOut(a, room, s)
                       \/ /\ StaysPut(a, room, s)
                          /\ a = Outcome(GoneRoom) \/ Len(a.room.players) = Len(room.players)
<1>1. issued' = issued /\ Exists
  BY DEF Leave, EndTask
<1>2. CASE IsSeat(room, player_id[c])
  <2>1. PICK s \in 1..Len(room.players) : s = player_id[c]
    BY <1>2 DEF IsSeat
  <2>2. PICK a : a = RemovePlayer(room, s)
    OBVIOUS
  <2>3. /\ Keeps(a.room, room) /\ Departs(a, room, s)
        /\ \/ TakesOut(a, room, s)
           \/ /\ StaysPut(a, room, s)
              /\ a = Outcome(GoneRoom) \/ Len(a.room.players) = Len(room.players)
    BY <2>2, RemovePlayerFacts DEF RoomInv
  <2>4. Commit(a, PodOf[c]) /\ PublishSeatChanged(a.renumbered, PodOf[c]) /\ room' = a.room
    BY <1>2, <2>1, <2>2 DEF Leave, Commit
  <2> QED
    BY <1>1, <2>1, <2>2, <2>3, <2>4
<1>3. CASE ~IsSeat(room, player_id[c])
  BY <1>1, <1>3 DEF Leave
<1> QED
  BY <1>2, <1>3

LEMMA DropFacts ==
    ASSUME RoomInv, NEW c \in Socket, Drop(c)
    PROVE  /\ issued' = issued /\ Exists /\ events' = events
           /\ \/ room' = room /\ session' = session
              \/ \E s \in 1..Len(room.players) : \E a :
                    /\ s = player_id[c] /\ a = SeatDisconnect(room, s)
                    /\ Commit(a, PodOf[c]) /\ room' = a.room
                    /\ Keeps(room', room) /\ Departs(a, room, s) /\ StaysPut(a, room, s)
<1>1. issued' = issued /\ Exists /\ events' = events
  BY DEF Drop, EndTask
<1>2. CASE IsSeat(room, player_id[c])
  <2>1. PICK s \in 1..Len(room.players) : s = player_id[c]
    BY <1>2 DEF IsSeat
  <2>2. PICK a : a = SeatDisconnect(room, s)
    OBVIOUS
  <2>3. Keeps(a.room, room) /\ Departs(a, room, s) /\ StaysPut(a, room, s)
    BY <2>2, SeatDisconnectFacts DEF RoomInv
  <2>4. Commit(a, PodOf[c]) /\ room' = a.room
    BY <1>2, <2>1, <2>2 DEF Drop, Commit
  <2> QED
    BY <1>1, <2>1, <2>2, <2>3, <2>4
<1>3. CASE ~IsSeat(room, player_id[c])
  BY <1>1, <1>3 DEF Drop
<1> QED
  BY <1>2, <1>3

LEMMA ReapOrphanFacts ==
    ASSUME NEW p \in Pod, ReapOrphan(p)
    PROVE  /\ issued' = issued /\ events' = events /\ room' = GoneRoom
           /\ Commit(Outcome(GoneRoom), p) /\ ~HasConnectedHuman(room)
           /\ tokenOf' = tokenOf /\ player_id' = player_id /\ Exists
BY GoneRoomFacts DEF ReapOrphan, Commit, IsOrphaned

LEMMA GoingStep ==
    ASSUME RoomInv, NEW c \in Socket, Leave(c) \/ Drop(c)
    PROVE  Kept
<1>1. issued' = issued /\ room.phase \in {"Lobby", "Started"}
  BY LeaveFacts, DropFacts DEF Exists
<1>2. CASE room' = room
  BY <1>1, <1>2, RoomKept DEF RoomInv, Keeps
<1>3. CASE \E s, a : room' = a.room /\ Keeps(room', room) /\ Departs(a, room, s)
  BY <1>1, <1>3, RoomKept, GoneRoomFacts DEF Departs
<1> QED
  BY <1>2, <1>3, LeaveFacts, DropFacts

LEMMA RoomInvNext == RoomInv /\ [Next]_vars => Kept
<1> SUFFICES ASSUME RoomInv, [Next]_vars PROVE Kept
  OBVIOUS
<1>0. CASE room' = room /\ issued' = issued
  BY <1>0 DEF RoomInv, Kept, Exists
<1>1. ASSUME NEW c \in Socket, NEW t \in Token,
             \/ \E public \in BOOLEAN : Create(c, t, public)
             \/ Join(c, t) \/ Rejoin(c, t)
      PROVE  Kept
  BY <1>1, CreateStep, JoinStep, RejoinStep
<1>2. CASE \/ \E c \in Socket, ready \in BOOLEAN : Ready(c, ready)
           \/ CheckRoom \/ Tick
  BY <1>2, InPlaceFacts, RoomKept DEF Exists
<1>3. ASSUME NEW c \in Socket, Start(c)
      PROVE  Kept
  BY <1>3, StartFacts, RoomKept
<1>4. ASSUME NEW p \in Pod, ReapOrphan(p)
      PROVE  Kept
  BY <1>4, ReapOrphanFacts, GoneRoomKeeps, GoneRoomFacts, RoomKept
<1>5. CASE \/ \E c \in Socket : AddSession(c) \/ RemoveSession(c)
           \/ \E p \in Pod : Deliver(p)
           \/ UNCHANGED vars
  <2>1. room' = room /\ issued' = issued
    BY <1>5 DEF AddSession, RemoveSession, Deliver, vars
  <2> QED
    BY <1>0, <2>1
<1> QED
  BY <1>1, <1>2, <1>3, <1>4, <1>5, GoingStep DEF Next

LEMMA SeatsAreGood == Spec => []SeatInv
<1>1. SeatInv /\ [Next]_vars => SeatInv'
  BY RoomInvNext DEF SeatInv, Kept
<1> QED
  BY <1>1, SeatInvInit, PTL DEF Spec

-----------------------------------------------------------------------------
(* Who goes with a step.                                                   *)

\* Seat for seat, whoever was connected is, with the crown.
LEMMA SeatsRemain ==
    ASSUME NEW r, NEW q,
           \A i \in 1..Len(r.players) :
              Present(r, i) => /\ Present(q, i) /\ q.players[i].token = r.players[i].token
                               /\ r.players[i].creator => q.players[i].creator
    PROVE  PresentTokens(r) \subseteq PresentTokens(q) /\ (HasHost(r) => HasHost(q))
BY DEF PresentTokens, HasHost, Present, Human, IsSeat

\* Nobody goes, and the room stays.
Remains ==
    /\ PresentTokens(room) \subseteq PresentTokens(room')
    /\ HasHost(room) => HasHost(room')
    /\ room'.phase # "Gone" \/ room' = room

LEMMA JoinRemains ==
    ASSUME RoomInv, NEW c \in Socket, NEW t \in Token, Join(c, t)
    PROVE  /\ Remains
           /\ Len(room'.players) = Len(room.players) + 1
           /\ room'.players[Len(room.players) + 1].token = t
           /\ \A i \in 1..Len(room.players) : room'.players[i] = room.players[i]
<1>1. room.players \in Seq(SeatRecord) /\ room \in Room
  BY RoomTypeFacts DEF RoomInv, Typed, RoomType
<1>2. PICK seat \in SeatRecord : seat = NewSeat(t, FALSE, PodOf[c]) /\ seat.token = t
  <2>1. PodOf[c] \in Pod
    BY PodOfAssumption
  <2>2. NewSeat(t, FALSE, PodOf[c]) \in SeatRecord /\ NewSeat(t, FALSE, PodOf[c]).token = t
    BY <2>1 DEF NewSeat, SeatRecord
  <2> QED
    BY <2>2, Zenon
<1>3. room'.players = Append(room.players, seat) /\ room'.phase = "Lobby"
  BY <1>1, <1>2 DEF Join, AddPlayer, Room
<1>4. /\ Len(room'.players) = Len(room.players) + 1
      /\ room'.players[Len(room.players) + 1] = seat
      /\ \A i \in 1..Len(room.players) : room'.players[i] = room.players[i]
  BY <1>1, <1>3, AppendProperties
<1>5. \A i \in 1..Len(room.players) : i \in 1..Len(room'.players)
  <2>1. Len(room.players) \in Nat
    BY <1>1
  <2> QED
    BY <1>4, <2>1
<1>6. \A i \in 1..Len(room.players) : Present(room, i) => Present(room', i)
  BY <1>4, <1>5 DEF Present, Human, IsSeat
<1> QED
  BY <1>2, <1>3, <1>4, <1>6, SeatsRemain DEF Remains

LEMMA RejoinRemains ==
    ASSUME SeatInv, NEW c \in Socket, NEW t \in Token, Rejoin(c, t)
    PROVE  Remains
<1>1. PICK e \in room.disconnected :
         /\ e.token = t /\ e.seat \in 1..Len(room.players)
         /\ Len(room'.players) = Len(room.players)
         /\ room'.players[e.seat].token = t /\ room'.players[e.seat].gone = None
         /\ room'.players[e.seat].creator = room.players[e.seat].creator
         /\ \A i \in 1..Len(room.players) :
               i # e.seat => room'.players[i] = room.players[i]
         /\ room'.phase = room.phase
  BY RejoinFacts DEF SeatInv
<1>2. room.players[e.seat].token \in {t, None}
  BY <1>1 DEF SeatInv, Sound, LeadsHome
<1>3. \A i \in 1..Len(room.players) :
         Present(room, i)
         => /\ Present(room', i) /\ room'.players[i].token = room.players[i].token
            /\ room.players[i].creator => room'.players[i].creator
  BY <1>1, <1>2, NoneAssumption DEF Present, Human, IsSeat
<1>4. room'.phase # "Gone"
  BY <1>1 DEF Rejoin, Exists
<1> QED
  BY <1>3, <1>4, SeatsRemain DEF Remains

\* Every step is one of these: the room is made; nobody goes; the human of one
\* seat goes; or nobody is left.
LEMMA DepartureCases ==
    ASSUME SeatInv, [Next]_vars
    PROVE  \/ room.phase = "None"
           \/ Remains
           \/ /\ Exists /\ \E c \in Socket : Leave(c) \/ Drop(c)
              /\ \E s \in 1..Len(room.players) : \E a :
                    room' = a.room /\ Departs(a, room, s)
           \/ room' = GoneRoom /\ PresentTokens(room) = {}
<1> DEFINE Goal == \/ room.phase = "None"
                   \/ Remains
                   \/ /\ Exists /\ \E c \in Socket : Leave(c) \/ Drop(c)
                      /\ \E s \in 1..Len(room.players) : \E a :
                            room' = a.room /\ Departs(a, room, s)
                   \/ room' = GoneRoom /\ PresentTokens(room) = {}
<1> SUFFICES Goal
  OBVIOUS
<1>r. RoomInv
  BY DEF SeatInv
<1>0. CASE room' = room
  BY <1>0 DEF Remains
<1>1. ASSUME NEW c \in Socket, NEW t \in Token,
             \/ \E public \in BOOLEAN : Create(c, t, public)
             \/ Join(c, t) \/ Rejoin(c, t)
      PROVE  Goal
  BY <1>1, <1>r, JoinRemains, RejoinRemains DEF Create
<1>2. CASE \/ \E c \in Socket, ready \in BOOLEAN : Ready(c, ready)
           \/ CheckRoom \/ Tick
  <2>1. /\ room'.phase = room.phase /\ Exists
        /\ Len(room'.players) = Len(room.players)
        /\ \A s \in 1..Len(room.players) :
              /\ room'.players[s].token = room.players[s].token
              /\ room'.players[s].gone = None <=> room.players[s].gone = None
              /\ room'.players[s].creator = room.players[s].creator
    BY <1>2, <1>r, InPlaceFacts
  <2>2. \A s \in 1..Len(room.players) : Present(room, s) => Present(room', s)
    BY <2>1 DEF Present, Human, IsSeat
  <2> QED
    BY <2>1, <2>2, SeatsRemain DEF Remains, Exists
<1>3. ASSUME NEW c \in Socket, Start(c)
      PROVE  Goal
  <2>1. PresentSeats(room) \subseteq PresentSeats(room') /\ room'.phase = "Started"
    BY <1>3, <1>r, StartFacts
  <2> QED
    BY <2>1, PresentFacts DEF Remains
<1>4. ASSUME NEW p \in Pod, ReapOrphan(p)
      PROVE  Goal
  BY <1>4, ReapOrphanFacts, PresentFacts
<1>5. ASSUME NEW c \in Socket, Leave(c) \/ Drop(c)
      PROVE  Goal
  BY <1>0, <1>5, <1>r, LeaveFacts, DropFacts
<1>6. CASE \/ \E c \in Socket : AddSession(c) \/ RemoveSession(c)
           \/ \E p \in Pod : Deliver(p)
           \/ UNCHANGED vars
  <2>1. room' = room
    BY <1>6 DEF AddSession, RemoveSession, Deliver, vars
  <2> QED
    BY <1>0, <2>1
<1> HIDE DEF Goal
<1> QED
  BY <1>1, <1>2, <1>3, <1>4, <1>5, <1>6 DEF Next

LEMMA NoneYet ==
    ASSUME SeatInv, room.phase = "None"
    PROVE  PresentTokens(room) = {} /\ ~HasHost(room)
<1>1. room.players = <<>> /\ Len(<<>>) = 0 /\ 1..0 = {}
  BY DEF SeatInv, RoomInv, Exists
<1> QED
  BY <1>1 DEF PresentTokens, HasHost

LEMMA AtMostOne ==
    ASSUME NEW S, NEW t, S \subseteq {t}
    PROVE  Cardinality(S) <= 1
<1>1. CASE S = {}
  BY <1>1, FS_EmptySet
<1>2. CASE S = {t}
  <2>1. Cardinality({t}) = 1
    BY FS_Singleton
  <2> QED
    BY <1>2, <2>1
<1> QED
  BY <1>1, <1>2

\* Whoever goes with the crown of a lobby passes it on: transfer_crown_from
\* finds the heir before seats are compacted, and no later part of the step
\* takes the heir out.
THEOREM HostIsAlwaysKept == Spec => HostIsKept
<1>1. SeatInv /\ [Next]_vars
      => (room.phase = "Lobby" /\ HasHost(room)
          /\ room'.phase = "Lobby" /\ HasConnectedHuman(room')
          => HasHost(room'))
  <2> SUFFICES ASSUME SeatInv, [Next]_vars,
                      room.phase = "Lobby", HasHost(room),
                      room'.phase = "Lobby", HasConnectedHuman(room')
               PROVE  HasHost(room')
    OBVIOUS
  <2> QED
    BY DepartureCases, GoneRoomFacts DEF Remains, Departs, Goes
<1> QED
  BY <1>1, SeatsAreGood, PTL DEF Spec, HostIsKept

\* A step that removes no room disconnects at most one human, whatever it reaps
\* and moves (apply_seat_disconnect, remove_player).
THEOREM OthersAlwaysStay == Spec => OthersStay
<1>1. SeatInv /\ [Next]_vars
      => (room'.phase # "Gone"
          => \A t1, t2 \in PresentTokens(room) \ PresentTokens(room') : t1 = t2)
  <2> SUFFICES ASSUME SeatInv, [Next]_vars, room'.phase # "Gone",
                      NEW t1 \in PresentTokens(room) \ PresentTokens(room'),
                      NEW t2 \in PresentTokens(room) \ PresentTokens(room')
               PROVE  t1 = t2
    OBVIOUS
  <2> QED
    BY DepartureCases, NoneYet, GoneRoomFacts DEF Remains, Departs, Goes
<1> QED
  BY <1>1, SeatsAreGood, PTL DEF Spec, OthersStay

\* Of the rooms with more than one connected human only a public lobby is
\* removed: is_orphaned looks at the seats as the step leaves them.
THEOREM NeverRemovedInUse == Spec => NotRemovedInUse
<1>1. SeatInv /\ [Next]_vars
      => (Exists /\ room'.phase = "Gone"
          => \/ room.public /\ room.phase = "Lobby"
             \/ Cardinality(PresentTokens(room)) <= 1)
  <2> SUFFICES ASSUME SeatInv, [Next]_vars, Exists, room'.phase = "Gone",
                      ~(room.public /\ room.phase = "Lobby")
               PROVE  Cardinality(PresentTokens(room)) <= 1
    OBVIOUS
  <2>1. \E t : PresentTokens(room) \subseteq {t}
    BY DepartureCases DEF Exists, Remains, Departs, Dissolves
  <2> QED
    BY <2>1, AtMostOne
<1> QED
  BY <1>1, SeatsAreGood, PTL DEF Spec, NotRemovedInUse

-----------------------------------------------------------------------------
(* Renumberings, and the types of what sockets remember of them.           *)

LEMMA NoRenumbering == <<>> \in Renumberings
<1>1. <<>> \in [{} -> 1..MaxSeats]
  OBVIOUS
<1> QED
  BY <1>1 DEF Renumberings

LEMMA ExtendType ==
    ASSUME NEW f \in Renumberings, NEW g \in Renumberings
    PROVE  Extend(f, g) \in Renumberings
<1>1. PICK S \in SUBSET (1..MaxSeats) : f \in [S -> 1..MaxSeats]
  BY DEF Renumberings
<1>2. PICK U \in SUBSET (1..MaxSeats) : g \in [U -> 1..MaxSeats]
  BY DEF Renumberings
<1>3. Extend(f, g) \in [S \cup U -> 1..MaxSeats] /\ S \cup U \in SUBSET (1..MaxSeats)
  BY <1>1, <1>2 DEF Extend
<1> QED
  BY <1>3 DEF Renumberings

LEMMA SeatsBehindType ==
    ASSUME NEW r, Typed(r), NEW s \in 1..Len(r.players)
    PROVE  SeatsBehind(r, s) \in Renumberings
<1>1. PICK n \in 0..4 : Len(r.players) = n
  BY RoomTypeFacts DEF Typed
<1>2. /\ SeatsBehind(r, s) \in [(s + 1)..n -> 1..MaxSeats]
      /\ (s + 1)..n \in SUBSET (1..MaxSeats)
  BY <1>1 DEF SeatsBehind, MaxSeats
<1> QED
  BY <1>2 DEF Renumberings

LEMMA ReapStaleType ==
    ASSUME NEW r, Typed(r)
    PROVE  ReapStale(r).renumbered \in Renumberings
<1> DEFINE Fits(a) == Typed(a.room) /\ a.renumbered \in Renumberings
<1>1. ASSUME NEW a, Fits(a)
      PROVE  Fits(ReapOne(a))
  <2>1. Typed(ReapOne(a).room)
    BY <1>1, ReapOneFacts DEF ReapedFrom, Keeps
  <2>2. CASE \E s \in 1..Len(a.room.players) : Stale(a.room, s)
    <3>1. PICK low \in 1..Len(a.room.players) :
             ReapOne(a).renumbered = Extend(a.renumbered, SeatsBehind(a.room, low))
      BY <1>1, <2>2, LowestStale DEF ReapOne, Typed
    <3>2. SeatsBehind(a.room, low) \in Renumberings
      BY <1>1, SeatsBehindType
    <3> QED
      BY <1>1, <2>1, <3>1, <3>2, ExtendType
  <2>3. CASE ~\E s \in 1..Len(a.room.players) : Stale(a.room, s)
    BY <1>1, <2>3 DEF ReapOne
  <2> QED
    BY <2>2, <2>3
<1>2. PICK a : a = [room |-> r, renumbered |-> <<>>]
  OBVIOUS
<1>3. Fits(a)
  BY <1>2, NoRenumbering
<1>4. ReapStale(r) = ReapOne(ReapOne(ReapOne(ReapOne(a))))
  BY <1>2 DEF ReapStale
<1> HIDE DEF Fits
<1>5. Fits(ReapStale(r))
  BY <1>1, <1>3, <1>4
<1> QED
  BY <1>5 DEF Fits

LEMMA OutcomeType ==
    ASSUME NEW r, Typed(r), NEW s \in 1..Len(r.players)
    PROVE  /\ RemovePlayer(r, s).renumbered \in Renumberings
           /\ SeatDisconnect(r, s).renumbered \in Renumberings
<1>1. \A q : Outcome(q).renumbered \in Renumberings
  BY NoRenumbering DEF Outcome
<1>2. ASSUME NEW a, a.renumbered \in Renumberings
      PROVE  UnlessOrphaned(a).renumbered \in Renumberings
  BY <1>1, <1>2 DEF UnlessOrphaned
<1>3. RemovePlayer(r, s).renumbered \in Renumberings
  BY <1>1, <1>2, SeatsBehindType DEF RemovePlayer, Dissolves
<1>4. CASE Dissolves(r, s) \/ ~Human(r, s) \/ r.phase # "Lobby"
  BY <1>1, <1>2, <1>3, <1>4 DEF SeatDisconnect, Dissolves
<1>5. CASE ~Dissolves(r, s) /\ Human(r, s) /\ r.phase = "Lobby"
  <2>1. PICK passed : /\ passed = PassCrownOn(
                             Disconnect(AddDisconnected(r, s, r.players[s].token), s), s)
                      /\ Typed(passed)
    BY <1>5, PassedOnFacts DEF Keeps
  <2>2. PICK reaped : reaped = ReapStale(passed)
    OBVIOUS
  <2>3. reaped.renumbered \in Renumberings /\ IsOutcome(reaped)
    BY <2>1, <2>2, ReapStaleType, ReapStaleOutcome
  <2>4. PICK last : last = [reaped EXCEPT !.room = RecordHumanDisconnect(@)]
    OBVIOUS
  <2>5. last.renumbered = reaped.renumbered
    BY <2>3, <2>4 DEF IsOutcome
  <2>6. SeatDisconnect(r, s) = UnlessOrphaned(last)
    BY <1>5, <2>1, <2>2, <2>4 DEF SeatDisconnect
  <2> QED
    BY <1>2, <1>3, <2>3, <2>5, <2>6
<1> QED
  BY <1>3, <1>4, <1>5

SeatOrNone == 1..MaxSeats \cup {None}

LEMMA RenumberType ==
    ASSUME NEW seats \in [Socket -> SeatOrNone], NEW moved \in Renumberings, NEW p
    PROVE  Renumber(seats, p, moved) \in [Socket -> SeatOrNone]
<1>1. PICK S \in SUBSET (1..MaxSeats) : moved \in [S -> 1..MaxSeats]
  BY DEF Renumberings
<1> QED
  BY <1>1 DEF Renumber, Moved, SeatOrNone

LEMMA CommitType ==
    ASSUME session \in [Socket -> SeatOrNone], NEW a, a.renumbered \in Renumberings,
           NEW p, Commit(a, p)
    PROVE  session' \in [Socket -> SeatOrNone]
BY RenumberType DEF Commit, SeatOrNone

LEMMA PublishType ==
    ASSUME events \in [Pod -> Seq(Renumberings)], NEW moved \in Renumberings, NEW p,
           PublishSeatChanged(moved, p)
    PROVE  events' \in [Pod -> Seq(Renumberings)]
<1>1. \A q \in Pod : Append(events[q], moved) \in Seq(Renumberings)
  BY AppendProperties
<1> QED
  BY <1>1 DEF PublishSeatChanged

\* What sockets and pods remember; and a socket has a seat iff it has a human.
SocketInv ==
    /\ tokenOf \in [Socket -> Token \cup {None}]
    /\ player_id \in [Socket -> SeatOrNone]
    /\ session \in [Socket -> SeatOrNone]
    /\ events \in [Pod -> Seq(Renumberings)]
    /\ \A c \in Socket : player_id[c] = None <=> tokenOf[c] = None

LEMMA TakeSeatType ==
    ASSUME SocketInv, NEW c \in Socket, NEW t \in Token, NEW s \in 1..4, TakeSeat(c, t, s)
    PROVE  SocketInv'
<1>1. s \in SeatOrNone /\ s # None /\ t # None
  BY NoneAssumption DEF SeatOrNone, MaxSeats
<1> QED
  BY <1>1 DEF TakeSeat, SocketInv

\* Seats are taken by Create, Join and Rejoin.
LEMMA ComingType ==
    ASSUME RoomInv, SocketInv, NEW c \in Socket, NEW t \in Token,
           \/ \E public \in BOOLEAN : Create(c, t, public)
           \/ Join(c, t) \/ Rejoin(c, t)
    PROVE  SocketInv'
<1>1. CASE \E public \in BOOLEAN : Create(c, t, public)
  <2>1. TakeSeat(c, t, 1)
    BY <1>1 DEF Create
  <2> QED
    BY <2>1, TakeSeatType
<1>2. CASE Join(c, t)
  <2>1. PICK n \in 0..4 : Len(room.players) = n
    BY RoomTypeFacts DEF RoomInv, Typed
  <2>2. TakeSeat(c, t, n + 1) /\ n + 1 \in 1..4
    BY <1>2, <2>1 DEF Join, MaxSeats
  <2> QED
    BY <2>2, TakeSeatType
<1>3. CASE Rejoin(c, t)
  <2>1. PICK s \in 1..4 : TakeSeat(c, t, s)
    BY <1>3, RejoinFacts
  <2> QED
    BY <2>1, TakeSeatType
<1> QED
  BY <1>1, <1>2, <1>3

\* Seats are left by Leave and Drop.
LEMMA GoingType ==
    ASSUME RoomInv, SocketInv, NEW c \in Socket, Leave(c) \/ Drop(c)
    PROVE  SocketInv'
<1>1. /\ tokenOf' \in [Socket -> Token \cup {None}]
      /\ player_id' \in [Socket -> SeatOrNone]
      /\ \A d \in Socket : player_id'[d] = None <=> tokenOf'[d] = None
  BY DEF Leave, Drop, EndTask, SocketInv, SeatOrNone
<1>2. CASE IsSeat(room, player_id[c])
  <2>1. PICK s \in 1..Len(room.players) : s = player_id[c]
    BY <1>2 DEF IsSeat
  <2>2. /\ RemovePlayer(room, s).renumbered \in Renumberings
        /\ SeatDisconnect(room, s).renumbered \in Renumberings
    BY OutcomeType DEF RoomInv
  <2>3. CASE Leave(c)
    <3>1. PICK a : a = RemovePlayer(room, s)
      OBVIOUS
    <3>2. Commit(a, PodOf[c]) /\ PublishSeatChanged(a.renumbered, PodOf[c])
      BY <1>2, <2>1, <2>3, <3>1 DEF Leave
    <3> QED
      BY <1>1, <2>2, <3>1, <3>2, CommitType, PublishType DEF SocketInv
  <2>4. CASE Drop(c)
    <3>1. PICK a : a = SeatDisconnect(room, s)
      OBVIOUS
    <3>2. Commit(a, PodOf[c]) /\ events' = events
      BY <1>2, <2>1, <2>4, <3>1 DEF Drop
    <3> QED
      BY <1>1, <2>2, <3>1, <3>2, CommitType DEF SocketInv
  <2> QED
    BY <2>3, <2>4
<1>3. CASE ~IsSeat(room, player_id[c])
  BY <1>1, <1>3 DEF Leave, Drop, SocketInv
<1> QED
  BY <1>2, <1>3

\* The session maps follow on their own.
LEMMA SessionType ==
    ASSUME SocketInv,
           \/ \E c \in Socket : AddSession(c) \/ RemoveSession(c)
           \/ \E p \in Pod : Deliver(p) \/ ReapOrphan(p)
    PROVE  SocketInv'
<1>1. CASE \E c \in Socket : AddSession(c) \/ RemoveSession(c)
  BY <1>1 DEF AddSession, RemoveSession, SocketInv, SeatOrNone
<1>2. ASSUME NEW p \in Pod, Deliver(p)
      PROVE  SocketInv'
  <2>1. events[p] \in Seq(Renumberings) /\ events[p] # <<>>
    BY <1>2 DEF Deliver, SocketInv
  <2>2. Head(events[p]) \in Renumberings /\ Tail(events[p]) \in Seq(Renumberings)
    BY <2>1, HeadTailProperties
  <2>3. session' \in [Socket -> SeatOrNone]
    BY <1>2, <2>2, RenumberType DEF Deliver, SocketInv
  <2> QED
    BY <1>2, <2>2, <2>3 DEF Deliver, SocketInv
<1>3. ASSUME NEW p \in Pod, ReapOrphan(p)
      PROVE  SocketInv'
  <2>1. PICK a : a = Outcome(GoneRoom)
    OBVIOUS
  <2>2. a.renumbered \in Renumberings /\ Commit(a, p)
    BY <1>3, <2>1, NoRenumbering DEF ReapOrphan, Outcome
  <2>3. session' \in [Socket -> SeatOrNone]
    BY <2>2, CommitType DEF SocketInv
  <2> QED
    BY <1>3, <2>3 DEF ReapOrphan, SocketInv
<1> QED
  BY <1>1, <1>2, <1>3

LEMMA SocketInvNext == RoomInv /\ SocketInv /\ [Next]_vars => SocketInv'
<1> SUFFICES ASSUME RoomInv, SocketInv, [Next]_vars PROVE SocketInv'
  OBVIOUS
<1>1. ASSUME NEW c \in Socket, (\E ready \in BOOLEAN : Ready(c, ready)) \/ Start(c)
      PROVE  SocketInv'
  BY <1>1 DEF Ready, Start, SocketInv
<1>2. CASE CheckRoom \/ Tick \/ UNCHANGED vars
  BY <1>2 DEF CheckRoom, Tick, vars, SocketInv
<1> QED
  BY <1>1, <1>2, ComingType, GoingType, SessionType DEF Next

-----------------------------------------------------------------------------
(* Sessions follow the seats.                                              *)

\* A session at seat "from" is at seat "to" when what is coming has arrived.
LeadsTo(from, coming, to) ==
    \E path \in [0..Len(coming) -> 1..MaxSeats] :
       /\ path[0] = from
       /\ \A i \in 1..Len(coming) : path[i] = Moved(path[i - 1], coming[i])
       /\ path[Len(coming)] = to

LEMMA AgreesFacts ==
    ASSUME NEW c \in Socket
    PROVE  Agrees(c) <=> \E s \in 1..Len(room.players) :
                            /\ LeadsTo(session[c], events[PodOf[c]], s)
                            /\ room.players[s].token = tokenOf[c]
BY DEF Agrees, LeadsTo, IsSeat

LEMMA AgreesFactsNext ==
    ASSUME NEW c \in Socket
    PROVE  Agrees(c)' <=> \E s \in 1..Len(room'.players) :
                             /\ LeadsTo(session'[c], events'[PodOf[c]], s)
                             /\ room'.players[s].token = tokenOf'[c]
BY DEF Agrees, LeadsTo, IsSeat

\* Nothing is coming.
LEMMA LeadsNowhere ==
    ASSUME NEW k, NEW m
    PROVE  LeadsTo(k, <<>>, m) <=> k = m /\ k \in 1..MaxSeats
<1>1. Len(<<>>) = 0 /\ 1..0 = {} /\ 0..0 = {0}
  OBVIOUS
<1>2. LeadsTo(k, <<>>, m) => k = m /\ k \in 1..MaxSeats
  BY <1>1 DEF LeadsTo
<1>3. ASSUME k = m, k \in 1..MaxSeats
      PROVE  LeadsTo(k, <<>>, m)
  <2>1. [i \in {0} |-> k] \in [{0} -> 1..MaxSeats] /\ [i \in {0} |-> k][0] = k
    BY <1>3
  <2> QED
    BY <1>1, <1>3, <2>1 DEF LeadsTo
<1> QED
  BY <1>2, <1>3

\* A message more is sent.
LEMMA LeadsOn ==
    ASSUME NEW coming \in Seq(Renumberings), NEW moved \in Renumberings,
           NEW k, NEW m, LeadsTo(k, coming, m), Moved(m, moved) \in 1..MaxSeats
    PROVE  LeadsTo(k, Append(coming, moved), Moved(m, moved))
<1>1. PICK n \in Nat : Len(coming) = n
  OBVIOUS
<1>2. PICK longer : longer = Append(coming, moved)
  OBVIOUS
<1>3. /\ Len(longer) = n + 1 /\ longer[n + 1] = moved
      /\ \A i \in 1..n : longer[i] = coming[i]
  BY <1>1, <1>2, AppendProperties
<1>4. PICK path \in [0..n -> 1..MaxSeats] :
         /\ path[0] = k /\ path[n] = m
         /\ \A i \in 1..n : path[i] = Moved(path[i - 1], coming[i])
  BY <1>1 DEF LeadsTo
<1> DEFINE on == [i \in 0..(n + 1) |-> IF i = n + 1 THEN Moved(m, moved) ELSE path[i]]
<1>5. on \in [0..(n + 1) -> 1..MaxSeats]
  BY <1>4
<1>6. on[0] = k /\ on[n + 1] = Moved(m, moved) /\ on[n] = m
  BY <1>4
<1>7. ASSUME NEW i \in 1..(n + 1)
      PROVE  on[i] = Moved(on[i - 1], longer[i])
  <2>1. CASE i = n + 1
    BY <1>3, <1>6, <2>1
  <2>2. CASE i # n + 1
    <3>1. i \in 1..n /\ i \in 0..(n + 1) /\ i - 1 \in 0..(n + 1) /\ i - 1 # n + 1
      BY <2>2
    <3>2. on[i] = path[i] /\ on[i - 1] = path[i - 1]
      BY <2>2, <3>1
    <3> QED
      BY <1>3, <1>4, <3>1, <3>2
  <2> QED
    BY <2>1, <2>2
<1> HIDE DEF on
<1>8. LeadsTo(k, longer, Moved(m, moved))
  BY <1>3, <1>5, <1>6, <1>7 DEF LeadsTo
<1> QED
  BY <1>2, <1>8

\* The next message arrives.
LEMMA LeadsAfter ==
    ASSUME NEW coming \in Seq(Renumberings), coming # <<>>, NEW k, NEW m,
           LeadsTo(k, coming, m)
    PROVE  LeadsTo(Moved(k, Head(coming)), Tail(coming), m)
<1>1. PICK n \in Nat : Len(coming) = n + 1
  <2>1. Len(coming) \in Nat /\ Len(coming) # 0
    BY EmptySeq
  <2>2. Len(coming) - 1 \in Nat /\ Len(coming) = (Len(coming) - 1) + 1
    BY <2>1
  <2> QED
    BY <2>2
<1>2. PICK rest : rest = Tail(coming)
  OBVIOUS
<1>3. /\ Len(rest) = n /\ Head(coming) = coming[1]
      /\ \A i \in 1..n : rest[i] = coming[i + 1]
  <2>1. Len(rest) = Len(coming) - 1 /\ \A i \in 1..Len(rest) : rest[i] = coming[i + 1]
    BY <1>2, HeadTailProperties
  <2> QED
    BY <1>1, <2>1
<1>4. PICK path \in [0..(n + 1) -> 1..MaxSeats] :
         /\ path[0] = k /\ path[n + 1] = m
         /\ \A i \in 1..(n + 1) : path[i] = Moved(path[i - 1], coming[i])
  BY <1>1 DEF LeadsTo
<1> DEFINE on == [i \in 0..n |-> path[i + 1]]
<1>5. on \in [0..n -> 1..MaxSeats]
  BY <1>4
<1>6. on[0] = Moved(k, Head(coming)) /\ on[n] = m
  <2>1. 1 \in 1..(n + 1) /\ 1 - 1 = 0 /\ 0 \in 0..n /\ n \in 0..n
    OBVIOUS
  <2> QED
    BY <1>3, <1>4, <2>1
<1>7. ASSUME NEW i \in 1..n
      PROVE  on[i] = Moved(on[i - 1], rest[i])
  <2>1. /\ i + 1 \in 1..(n + 1) /\ (i + 1) - 1 = i /\ (i - 1) + 1 = i
        /\ i \in 0..n /\ i - 1 \in 0..n
    OBVIOUS
  <2>2. on[i] = path[i + 1] /\ on[i - 1] = path[i]
    BY <2>1
  <2>3. path[i + 1] = Moved(path[i], coming[i + 1])
    BY <1>4, <2>1
  <2> QED
    BY <1>3, <2>2, <2>3
<1> HIDE DEF on
<1>8. LeadsTo(Moved(k, Head(coming)), rest, m)
  BY <1>3, <1>5, <1>6, <1>7 DEF LeadsTo
<1> QED
  BY <1>2, <1>8

KeepsUp(c) == Sits(c) /\ Agrees(c) /\ Sits(c)' => Agrees(c)'

\* The seat of a human in a room without mixed tokens.
LEMMA OneSeatOnly ==
    ASSUME Unmixed(room), NEW t, t # None,
           NEW s1 \in 1..Len(room.players), NEW s2 \in 1..Len(room.players),
           room.players[s1].token = t, room.players[s2].token = t
    PROVE  s1 = s2
BY DEF Unmixed, Human, IsSeat

\* Nothing moves for a socket: its session stays, or goes, and nobody gets the
\* token of its human at another seat.
LEMMA InPlaceKeepsUp ==
    ASSUME Unmixed(room), NEW c \in Socket,
           session'[c] \in {session[c], None}, tokenOf'[c] \in {tokenOf[c], None},
           events'[PodOf[c]] = events[PodOf[c]],
           Sits(c) => \A i \in 1..Len(room'.players) :
                         room'.players[i].token = tokenOf[c]
                         => IsSeat(room, i) /\ room.players[i].token = tokenOf[c]
    PROVE  KeepsUp(c)
<1> SUFFICES ASSUME Sits(c), Agrees(c), Sits(c)' PROVE Agrees(c)'
  BY DEF KeepsUp
<1>1. /\ session'[c] = session[c] /\ tokenOf'[c] = tokenOf[c] /\ tokenOf[c] # None
      /\ \E i \in 1..Len(room'.players) : room'.players[i].token = tokenOf[c]
  BY DEF Sits
<1>2. PICK i \in 1..Len(room'.players) : room'.players[i].token = tokenOf[c]
  BY <1>1
<1>3. i \in 1..Len(room.players) /\ room.players[i].token = tokenOf[c]
  BY <1>2 DEF IsSeat
<1>4. PICK s \in 1..Len(room.players) : /\ LeadsTo(session[c], events[PodOf[c]], s)
                                        /\ room.players[s].token = tokenOf[c]
  BY AgreesFacts
<1>5. s = i
  BY <1>1, <1>3, <1>4, OneSeatOnly
<1> QED
  BY <1>1, <1>2, <1>4, <1>5, AgreesFactsNext

LEMMA RenumberNothing ==
    ASSUME SocketInv, NEW p, NEW moved, DOMAIN moved = {}
    PROVE  Renumber(session, p, moved) = session
BY DEF Renumber, Moved, SocketInv

LEMMA PublishNothing ==
    ASSUME SocketInv, NEW p, NEW moved, DOMAIN moved = {}, PublishSeatChanged(moved, p)
    PROVE  events' = events
BY DEF PublishSeatChanged, SocketInv

\* A step at one seat that takes no seat out: each session stays or goes.
LEMMA StayedKeepsUp ==
    ASSUME RoomInv, SocketInv, Unmixed(room), NEW s \in 1..Len(room.players), NEW a,
           StaysPut(a, room, s),
           a = Outcome(GoneRoom) \/ Len(a.room.players) = Len(room.players),
           NEW p, Commit(a, p), events' = events,
           NEW c \in Socket, tokenOf'[c] \in {tokenOf[c], None}
    PROVE  KeepsUp(c)
<1>1. DOMAIN <<>> = {}
  OBVIOUS
<1>2. DOMAIN a.renumbered = {} /\ room' = a.room
  BY <1>1, GoneRoomFacts DEF StaysPut, Commit
<1>3. session'[c] \in {session[c], None}
  BY <1>2, RenumberNothing DEF Commit
<1>4. Sits(c) => \A i \in 1..Len(room'.players) :
         room'.players[i].token = tokenOf[c]
         => IsSeat(room, i) /\ room.players[i].token = tokenOf[c]
  <2>1. CASE a = Outcome(GoneRoom)
    BY <1>2, <2>1, GoneRoomFacts
  <2>2. CASE Len(a.room.players) = Len(room.players)
    BY <1>2, <2>2 DEF StaysPut, Sits, SameHolder, IsSeat
  <2> QED
    BY <2>1, <2>2
<1> QED
  BY <1>3, <1>4, InPlaceKeepsUp

\* Seat k behind or before the seat that is taken out, and its number after it.
LEMMA MovesHome ==
    ASSUME NEW r, Typed(r), NEW s \in 1..Len(r.players),
           NEW j \in 1..(Len(r.players) - 1)
    PROVE  Moved(OldSeat(j, s), SeatsBehind(r, s)) = j /\ j \in 1..MaxSeats
<1>1. PICK n \in 0..4 : Len(r.players) = n
  BY RoomTypeFacts DEF Typed
<1>2. CASE j < s
  <2>1. OldSeat(j, s) = j /\ j \notin (s + 1)..n /\ j \in 1..4
    BY <1>1, <1>2 DEF OldSeat
  <2> QED
    BY <1>1, <2>1 DEF Moved, SeatsBehind, MaxSeats
<1>3. CASE ~(j < s)
  <2>1. OldSeat(j, s) = j + 1 /\ j + 1 \in (s + 1)..n /\ j \in 1..4 /\ (j + 1) - 1 = j
    BY <1>1, <1>3 DEF OldSeat
  <2> QED
    BY <1>1, <2>1 DEF Moved, SeatsBehind, MaxSeats
<1> QED
  BY <1>2, <1>3

\* A human leaves the lobby.  The sessions of its pod are renumbered at once if
\* nothing is coming, those of another when the message arrives.
LEMMA TakenOutKeepsUp ==
    ASSUME RoomInv, SocketInv, Unmixed(room), NEW s \in 1..Len(room.players), NEW a,
           TakesOut(a, room, s), a.room.phase # "Gone", NEW p \in Pod, Commit(a, p),
           PublishSeatChanged(a.renumbered, p), DOMAIN a.renumbered # {},
           events[p] = <<>>,
           NEW c \in Socket, tokenOf'[c] \in {tokenOf[c], None}
    PROVE  KeepsUp(c)
<1> SUFFICES ASSUME Sits(c), Agrees(c), Sits(c)' PROVE Agrees(c)'
  BY DEF KeepsUp
<1>1. /\ tokenOf'[c] = tokenOf[c] /\ tokenOf[c] # None
      /\ \E j \in 1..Len(room'.players) : room'.players[j].token = tokenOf[c]
  BY DEF Sits
<1>2. room' = a.room
  BY DEF Commit
<1>3. PICK j \in 1..Len(a.room.players) : a.room.players[j].token = tokenOf[c]
  BY <1>1, <1>2
<1>4. PICK k \in 1..Len(room.players) : /\ LeadsTo(session[c], events[PodOf[c]], k)
                                        /\ room.players[k].token = tokenOf[c]
  BY AgreesFacts
<1>5. /\ OldSeat(j, s) \in 1..Len(room.players)
      /\ room.players[OldSeat(j, s)].token = tokenOf[c]
  BY <1>3 DEF TakesOut
<1>6. OldSeat(j, s) = k
  BY <1>1, <1>4, <1>5, OneSeatOnly
<1>7. PICK moved : moved = a.renumbered
  OBVIOUS
<1>8. moved \in Renumberings /\ Moved(k, moved) = j /\ j \in 1..MaxSeats
  <2>1. moved = SeatsBehind(room, s) /\ j \in 1..(Len(room.players) - 1) /\ Typed(room)
    BY <1>3, <1>7 DEF TakesOut, RoomInv
  <2> QED
    BY <1>6, <2>1, MovesHome, SeatsBehindType
<1>9. LeadsTo(session'[c], events'[PodOf[c]], j)
  <2>1. session' = Renumber(session, p, moved)
    BY <1>7 DEF Commit
  <2>2. PodOf[c] \in Pod
    BY PodOfAssumption
  <2>3. CASE PodOf[c] = p
    <3>1. session'[c] = Moved(session[c], moved)
      BY <2>1, <2>3 DEF Renumber
    <3>2. events'[p] = events[p]
      BY DEF PublishSeatChanged
    <3>3. session[c] = k
      BY <1>4, <2>3, LeadsNowhere
    <3> QED
      BY <1>8, <2>3, <3>1, <3>2, <3>3, LeadsNowhere
  <2>4. CASE PodOf[c] # p
    <3>1. session'[c] = session[c]
      BY <2>1, <2>4 DEF Renumber
    <3>2. events'[PodOf[c]] = Append(events[PodOf[c]], moved)
      BY <1>7, <2>2, <2>4 DEF PublishSeatChanged
    <3>3. events[PodOf[c]] \in Seq(Renumberings)
      BY <2>2 DEF SocketInv
    <3>4. LeadsTo(session[c], Append(events[PodOf[c]], moved), Moved(k, moved))
      BY <1>4, <1>8, <3>3, LeadsOn
    <3> QED
      BY <1>8, <3>1, <3>2, <3>4
  <2> QED
    BY <2>3, <2>4
<1> QED
  BY <1>1, <1>2, <1>3, <1>9, AgreesFactsNext

\* A message arrives.
LEMMA DeliverKeepsUp ==
    ASSUME SocketInv, Unmixed(room), NEW p \in Pod, Deliver(p), NEW c \in Socket
    PROVE  KeepsUp(c)
<1>1. room' = room /\ tokenOf' = tokenOf
  BY DEF Deliver
<1>2. CASE PodOf[c] = p
  <2> SUFFICES ASSUME Agrees(c) PROVE Agrees(c)'
    BY DEF KeepsUp
  <2>1. PICK k \in 1..Len(room.players) : /\ LeadsTo(session[c], events[p], k)
                                          /\ room.players[k].token = tokenOf[c]
    BY <1>2, AgreesFacts
  <2>2. /\ session'[c] = Moved(session[c], Head(events[p]))
        /\ events'[p] = Tail(events[p])
        /\ events[p] # <<>> /\ events[p] \in Seq(Renumberings)
    BY <1>2 DEF Deliver, Renumber, SocketInv
  <2>3. LeadsTo(session'[c], events'[p], k)
    BY <2>1, <2>2, LeadsAfter
  <2> QED
    BY <1>1, <1>2, <2>1, <2>3, AgreesFactsNext
<1>3. CASE PodOf[c] # p
  <2>1. session'[c] = session[c] /\ events'[PodOf[c]] = events[PodOf[c]]
    BY <1>3, PodOfAssumption DEF Deliver, Renumber, SocketInv
  <2> QED
    BY <1>1, <2>1, InPlaceKeepsUp DEF IsSeat
<1> QED
  BY <1>2, <1>3

\* A socket takes a seat: the others know their seats by other tokens, and it
\* has no session yet.
LEMMA ComingKeepsUp ==
    ASSUME RoomInv, Unmixed(room), SocketInv, Exists, NEW d \in Socket, NEW t \in Token,
           \/ \E public \in BOOLEAN : Create(d, t, public)
           \/ Join(d, t) \/ Rejoin(d, t),
           NEW c \in Socket
    PROVE  KeepsUp(c)
<1>0. /\ session' = session /\ events' = events /\ session[d] = None
      /\ c # d => tokenOf'[c] = tokenOf[c]
      /\ Join(d, t) \/ Rejoin(d, t)
  BY DEF Create, Join, Rejoin, Exists, Fresh, TakeSeat, SocketInv
<1>1. CASE c = d
  BY <1>0, <1>1 DEF KeepsUp, Sits
<1>2. ASSUME Sits(c)
      PROVE  /\ tokenOf[c] \in issued
             /\ \E s \in 1..Len(room.players) : room.players[s].token = tokenOf[c]
  <2>1. PICK s \in 1..Len(room.players) : room.players[s].token = tokenOf[c]
    BY <1>2 DEF Sits
  <2>2. tokenOf[c] \in Token
    BY <1>2 DEF Sits, SocketInv
  <2> QED
    BY <2>1, <2>2 DEF RoomInv, TokensOf
<1>3. CASE c # d /\ Join(d, t)
  <2>1. /\ Len(room'.players) = Len(room.players) + 1
        /\ room'.players[Len(room.players) + 1].token = t
        /\ \A i \in 1..Len(room.players) : room'.players[i] = room.players[i]
        /\ t \notin issued
    BY <1>3, JoinRemains DEF Join
  <2>2. PICK n \in 0..4 : Len(room.players) = n
    BY RoomTypeFacts DEF RoomInv, Typed
  <2>3. \A i \in 1..(n + 1) : i \in 1..n \/ i = n + 1
    OBVIOUS
  <2>4. Sits(c) => \A i \in 1..Len(room'.players) :
           room'.players[i].token = tokenOf[c]
           => IsSeat(room, i) /\ room.players[i].token = tokenOf[c]
    BY <1>2, <2>1, <2>2, <2>3 DEF IsSeat
  <2> QED
    BY <1>0, <1>3, <2>4, InPlaceKeepsUp
<1>4. CASE c # d /\ Rejoin(d, t)
  <2>1. PICK e \in room.disconnected :
           /\ e.token = t /\ e.seat \in 1..Len(room.players)
           /\ Len(room'.players) = Len(room.players)
           /\ room'.players[e.seat].token = t
           /\ \A i \in 1..Len(room.players) :
                 i # e.seat => room'.players[i] = room.players[i]
    BY <1>4, RejoinFacts
  <2>2. Sits(c) /\ tokenOf[c] = t => room.players[e.seat].token = t
    BY <1>2, <2>1 DEF Unmixed
  <2>3. Sits(c) => \A i \in 1..Len(room'.players) :
           room'.players[i].token = tokenOf[c]
           => IsSeat(room, i) /\ room.players[i].token = tokenOf[c]
    BY <2>1, <2>2 DEF IsSeat
  <2> QED
    BY <1>0, <1>4, <2>3, InPlaceKeepsUp
<1> QED
  BY <1>0, <1>1, <1>3, <1>4

\* The steps that move no seat and leave tokens and messages alone.
LEMMA QuietKeepsUp ==
    ASSUME RoomInv, Unmixed(room), SocketInv,
           \/ \E d \in Socket : AddSession(d) \/ RemoveSession(d) \/ Start(d)
           \/ \E d \in Socket, ready \in BOOLEAN : Ready(d, ready)
           \/ CheckRoom \/ Tick \/ UNCHANGED vars,
           NEW c \in Socket
    PROVE  KeepsUp(c)
<1>1. tokenOf' = tokenOf /\ events' = events
  BY DEF AddSession, RemoveSession, Start, Ready, CheckRoom, Tick, vars
<1>2. CASE \E d \in Socket : AddSession(d) \/ RemoveSession(d)
  <2>1. room' = room /\ (session[c] = None \/ session'[c] \in {session[c], None})
    BY <1>2 DEF AddSession, RemoveSession, SocketInv
  <2>2. CASE session[c] = None
    BY <2>2 DEF KeepsUp, Sits
  <2> QED
    BY <1>1, <2>1, <2>2, InPlaceKeepsUp DEF IsSeat
<1>3. CASE \E d \in Socket : Start(d)
  <2>1. /\ session' = session
        /\ \A i \in 1..Len(room'.players) :
              room'.players[i].token # None
              => i \in 1..Len(room.players) /\ room'.players[i] = room.players[i]
    BY <1>3, StartFacts DEF Start
  <2> QED
    BY <1>1, <2>1, InPlaceKeepsUp DEF IsSeat, Sits
<1>4. CASE \/ \E d \in Socket, ready \in BOOLEAN : Ready(d, ready)
           \/ CheckRoom \/ Tick
  <2>1. /\ session' = session
        /\ Len(room'.players) = Len(room.players)
        /\ \A s \in 1..Len(room.players) : room'.players[s].token = room.players[s].token
    BY <1>4, InPlaceFacts DEF Ready, CheckRoom, Tick
  <2> QED
    BY <1>1, <2>1, InPlaceKeepsUp DEF IsSeat
<1>5. CASE UNCHANGED vars
  BY <1>5 DEF vars, KeepsUp, Sits, Agrees, IsSeat
<1> QED
  BY <1>2, <1>3, <1>4, <1>5

\* A step after which every session keeps up, or one of the two exceptions.
KeptUp == (\A c \in Socket : KeepsUp(c)) \/ CompactsUntold \/ CompactsAhead

LEMMA GoingKeepsUp ==
    ASSUME RoomInv, Unmixed(room), SocketInv, NEW d \in Socket, Leave(d) \/ Drop(d)
    PROVE  KeptUp
<1>1. \A c \in Socket : tokenOf'[c] \in {tokenOf[c], None}
  BY DEF Leave, Drop, EndTask, SocketInv
<1>2. CASE room' = room /\ session' = session /\ events' = events
  BY <1>1, <1>2, InPlaceKeepsUp DEF KeptUp, IsSeat
<1>3. ASSUME NEW s \in 1..Len(room.players), NEW a, Commit(a, PodOf[d]),
             StaysPut(a, room, s),
             a = Outcome(GoneRoom) \/ Len(a.room.players) = Len(room.players),
             events' = events
      PROVE  KeptUp
  BY <1>1, <1>3, StayedKeepsUp DEF KeptUp
<1>4. CASE Leave(d)
  <2>1. ASSUME NEW s \in 1..Len(room.players), NEW a, Commit(a, PodOf[d]),
               PublishSeatChanged(a.renumbered, PodOf[d]), room' = a.room,
               Departs(a, room, s), TakesOut(a, room, s), Exists
        PROVE  KeptUp
    <3>1. Len(room'.players) < Len(room.players)
      <4>1. PICK n \in 0..4 : Len(room.players) = n
        BY RoomTypeFacts DEF RoomInv, Typed
      <4> QED
        BY <2>1, <4>1 DEF TakesOut
    <3>2. PodOf[d] \in Pod
      BY PodOfAssumption
    <3>3. CASE DOMAIN a.renumbered = {}
      BY <2>1, <3>1, <3>3, PublishNothing DEF KeptUp, CompactsUntold
    <3>4. CASE events[PodOf[d]] # <<>>
      <4>1. events'[PodOf[d]] = events[PodOf[d]]
        BY <2>1, <3>2 DEF PublishSeatChanged
      <4> QED
        BY <3>1, <3>2, <3>4, <4>1 DEF KeptUp, CompactsAhead
    <3>5. CASE a = Outcome(GoneRoom)
      <4>1. DOMAIN <<>> = {}
        OBVIOUS
      <4> QED
        BY <3>3, <3>5, <4>1, GoneRoomFacts
    <3>6. CASE /\ DOMAIN a.renumbered # {} /\ events[PodOf[d]] = <<>>
               /\ a # Outcome(GoneRoom)
      <4>1. a.room.phase # "Gone"
        BY <2>1, <3>6 DEF Departs, Exists
      <4> QED
        BY <1>1, <2>1, <3>2, <3>6, <4>1, TakenOutKeepsUp DEF KeptUp
    <3> QED
      BY <3>3, <3>4, <3>5, <3>6
  <2>2. ASSUME NEW s \in 1..Len(room.players), NEW a, Commit(a, PodOf[d]),
               PublishSeatChanged(a.renumbered, PodOf[d]), StaysPut(a, room, s),
               a = Outcome(GoneRoom) \/ Len(a.room.players) = Len(room.players)
        PROVE  KeptUp
    <3>1. DOMAIN <<>> = {}
      OBVIOUS
    <3>2. DOMAIN a.renumbered = {}
      BY <2>2, <3>1, GoneRoomFacts DEF StaysPut
    <3>3. events' = events
      BY <2>2, <3>2, PublishNothing
    <3> QED
      BY <1>3, <2>2, <3>3
  <2> QED
    BY <1>2, <1>4, <2>1, <2>2, LeaveFacts
<1>5. CASE Drop(d)
  <2>1. ASSUME NEW s \in 1..Len(room.players), NEW a, Commit(a, PodOf[d]),
               room' = a.room, StaysPut(a, room, s), events' = events
        PROVE  KeptUp
    <3>1. CASE Len(a.room.players) = Len(room.players)
      BY <1>3, <2>1, <3>1
    <3>2. CASE Len(a.room.players) # Len(room.players)
      <4>1. Typed(a.room) => Len(room'.players) < Len(room.players)
        <5>1. PICK n \in 0..4 : Len(room.players) = n
          BY RoomTypeFacts DEF RoomInv, Typed
        <5>2. ASSUME Typed(a.room)
              PROVE  \E m \in 0..4 : Len(a.room.players) = m
          BY <5>2, RoomTypeFacts DEF Typed
        <5> QED
          BY <2>1, <3>2, <5>1, <5>2 DEF StaysPut
      <4>2. Typed(room')
        BY <1>5, DropFacts DEF RoomInv, Keeps
      <4> QED
        BY <2>1, <4>1, <4>2 DEF KeptUp, CompactsUntold
    <3> QED
      BY <3>1, <3>2
  <2> QED
    BY <1>2, <1>5, <2>1, DropFacts
<1> QED
  BY <1>4, <1>5

LEMMA ReapOrphanKeepsUp ==
    ASSUME Unmixed(room), SocketInv, NEW p \in Pod, ReapOrphan(p)
    PROVE  KeptUp
<1>1. /\ room' = GoneRoom /\ tokenOf' = tokenOf /\ events' = events
      /\ \A c \in Socket : session'[c] \in {session[c], None}
  BY ReapOrphanFacts, GoneRoomFacts DEF Commit
<1>2. \A i \in 1..Len(room'.players) : FALSE
  BY <1>1, GoneRoomFacts
<1> QED
  BY <1>1, <1>2, InPlaceKeepsUp DEF KeptUp

LEMMA StepKeepsUp ==
    ASSUME RoomInv, Unmixed(room), SocketInv, Exists, [Next]_vars
    PROVE  KeptUp
<1>1. ASSUME NEW d \in Socket, NEW t \in Token,
             \/ \E public \in BOOLEAN : Create(d, t, public)
             \/ Join(d, t) \/ Rejoin(d, t)
      PROVE  KeptUp
  BY <1>1, ComingKeepsUp DEF KeptUp
<1>2. CASE \/ \E d \in Socket : AddSession(d) \/ RemoveSession(d) \/ Start(d)
           \/ \E d \in Socket, ready \in BOOLEAN : Ready(d, ready)
           \/ CheckRoom \/ Tick \/ UNCHANGED vars
  BY <1>2, QuietKeepsUp DEF KeptUp
<1>3. ASSUME NEW d \in Socket, Leave(d) \/ Drop(d)
      PROVE  KeptUp
  BY <1>3, GoingKeepsUp
<1>4. ASSUME NEW p \in Pod, Deliver(p) \/ ReapOrphan(p)
      PROVE  KeptUp
  BY <1>4, DeliverKeepsUp, ReapOrphanKeepsUp DEF KeptUp
<1> QED
  BY <1>1, <1>2, <1>3, <1>4 DEF Next

-----------------------------------------------------------------------------
(* The theorems on what holds in every state.                              *)

\* An entry of disconnected_players leads to the seat its token left, through
\* every renumbering of remove_lobby_seat: rejoin_room never gives a human
\* the seat of another.
THEOREM EntriesAlwaysPointHome == Spec => []EntriesPointHome
<1>1. SeatInv => EntriesPointHome
  BY DEF SeatInv, Sound, EntriesPointHome
<1> QED
  BY <1>1, SeatsAreGood, PTL

\* A token has one seat or one entry, or an entry for the very seat it has.
THEOREM OneSeatForEach == Spec => []OneSeatEach
<1>1. SeatInv => OneSeatEach
  BY DEF SeatInv, Sound, OneSeatEach
<1> QED
  BY <1>1, SeatsAreGood, PTL

LEMMA InvariantsHold == Spec => [](SeatInv /\ SocketInv)
<1>1. Init => SocketInv
  BY DEF Init, SocketInv, SeatOrNone
<1>2. SeatInv => RoomInv
  BY DEF SeatInv
<1> QED
  BY <1>1, <1>2, SocketInvNext, SeatsAreGood, PTL DEF Spec

\* Every variable keeps its type: the ready bits are as many as the seats, the
\* seats at most four, and no renumbering or stale seat leads off the table.
THEOREM LobbyTypeCorrect == Spec => []TypeOK
<1>1. SeatInv /\ SocketInv => TypeOK
  BY DEF SeatInv, RoomInv, Typed, SocketInv, SeatOrNone, TypeOK
<1> QED
  BY <1>1, InvariantsHold, PTL

\* The session map of every pod follows the seats: the compaction of a leave
\* and its SeatChanged lead each session to the seat of its human, however the
\* messages and the other steps interleave.
THEOREM SessionsAlwaysKeepUp == Spec => SessionsKeepUp
<1>1. SeatInv /\ SocketInv /\ [Next]_vars
      => (Exists
          => \/ \A c \in Socket : Sits(c) /\ Agrees(c) /\ Sits(c)' => Agrees(c)'
             \/ CompactsUntold \/ CompactsAhead
             \/ ~Unmixed(room))
  BY StepKeepsUp DEF SeatInv, KeptUp, KeepsUp
<1> QED
  BY <1>1, InvariantsHold, PTL DEF Spec, SessionsKeepUp
=============================================================================
