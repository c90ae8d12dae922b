---------------------------- MODULE SeatsProofs -----------------------------
(***************************************************************************)
(* Lemmas about the operators of Seats: what each does to the types of a   *)
(* room, to where its entries lead, and to the humans at its seats.        *)
(***************************************************************************)
EXTENDS LobbyProperties, SequenceTheorems, TLAPS

\* A sequence with an element taken out.
LEMMA RemoveAtProperties ==
    ASSUME NEW S, NEW q \in Seq(S), NEW i \in 1..Len(q)
    PROVE  /\ RemoveAt(q, i) \in Seq(S)
           /\ Len(RemoveAt(q, i)) = Len(q) - 1
           /\ \A j \in 1..(Len(q) - 1) :
                 RemoveAt(q, i)[j] = IF j < i THEN q[j] ELSE q[j + 1]
<1> DEFINE front == SubSeq(q, 1, i - 1)
           back  == SubSeq(q, i + 1, Len(q))
<1>1. /\ front \in Seq(S) /\ Len(front) = i - 1
      /\ \A j \in 1..(i - 1) : front[j] = q[j]
  BY SubSeqProperties
<1>2. /\ back \in Seq(S) /\ Len(back) = Len(q) - i
      /\ \A j \in 1..(Len(q) - i) : back[j] = q[i + j]
  BY SubSeqProperties
<1>3. RemoveAt(q, i) = front \o back
  BY DEF RemoveAt
<1> HIDE DEF front, back
<1>4. /\ front \o back \in Seq(S)
      /\ Len(front \o back) = Len(q) - 1
      /\ \A j \in 1..(Len(q) - 1) :
            (front \o back)[j] = IF j < i THEN q[j] ELSE q[j + 1]
  <2>1. front \o back \in Seq(S) /\ Len(front \o back) = Len(q) - 1
    <3>3. Len(front \o back) = Len(front) + Len(back)
      BY <1>1, <1>2, ConcatProperties
    <3>1. Len(front \o back) = (i - 1) + (Len(q) - i)
      BY <1>1, <1>2, <3>3
    <3>2. (i - 1) + (Len(q) - i) = Len(q) - 1
      BY LenProperties
    <3> QED
      BY <1>1, <1>2, <3>1, <3>2, ConcatProperties
  <2>2. ASSUME NEW j \in 1..(Len(q) - 1), j < i
        PROVE  (front \o back)[j] = q[j]
    BY <1>1, <1>2, <2>2, ConcatProperties
  <2>3. ASSUME NEW j \in 1..(Len(q) - 1), ~(j < i)
        PROVE  (front \o back)[j] = q[j + 1]
    <3>1. (front \o back)[j] = back[j - (i - 1)]
      BY <1>1, <1>2, <2>3, ConcatProperties
    <3>2. j - (i - 1) \in 1..(Len(q) - i)
      BY <2>3
    <3>3. back[j - (i - 1)] = q[i + (j - (i - 1))]
      BY <1>2, <3>2
    <3>4. i + (j - (i - 1)) = j + 1
      BY <2>3
    <3> QED
      BY <3>1, <3>3, <3>4
  <2> QED
    BY <2>1, <2>2, <2>3
<1> QED
  BY <1>3, <1>4

LEMMA FunctionIsSeq ==
    ASSUME NEW S, NEW n \in Nat, NEW f \in [1..n -> S]
    PROVE  f \in Seq(S) /\ Len(f) = n
<1>1. f \in Seq(S)
  BY SeqDef
<1>2. Len(f) \in Nat /\ DOMAIN f = 1..Len(f) /\ DOMAIN f = 1..n
  BY <1>1, LenProperties
<1> QED
  BY <1>1, <1>2

LEMMA FourIsSeq ==
    ASSUME NEW S, NEW f \in [1..4 -> S]
    PROVE  f \in Seq(S) /\ Len(f) = 4
<1>1. PICK n \in Nat : n = 4
  OBVIOUS
<1>2. f \in [1..n -> S]
  BY <1>1
<1>3. f \in Seq(S) /\ Len(f) = n
  BY <1>2, FunctionIsSeq, Zenon
<1> QED
  BY <1>1, <1>3

-----------------------------------------------------------------------------
(* What is kept of a room by every operator.                               *)

Typed(r) == RoomType(r) /\ \A e \in r.disconnected : IsSeat(r, e.seat)

Good(r) == Typed(r) /\ Sound(r)

\* The tokens a room remembers.
TokensOf(r) == {t \in Token : \/ \E s \in 1..Len(r.players) : r.players[s].token = t
                             \/ \E e \in r.disconnected : e.token = t}

\* Every human of room r has its seat or an entry in room q, all entries are
\* there still, and those that are new are not too old to come back by.
Recalls(q, r) ==
    /\ r.disconnected \subseteq q.disconnected
    /\ \A e \in q.disconnected : e \in r.disconnected \/ e.age < RejoinTimeout
    /\ \A i \in 1..Len(r.players) :
          Human(r, i) => \/ Human(q, i) /\ q.players[i].token = r.players[i].token
                         \/ \E e \in q.disconnected : e.token = r.players[i].token

\* What every operator keeps: the types, and the order of seats and entries if
\* there is one; and no token is new.
Keeps(q, r) ==
    /\ Typed(q)
    /\ TokensOf(q) \subseteq TokensOf(r)
    /\ Sound(r) => Sound(q)

\* The same seats in order, some of them without their token, and no new
\* entry.
SameSeats(q, r) ==
    /\ Len(q.players) = Len(r.players)
    /\ \A s \in 1..Len(r.players) : q.players[s].token \in {r.players[s].token, None}
    /\ q.disconnected \subseteq r.disconnected

LEMMA RoomTypeFacts ==
    ASSUME NEW r, RoomType(r)
    PROVE  /\ r.players \in Seq(SeatRecord) /\ r.ready \in Seq(BOOLEAN)
           /\ r.disconnected \subseteq Entry
           /\ Len(r.players) \in 0..4 /\ Len(r.ready) = Len(r.players)
           /\ \A s \in 1..Len(r.players) : r.players[s] \in SeatRecord
<1>1. r.players \in Seq(SeatRecord) /\ r.ready \in Seq(BOOLEAN)
      /\ r.disconnected \subseteq Entry
  BY DEF RoomType, Room
<1>2. Len(r.players) \in Nat /\ \A s \in 1..Len(r.players) : r.players[s] \in SeatRecord
  BY <1>1, LenProperties, ElementOfSeq
<1>3. Len(r.players) <= 4 /\ Len(r.ready) = Len(r.players)
  BY DEF RoomType, MaxSeats
<1>4. Len(r.players) \in 0..4
  <2>1. \A n \in Nat : n <= 4 => n \in 0..4
    OBVIOUS
  <2> QED
    BY <1>2, <1>3, <2>1
<1> QED
  BY <1>1, <1>2, <1>3, <1>4

LEMMA SameSeatsKeep ==
    ASSUME NEW r, Typed(r), NEW q, RoomType(q), SameSeats(q, r)
    PROVE  Keeps(q, r)
<1>1. None \notin Token
  BY NoneAssumption
<1>2. \A e \in r.disconnected : e.token \in Token
  BY RoomTypeFacts DEF Typed, Entry
<1>3. Typed(q)
  BY DEF SameSeats, Typed, IsSeat
<1>4. ASSUME Sound(r)
      PROVE  Sound(q)
  <2>0. LeadsHome(q)
    BY <1>4 DEF SameSeats, Sound, LeadsHome, IsSeat
  <2>1. ASSUME NEW s1 \in 1..Len(q.players), NEW s2 \in 1..Len(q.players),
               Human(q, s1), q.players[s1].token = q.players[s2].token
        PROVE  s1 = s2
    BY <1>4, <2>1 DEF SameSeats, Sound, Unmixed, Human, IsSeat
  <2>2. \A e, f \in q.disconnected : e.token = f.token \/ e.seat = f.seat => e = f
    BY <1>4 DEF SameSeats, Sound, Unmixed
  <2>3. ASSUME NEW e \in q.disconnected, NEW s \in 1..Len(q.players),
               e.token = q.players[s].token
        PROVE  e.seat = s
    BY <1>1, <1>2, <1>4, <2>3 DEF SameSeats, Sound, Unmixed
  <2>4. Unmixed(q)
    BY <2>1, <2>2, <2>3 DEF Unmixed
  <2> QED
    BY <2>0, <2>4 DEF Sound
<1>5. TokensOf(q) \subseteq TokensOf(r)
  BY <1>1 DEF SameSeats, TokensOf
<1> QED
  BY <1>3, <1>4, <1>5 DEF Keeps

\* No change at all, and one change after another.
LEMMA KeepsTwice ==
    ASSUME NEW r, NEW q, NEW p, Keeps(q, r), Keeps(p, q)
    PROVE  Keeps(p, r)
BY DEF Keeps

-----------------------------------------------------------------------------
(* Seats without compaction.                                               *)

LEMMA GoodNewRoom ==
    ASSUME NEW t \in Token, NEW p \in Pod, NEW public \in BOOLEAN
    PROVE  Good(NewRoom(t, p, public)) /\ TokensOf(NewRoom(t, p, public)) \subseteq {t}
<1>1. PICK seat \in SeatRecord : seat = NewSeat(t, TRUE, p) /\ seat.token = t
  <2>1. NewSeat(t, TRUE, p) \in SeatRecord /\ NewSeat(t, TRUE, p).token = t
    BY DEF NewSeat, SeatRecord
  <2> QED
    BY <2>1, Zenon
<1> DEFINE r == NewRoom(t, p, public)
<1>2. /\ r.players = <<seat>> /\ r.ready = <<TRUE>>
      /\ r.disconnected = {} /\ r.phase = "Lobby" /\ r.deserted = None
  BY <1>1 DEF NewRoom
<1>3. <<seat>> \in Seq(SeatRecord) /\ <<TRUE>> \in Seq(BOOLEAN)
  OBVIOUS
<1>4. r \in Room
  <2>1. None \in Age \cup {None} /\ {} \in SUBSET Entry
    OBVIOUS
  <2> QED
    BY <1>1, <1>3, <2>1 DEF NewRoom, Room
<1>5. Len(<<seat>>) = 1 /\ Len(<<TRUE>>) = 1 /\ <<seat>>[1] = seat
  OBVIOUS
<1> HIDE DEF r
<1>6. Len(r.players) = 1 /\ Len(r.ready) = 1 /\ r.players[1].token = t
  BY <1>1, <1>2, <1>5
<1>7. \A s \in 1..Len(r.players) : s = 1
  BY <1>6
<1>8. RoomType(r)
  BY <1>4, <1>6 DEF RoomType, MaxSeats
<1>9. LeadsHome(r) /\ Unmixed(r)
  BY <1>2, <1>7 DEF LeadsHome, Unmixed
<1>10. TokensOf(r) \subseteq {t}
  BY <1>2, <1>6, <1>7 DEF TokensOf
<1> QED
  BY <1>8, <1>9, <1>10 DEF Good, Typed, Sound, LeadsHome, r

LEMMA AddPlayerKeeps ==
    ASSUME NEW r, Typed(r), Len(r.players) < MaxSeats,
           NEW t \in Token, t \notin TokensOf(r), NEW p \in Pod
    PROVE  /\ Typed(AddPlayer(r, t, p))
           /\ TokensOf(AddPlayer(r, t, p)) \subseteq TokensOf(r) \cup {t}
           /\ Sound(r) => Sound(AddPlayer(r, t, p))
<1>1. PICK seat \in SeatRecord : seat = NewSeat(t, FALSE, p) /\ seat.token = t
  <2>1. NewSeat(t, FALSE, p) \in SeatRecord /\ NewSeat(t, FALSE, p).token = t
    BY DEF NewSeat, SeatRecord
  <2> QED
    BY <2>1, Zenon
<1>2. PICK n \in 0..4 : Len(r.players) = n /\ Len(r.ready) = n
  BY RoomTypeFacts DEF Typed
<1>3. /\ r.players \in Seq(SeatRecord) /\ r.ready \in Seq(BOOLEAN)
      /\ n < 4 /\ r \in Room
  BY <1>2, RoomTypeFacts DEF Typed, RoomType, MaxSeats
<1> DEFINE q == AddPlayer(r, t, p)
<1>4. /\ q.players = Append(r.players, seat) /\ q.ready = Append(r.ready, FALSE)
      /\ q.disconnected = r.disconnected
  BY <1>1, <1>3 DEF AddPlayer, Room
<1>5. Append(r.players, seat) \in Seq(SeatRecord) /\ Append(r.ready, FALSE) \in Seq(BOOLEAN)
  BY <1>3
<1>6. q \in Room
  BY <1>1, <1>3, <1>5 DEF AddPlayer, Room
<1>7. /\ Len(Append(r.players, seat)) = n + 1 /\ Len(Append(r.ready, FALSE)) = n + 1
      /\ Append(r.players, seat)[n + 1] = seat
      /\ \A s \in 1..n : Append(r.players, seat)[s] = r.players[s]
  BY <1>2, <1>3
<1> HIDE DEF q
<1>8. /\ Len(q.players) = n + 1 /\ Len(q.ready) = n + 1
      /\ q.players[n + 1].token = t
      /\ \A s \in 1..n : q.players[s] = r.players[s]
  BY <1>1, <1>4, <1>7
<1>9. /\ \A s \in 1..n : r.players[s].token # t
      /\ \A e \in r.disconnected : e.token # t
      /\ t # None
  BY <1>2, NoneAssumption DEF TokensOf
<1>10. 1..(n + 1) = 1..n \cup {n + 1} /\ n + 1 <= 4
  BY <1>3
<1>11. Sound(r) => LeadsHome(q)
  BY <1>2, <1>4, <1>8, <1>10 DEF Sound, LeadsHome, IsSeat
<1>12. ASSUME Sound(r)
       PROVE  Unmixed(q)
  <2>1. ASSUME NEW s1 \in 1..(n + 1), NEW s2 \in 1..(n + 1),
               q.players[s1].token # None, q.players[s1].token = q.players[s2].token
        PROVE  s1 = s2
    <3>1. CASE s1 \in 1..n /\ s2 \in 1..n
      BY <1>2, <1>8, <1>12, <2>1, <3>1 DEF Sound, Unmixed, Human, IsSeat
    <3>2. CASE s1 = n + 1 \/ s2 = n + 1
      BY <1>8, <1>9, <1>10, <2>1, <3>2
    <3> QED
      BY <1>10, <3>1, <3>2
  <2>2. \A e, f \in q.disconnected : e.token = f.token \/ e.seat = f.seat => e = f
    BY <1>4, <1>12 DEF Sound, Unmixed
  <2>3. ASSUME NEW e \in q.disconnected, NEW s \in 1..(n + 1),
               e.token = q.players[s].token
        PROVE  e.seat = s
    <3>1. CASE s \in 1..n
      BY <1>2, <1>4, <1>8, <1>12, <2>3, <3>1 DEF Sound, Unmixed
    <3>2. CASE s = n + 1
      BY <1>4, <1>8, <1>9, <2>3, <3>2
    <3> QED
      BY <1>10, <3>1, <3>2
  <2> QED
    BY <1>8, <2>1, <2>2, <2>3 DEF Unmixed, Human, IsSeat
<1>13. TokensOf(q) \subseteq TokensOf(r) \cup {t}
  BY <1>2, <1>4, <1>8, <1>10 DEF TokensOf
<1>14. Typed(q)
  BY <1>2, <1>4, <1>6, <1>8, <1>10 DEF Typed, IsSeat, RoomType, MaxSeats
<1> QED
  BY <1>11, <1>12, <1>13, <1>14 DEF Sound, q

LEMMA FillWithBotsKeeps ==
    ASSUME NEW r, Typed(r)
    PROVE  Keeps(FillWithBots(r), r)
<1> DEFINE q == FillWithBots(r)
           n == Len(r.players)
<1>1. /\ r.players \in Seq(SeatRecord) /\ r.ready \in Seq(BOOLEAN)
      /\ r.disconnected \subseteq Entry /\ n \in 0..4 /\ Len(r.ready) = n
      /\ \A s \in 1..n : r.players[s] \in SeatRecord /\ r.ready[s] \in BOOLEAN
  BY RoomTypeFacts, ElementOfSeq DEF Typed
<1>2. Bot \in SeatRecord /\ Bot.token = None
  BY DEF Bot, NewSeat, SeatRecord
<1>3. /\ q.players = [s \in 1..4 |-> IF s \in 1..n THEN r.players[s] ELSE Bot]
      /\ q.ready = [s \in 1..4 |-> IF s \in 1..n THEN r.ready[s] ELSE TRUE]
      /\ q.disconnected = r.disconnected /\ q.phase = "Started"
      /\ q.deserted = r.deserted /\ DOMAIN q = DOMAIN r
  BY DEF FillWithBots, IsSeat, MaxSeats, Typed, RoomType, Room
<1>4. q.players \in Seq(SeatRecord) /\ Len(q.players) = 4
  <2> DEFINE f == [s \in 1..4 |-> IF s \in 1..n THEN r.players[s] ELSE Bot]
  <2>1. f \in [1..4 -> SeatRecord]
    <3>1. \A s \in 1..n : r.players[s] \in SeatRecord
      BY <1>1
    <3> HIDE DEF n
    <3> QED
      BY <1>2, <3>1
  <2>2. q.players = f
    BY <1>3
  <2> HIDE DEF f
  <2>3. f \in Seq(SeatRecord) /\ Len(f) = 4
    BY <2>1, FourIsSeq, Zenon
  <2> QED
    BY <2>2, <2>3
<1>5. q.ready \in Seq(BOOLEAN) /\ Len(q.ready) = 4
  <2> DEFINE f == [s \in 1..4 |-> IF s \in 1..n THEN r.ready[s] ELSE TRUE]
  <2>1. f \in [1..4 -> BOOLEAN]
    <3>1. \A s \in 1..n : r.ready[s] \in BOOLEAN
      BY <1>1
    <3> HIDE DEF n
    <3> QED
      BY <3>1
  <2>2. q.ready = f
    BY <1>3
  <2> HIDE DEF f
  <2>3. f \in Seq(BOOLEAN) /\ Len(f) = 4
    BY <2>1, FourIsSeq, Zenon
  <2> QED
    BY <2>2, <2>3
<1>6. q \in Room
  BY <1>3, <1>4, <1>5 DEF FillWithBots, Typed, RoomType, Room
<1>7. \A s \in 1..4 : q.players[s] = IF s \in 1..n THEN r.players[s] ELSE Bot
  BY <1>3
<1>8. \A s \in 1..n : s \in 1..4
  BY <1>1
<1>9. None \notin Token /\ \A e \in r.disconnected : e.token \in Token
  BY <1>1, NoneAssumption DEF Entry
<1> HIDE DEF q, n
<1>10. Sound(r) => LeadsHome(q)
  BY <1>3, <1>4, <1>7, <1>8 DEF Sound, LeadsHome, IsSeat, n
<1>11. Sound(r) => Unmixed(q)
  BY <1>2, <1>3, <1>4, <1>7, <1>9 DEF Sound, Unmixed, Human, IsSeat, n
<1>12. TokensOf(q) \subseteq TokensOf(r)
  BY <1>2, <1>3, <1>4, <1>7, <1>9 DEF TokensOf, n
<1>13. Typed(q)
  BY <1>3, <1>4, <1>5, <1>6, <1>8 DEF Typed, IsSeat, RoomType, MaxSeats, n
<1> QED
  BY <1>10, <1>11, <1>12, <1>13 DEF Keeps, Sound, q

-----------------------------------------------------------------------------
(* One seat changes.                                                       *)

\* Only seat s of the room differs, and is p now.
OnlySeat(q, r, s, p) ==
    /\ q.phase = r.phase /\ q.public = r.public /\ q.disconnected = r.disconnected
    /\ Len(q.players) = Len(r.players)
    /\ q.players[s] = p
    /\ \A i \in 1..Len(r.players) : i # s => q.players[i] = r.players[i]

LEMMA ExceptSeat ==
    ASSUME NEW r, RoomType(r), NEW s \in 1..Len(r.players), NEW p \in SeatRecord,
           NEW q, q = [r EXCEPT !.players[s] = p]
    PROVE  RoomType(q) /\ OnlySeat(q, r, s, p) /\ q.ready = r.ready
<1> DEFINE new == [r.players EXCEPT ![s] = p]
<1>1. r.players \in Seq(SeatRecord) /\ r \in Room
  BY RoomTypeFacts DEF RoomType
<1>2. /\ new \in Seq(SeatRecord) /\ Len(new) = Len(r.players)
      /\ \A i \in 1..Len(r.players) : new[i] = IF i = s THEN p ELSE r.players[i]
  BY <1>1, ExceptSeq
<1>3. /\ q.players = new /\ q.phase = r.phase /\ q.ready = r.ready
      /\ q.public = r.public /\ q.disconnected = r.disconnected
  BY <1>1 DEF Room
<1> HIDE DEF new
<1>4. q \in Room
  BY <1>1, <1>2 DEF Room, new
<1> QED
  BY <1>2, <1>3, <1>4 DEF RoomType, OnlySeat

LEMMA OnlySeatSame ==
    ASSUME NEW r, RoomType(r), NEW s \in 1..Len(r.players), NEW p \in SeatRecord,
           p.token \in {r.players[s].token, None},
           NEW q, q = [r EXCEPT !.players[s] = p]
    PROVE  RoomType(q) /\ OnlySeat(q, r, s, p) /\ SameSeats(q, r)
<1>1. RoomType(q) /\ OnlySeat(q, r, s, p)
  BY ExceptSeat
<1> QED
  BY <1>1 DEF OnlySeat, SameSeats

\* The same human with the same connection, or the same bot.
SameHolder(p, q) == p.token = q.token /\ p.gone = q.gone /\ p.owner = q.owner

\* The record of a seat that somebody leaves or takes is one again.
LEMMA SeatTypes ==
    ASSUME NEW p \in SeatRecord
    PROVE  /\ \E q \in SeatRecord :
                 /\ q = [p EXCEPT !.gone = 0, !.owner = None]
                 /\ q.token = p.token /\ q.gone = 0 /\ q.creator = p.creator
           /\ \E q \in SeatRecord : q = [p EXCEPT !.gone = 0] /\ q.token = p.token
           /\ \E q \in SeatRecord :
                 q = [p EXCEPT !.token = None, !.gone = None] /\ q.token = None
           /\ \E q \in SeatRecord : q = [p EXCEPT !.owner = None] /\ q.token = p.token
           /\ \E q \in SeatRecord :
                 /\ q = [p EXCEPT !.creator = TRUE]
                 /\ q.token = p.token /\ SameHolder(q, p) /\ q.creator = TRUE
           /\ \A t \in Token, pod \in Pod :
                 \E q \in SeatRecord :
                    q = [p EXCEPT !.token = t, !.gone = None, !.owner = pod]
<1>1. 0 \in Age \cup {None} /\ None \in Age \cup {None}
  BY TimeoutAssumption DEF Age
<1>2. /\ p.token \in Token \cup {None} /\ p.gone \in Age \cup {None}
      /\ p.creator \in BOOLEAN /\ p.owner \in Pod \cup {None}
  BY DEF SeatRecord
<1>3. /\ [p EXCEPT !.gone = 0, !.owner = None] \in SeatRecord
      /\ [p EXCEPT !.gone = 0, !.owner = None].token = p.token
      /\ [p EXCEPT !.gone = 0, !.owner = None].gone = 0
      /\ [p EXCEPT !.gone = 0, !.owner = None].creator = p.creator
  BY <1>1 DEF SeatRecord
<1>4. [p EXCEPT !.gone = 0] \in SeatRecord /\ [p EXCEPT !.gone = 0].token = p.token
  BY <1>1 DEF SeatRecord
<1>5. /\ [p EXCEPT !.token = None, !.gone = None] \in SeatRecord
      /\ [p EXCEPT !.token = None, !.gone = None].token = None
  BY <1>1 DEF SeatRecord
<1>6. [p EXCEPT !.owner = None] \in SeatRecord /\ [p EXCEPT !.owner = None].token = p.token
  BY DEF SeatRecord
<1>7. /\ [p EXCEPT !.creator = TRUE] \in SeatRecord
      /\ [p EXCEPT !.creator = TRUE].token = p.token
      /\ SameHolder([p EXCEPT !.creator = TRUE], p)
      /\ [p EXCEPT !.creator = TRUE].creator = TRUE
  BY DEF SeatRecord, SameHolder
<1>8. ASSUME NEW t \in Token, NEW pod \in Pod
      PROVE  [p EXCEPT !.token = t, !.gone = None, !.owner = pod] \in SeatRecord
  BY <1>1 DEF SeatRecord
<1> QED
  BY <1>3, <1>4, <1>5, <1>6, <1>7, <1>8, Zenon

\* Leaving a seat, however it is done, changes only that seat.
LEMMA DisconnectFacts ==
    ASSUME NEW r, RoomType(r), NEW s \in 1..Len(r.players), NEW q, q = Disconnect(r, s)
    PROVE  /\ RoomType(q) /\ SameSeats(q, r)
           /\ \E p : /\ OnlySeat(q, r, s, p)
                     /\ p.token = r.players[s].token /\ p.gone = 0
                     /\ p.creator = r.players[s].creator
<1>1. r.players[s] \in SeatRecord
  BY RoomTypeFacts
<1>2. PICK p \in SeatRecord : /\ p = [r.players[s] EXCEPT !.gone = 0, !.owner = None]
                              /\ p.token = r.players[s].token /\ p.gone = 0
                              /\ p.creator = r.players[s].creator
  BY <1>1, SeatTypes, Zenon
<1>3. q = [r EXCEPT !.players[s] = p]
  BY <1>2 DEF Disconnect
<1>4. p.token \in {r.players[s].token, None}
  BY <1>2
<1>5. RoomType(q) /\ OnlySeat(q, r, s, p) /\ SameSeats(q, r)
  BY <1>3, <1>4, OnlySeatSame
<1> QED
  BY <1>2, <1>5

LEMMA TurnIntoBotFacts ==
    ASSUME NEW r, RoomType(r), NEW s \in 1..Len(r.players), NEW q, q = TurnIntoBot(r, s)
    PROVE  /\ RoomType(q) /\ SameSeats(q, r)
           /\ \E p : OnlySeat(q, r, s, p) /\ p.token = None
<1>1. r.players[s] \in SeatRecord
  BY RoomTypeFacts
<1>2. PICK p \in SeatRecord : /\ p = [r.players[s] EXCEPT !.token = None, !.gone = None]
                              /\ p.token = None
  BY <1>1, SeatTypes, Zenon
<1>3. q = [r EXCEPT !.players[s] = p]
  BY <1>2 DEF TurnIntoBot
<1>4. p.token \in {r.players[s].token, None}
  BY <1>2
<1>5. RoomType(q) /\ OnlySeat(q, r, s, p) /\ SameSeats(q, r)
  BY <1>3, <1>4, OnlySeatSame
<1> QED
  BY <1>2, <1>5

LEMMA ReleaseOwnerFacts ==
    ASSUME NEW r, RoomType(r), NEW s \in 1..Len(r.players), NEW q, q = ReleaseOwner(r, s)
    PROVE  /\ RoomType(q) /\ SameSeats(q, r)
           /\ \E p : OnlySeat(q, r, s, p) /\ p.token = r.players[s].token
<1>1. r.players[s] \in SeatRecord
  BY RoomTypeFacts
<1>2. PICK p \in SeatRecord : /\ p = [r.players[s] EXCEPT !.owner = None]
                              /\ p.token = r.players[s].token
  BY <1>1, SeatTypes, Zenon
<1>3. q = [r EXCEPT !.players[s] = p]
  BY <1>2 DEF ReleaseOwner
<1> QED
  BY <1>2, <1>3, OnlySeatSame

\* A socket that names a bot's seat.
LEMMA BotGoneFacts ==
    ASSUME NEW r, RoomType(r), NEW s \in 1..Len(r.players),
           NEW q, q = [r EXCEPT !.players[s] = [@ EXCEPT !.gone = 0]]
    PROVE  /\ RoomType(q) /\ SameSeats(q, r)
           /\ \E p : OnlySeat(q, r, s, p) /\ p.token = r.players[s].token
<1>1. r.players[s] \in SeatRecord
  BY RoomTypeFacts
<1>2. PICK p \in SeatRecord : /\ p = [r.players[s] EXCEPT !.gone = 0]
                              /\ p.token = r.players[s].token
  BY <1>1, SeatTypes, Zenon
<1>3. q = [r EXCEPT !.players[s] = p]
  BY <1>2
<1> QED
  BY <1>2, <1>3, OnlySeatSame

LEMMA ReadySeat ==
    ASSUME NEW r, RoomType(r), NEW s \in 1..Len(r.players), NEW b \in BOOLEAN,
           NEW q, q = [r EXCEPT !.ready[s] = b]
    PROVE  RoomType(q) /\ q.players = r.players /\ q.disconnected = r.disconnected
           /\ q.phase = r.phase /\ q.public = r.public
<1> DEFINE new == [r.ready EXCEPT ![s] = b]
<1>1. r.ready \in Seq(BOOLEAN) /\ r \in Room /\ Len(r.ready) = Len(r.players)
  BY RoomTypeFacts DEF RoomType
<1>2. new \in Seq(BOOLEAN) /\ Len(new) = Len(r.ready)
  BY <1>1, ExceptSeq
<1>3. /\ q.ready = new /\ q.phase = r.phase /\ q.public = r.public /\ q.players = r.players
      /\ q.disconnected = r.disconnected
  BY <1>1 DEF Room
<1> HIDE DEF new
<1>4. q \in Room
  BY <1>1, <1>2 DEF Room, new
<1> QED
  BY <1>1, <1>2, <1>3, <1>4 DEF RoomType

LEMMA FirstSeat ==
    ASSUME NEW r, RoomType(r), NEW P, P \subseteq 1..Len(r.players), P # {}
    PROVE  \E i \in P : \A j \in 1..(i - 1) : j \in 1..Len(r.players) /\ j \notin P
<1>1. PICK n \in 0..4 : Len(r.players) = n
  BY RoomTypeFacts
<1>2. PICK i \in P : \A j \in P : i <= j
  <2>0. P \subseteq {1, 2, 3, 4}
    BY <1>1
  <2>1. CASE 1 \in P
    BY <1>1, <2>1
  <2>2. CASE 1 \notin P /\ 2 \in P
    BY <1>1, <2>2
  <2>3. CASE 1 \notin P /\ 2 \notin P /\ 3 \in P
    BY <1>1, <2>3
  <2>4. CASE 1 \notin P /\ 2 \notin P /\ 3 \notin P
    <3>1. \A j \in P : j = 4
      BY <2>0, <2>4
    <3>2. PICK i \in P : TRUE
      OBVIOUS
    <3>3. \A j \in P : i <= j
      BY <3>1, <3>2
    <3> QED
      BY <3>2, <3>3
  <2> QED
    BY <2>1, <2>2, <2>3, <2>4
<1>3. \A j \in 1..(i - 1) : j \in 1..n /\ j < i
  BY <1>1
<1> QED
  BY <1>1, <1>2, <1>3

\* The crown of seat s passes to another human with a connection, if there is
\* one; nobody's seat, connection or crown is lost.
CrownPasses(q, r, s) ==
    /\ q.phase = r.phase /\ q.public = r.public /\ q.disconnected = r.disconnected
    /\ Len(q.players) = Len(r.players)
    /\ \A i \in 1..Len(r.players) :
          /\ SameHolder(q.players[i], r.players[i])
          /\ r.players[i].creator => q.players[i].creator
    /\ r.players[s].creator /\ (\E i \in 1..Len(r.players) : i # s /\ Present(r, i))
       => \E i \in 1..Len(r.players) : i # s /\ Present(q, i) /\ q.players[i].creator

LEMMA CrownFacts ==
    ASSUME NEW r, RoomType(r), NEW s \in 1..Len(r.players)
    PROVE  RoomType(TransferCrown(r, s)) /\ CrownPasses(TransferCrown(r, s), r, s)
<1>1. CASE \E i \in 1..Len(r.players) : i # s /\ Present(r, i)
  <2> DEFINE Heir(i) == /\ i # s /\ Present(r, i)
                        /\ \A j \in 1..(i - 1) : j # s => ~Present(r, j)
             next == CHOOSE i \in 1..Len(r.players) : Heir(i)
  <2>1. next \in 1..Len(r.players) /\ Heir(next)
    <3> DEFINE P == {i \in 1..Len(r.players) : i # s /\ Present(r, i)}
    <3>1. P # {} /\ P \subseteq 1..Len(r.players)
      BY <1>1
    <3>2. PICK i \in P : \A j \in 1..(i - 1) : j \in 1..Len(r.players) /\ j \notin P
      <4> HIDE DEF P
      <4> QED
        BY <3>1, FirstSeat
    <3>3. i \in 1..Len(r.players) /\ Heir(i)
      BY <3>2
    <3> QED
      BY <3>3, Zenon
  <2> HIDE DEF next
  <2>2. PICK p \in SeatRecord : /\ p = [r.players[next] EXCEPT !.creator = TRUE]
                                /\ p.token = r.players[next].token
                                /\ SameHolder(p, r.players[next]) /\ p.creator = TRUE
    BY <2>1, RoomTypeFacts, SeatTypes, Zenon
  <2>3. PICK q : q = [r EXCEPT !.players[next] = p]
    OBVIOUS
  <2>4. RoomType(q) /\ OnlySeat(q, r, next, p)
    BY <2>1, <2>2, <2>3, ExceptSeat
  <2>0. PICK b \in BOOLEAN : b = TRUE
    OBVIOUS
  <2>5. PICK new : new = [q EXCEPT !.ready[next] = b]
    OBVIOUS
  <2>6. /\ RoomType(new) /\ new.players = q.players /\ new.disconnected = q.disconnected
        /\ new.phase = q.phase /\ new.public = q.public
    <3>1. next \in 1..Len(q.players)
      BY <2>1, <2>4 DEF OnlySeat
    <3> QED
      BY <2>4, <2>5, <3>1, ReadySeat
  <2>7. /\ Len(new.players) = Len(r.players) /\ new.players[next] = p
        /\ \A i \in 1..Len(r.players) : i # next => new.players[i] = r.players[i]
        /\ new.phase = r.phase /\ new.public = r.public
        /\ new.disconnected = r.disconnected
    BY <2>4, <2>6 DEF OnlySeat
  <2>8. \A i \in 1..Len(r.players) :
           /\ SameHolder(new.players[i], r.players[i])
           /\ r.players[i].creator => new.players[i].creator
    BY <2>2, <2>7 DEF SameHolder
  <2>9. next # s /\ Present(new, next) /\ new.players[next].creator
    BY <2>1, <2>2, <2>7, <2>8 DEF Present, Human, IsSeat, SameHolder
  <2>10. CrownPasses(new, r, s)
    BY <2>1, <2>7, <2>8, <2>9 DEF CrownPasses
  <2>11. TransferCrown(r, s) = [r EXCEPT !.players[next] = [@ EXCEPT !.creator = TRUE],
                                         !.ready[next]   = TRUE]
    BY <1>1, Zenon DEF TransferCrown, next, Heir
  <2>12. new = TransferCrown(r, s)
    BY <2>0, <2>2, <2>3, <2>5, <2>11
  <2> QED
    BY <2>6, <2>10, <2>12
<1>2. CASE ~\E i \in 1..Len(r.players) : i # s /\ Present(r, i)
  BY <1>2 DEF TransferCrown, CrownPasses, SameHolder
<1> QED
  BY <1>1, <1>2

LEMMA PassCrownOnFacts ==
    ASSUME NEW r, RoomType(r), NEW s \in 1..Len(r.players), NEW q, q = PassCrownOn(r, s)
    PROVE  RoomType(q) /\ CrownPasses(q, r, s) /\ SameSeats(q, r)
<1>1. CASE r.players[s].creator
  <2>1. RoomType(q) /\ CrownPasses(q, r, s)
    BY <1>1, CrownFacts DEF PassCrownOn
  <2> QED
    BY <2>1 DEF CrownPasses, SameHolder, SameSeats
<1>2. CASE ~r.players[s].creator
  BY <1>2 DEF PassCrownOn, CrownPasses, SameHolder, SameSeats
<1> QED
  BY <1>1, <1>2

-----------------------------------------------------------------------------
(* Entries.                                                                *)

LEMMA AddDisconnectedKeeps ==
    ASSUME NEW r, Typed(r), NEW s \in 1..Len(r.players), Human(r, s),
           NEW q, q = AddDisconnected(r, s, r.players[s].token)
    PROVE  Keeps(q, r) /\ q.players = r.players /\ q.public = r.public
           /\ q.phase = r.phase
           /\ \A e \in q.disconnected :
                 e \in r.disconnected \/ (e.seat = s /\ e.token = r.players[s].token)
<1>1. CASE \E e \in r.disconnected : e.seat = s
  BY <1>1 DEF AddDisconnected, Keeps
<1>2. CASE ~\E e \in r.disconnected : e.seat = s
  <2> DEFINE t == r.players[s].token
  <2>1. t \in Token /\ t # None /\ s \in 1..4 /\ r \in Room
    <3>1. RoomType(r)
      BY DEF Typed
    <3>2. PICK n \in 0..4 : Len(r.players) = n
      BY <3>1, RoomTypeFacts
    <3>3. s \in 1..4
      BY <3>2
    <3>4. r.players[s] \in SeatRecord
      BY <3>1, RoomTypeFacts
    <3>5. t \in Token \cup {None}
      BY <3>4 DEF SeatRecord
    <3> QED
      BY <3>1, <3>3, <3>5 DEF Human, RoomType
  <2> HIDE DEF t
  <2>2. PICK new \in Entry : new.seat = s /\ new.token = t
                             /\ new = [seat |-> s, token |-> t, age |-> 0]
    <3>1. 0 \in Age /\ s \in 1..MaxSeats
      BY <2>1, TimeoutAssumption DEF Age, MaxSeats
    <3> QED
      BY <2>1, <3>1 DEF Entry
  <2>3. /\ q.disconnected = r.disconnected \cup {new}
        /\ q.players = r.players /\ q.ready = r.ready /\ q.phase = r.phase
        /\ q.public = r.public
        /\ q \in Room
    BY <1>2, <2>1, <2>2 DEF AddDisconnected, Room, t
  <2>4. Typed(q)
    BY <2>2, <2>3 DEF Typed, RoomType, IsSeat
  <2>7. Sound(r) => LeadsHome(q)
    BY <2>2, <2>3 DEF Sound, LeadsHome, IsSeat, t
  <2>8. ASSUME Sound(r)
        PROVE  Unmixed(q)
    <3>5. \A e \in r.disconnected : e.seat # s /\ e.token # t
      BY <1>2, <2>8 DEF Sound, Unmixed, t
    <3>6. \A i \in 1..Len(r.players) : r.players[i].token = t => i = s
      BY <2>8 DEF Sound, Unmixed, Human, t
    <3>1. \A e, f \in q.disconnected : e.token = f.token \/ e.seat = f.seat => e = f
      BY <2>2, <2>3, <2>8, <3>5 DEF Sound, Unmixed
    <3>2. \A e \in q.disconnected, i \in 1..Len(q.players) :
             e.token = q.players[i].token => e.seat = i
      BY <2>2, <2>3, <2>8, <3>6 DEF Sound, Unmixed
    <3> QED
      BY <2>3, <2>8, <3>1, <3>2 DEF Sound, Unmixed, Human, IsSeat
  <2>9. TokensOf(q) \subseteq TokensOf(r)
    BY <2>2, <2>3 DEF TokensOf, t
  <2>10. \A e \in q.disconnected : e \in r.disconnected \/ (e.seat = s /\ e.token = t)
    BY <2>2, <2>3
  <2> QED
    BY <2>3, <2>4, <2>7, <2>8, <2>9, <2>10 DEF Keeps, Sound, t
<1> QED
  BY <1>1, <1>2

\* Entries go by token or by age.
LEMMA FewerEntries ==
    ASSUME NEW r, Typed(r), NEW S, S \subseteq r.disconnected,
           NEW q, q = [r EXCEPT !.disconnected = S]
    PROVE  Keeps(q, r) /\ q.players = r.players /\ q.disconnected = S
           /\ q.phase = r.phase /\ q.public = r.public
<1>1. /\ q.disconnected = S /\ q.players = r.players /\ q.ready = r.ready
      /\ q.phase = r.phase /\ q.public = r.public /\ q \in Room
  BY DEF Typed, RoomType, Room
<1>2. RoomType(q) /\ SameSeats(q, r)
  BY <1>1 DEF Typed, RoomType, SameSeats
<1> QED
  BY <1>1, <1>2, SameSeatsKeep

LEMMA CleanupKeeps ==
    ASSUME NEW r, Typed(r), NEW q, q = CleanupExpired(r)
    PROVE  Keeps(q, r) /\ q.players = r.players /\ q.disconnected \subseteq r.disconnected
           /\ q.phase = r.phase /\ q.public = r.public
<1>1. PICK S : S = {e \in r.disconnected : e.age < RejoinTimeout}
  OBVIOUS
<1>2. S \subseteq r.disconnected /\ q = [r EXCEPT !.disconnected = S]
  BY <1>1 DEF CleanupExpired
<1> QED
  BY <1>2, FewerEntries

\* Without the entry of a token.
Forgotten(r, t) == [r EXCEPT !.disconnected = {e \in @ : e.token # t}]

LEMMA ForgetKeeps ==
    ASSUME NEW r, Typed(r), NEW t, NEW q, q = Forgotten(r, t)
    PROVE  Keeps(q, r) /\ q.players = r.players
           /\ q.phase = r.phase /\ q.public = r.public
<1>1. PICK S : S = {e \in r.disconnected : e.token # t}
  OBVIOUS
<1>2. S \subseteq r.disconnected /\ q = [r EXCEPT !.disconnected = S]
  BY <1>1 DEF Forgotten
<1> QED
  BY <1>2, FewerEntries

LEMMA RecordHumanDisconnectKeeps ==
    ASSUME NEW r, Typed(r), NEW q, q = RecordHumanDisconnect(r)
    PROVE  Keeps(q, r) /\ q.players = r.players
           /\ q.phase = r.phase /\ q.public = r.public
           /\ q.disconnected = r.disconnected
<1>1. 0 \in Age \cup {None} /\ None \in Age \cup {None}
  BY TimeoutAssumption DEF Age
<1>2. PICK a \in Age \cup {None} : q = [r EXCEPT !.deserted = a]
  BY <1>1 DEF RecordHumanDisconnect
<1>3. /\ q.disconnected = r.disconnected /\ q.players = r.players
      /\ q.ready = r.ready /\ q.phase = r.phase
      /\ q.public = r.public /\ q \in Room
  BY <1>2 DEF Typed, RoomType, Room
<1>4. RoomType(q) /\ SameSeats(q, r)
  BY <1>3 DEF Typed, RoomType, SameSeats
<1> QED
  BY <1>3, <1>4, SameSeatsKeep

\* Whoever takes a seat, whatever its number: only that seat changes.
LEMMA RestoreSeatFacts ==
    ASSUME NEW r, Typed(r), NEW s \in 1..Len(r.players), NEW t \in Token, NEW pod \in Pod,
           NEW q, q = RestoreSeat(r, s, t, pod)
    PROVE  /\ Typed(q) /\ TokensOf(q) \subseteq TokensOf(r) \cup {t}
           /\ Len(q.players) = Len(r.players)
           /\ q.players[s].token = t /\ q.players[s].gone = None
           /\ q.players[s].owner = pod
           /\ q.players[s].creator = r.players[s].creator
           /\ \A i \in 1..Len(r.players) : i # s => q.players[i] = r.players[i]
           /\ q.disconnected = r.disconnected
           /\ q.phase = r.phase /\ q.public = r.public
<1>1. PICK p \in SeatRecord :
         p = [r.players[s] EXCEPT !.token = t, !.gone = None, !.owner = pod]
  <2>1. PICK old : old = r.players[s]
    OBVIOUS
  <2>2. old \in SeatRecord
    BY <2>1, RoomTypeFacts DEF Typed
  <2>3. \E p \in SeatRecord :
           p = [old EXCEPT !.token = t, !.gone = None, !.owner = pod]
    <3>1. \A u \in Token, w \in Pod :
             \E p \in SeatRecord :
                p = [old EXCEPT !.token = u, !.gone = None, !.owner = w]
      BY <2>2, SeatTypes, Zenon
    <3> QED
      BY <3>1, Zenon
  <2> QED
    BY <2>1, <2>3, Zenon
<1>2. /\ p.token = t /\ p.gone = None /\ p.owner = pod
      /\ p.creator = r.players[s].creator
  <2>1. r.players[s] \in SeatRecord
    BY RoomTypeFacts DEF Typed
  <2> QED
    BY <1>1, <2>1 DEF SeatRecord
<1>3. PICK n : n = [r EXCEPT !.players[s] = p]
  OBVIOUS
<1>4. RoomType(n) /\ OnlySeat(n, r, s, p)
  BY <1>3, ExceptSeat DEF Typed
<1>5. q = [n EXCEPT !.deserted = None]
  BY <1>1, <1>3 DEF RestoreSeat
<1>6. /\ q.disconnected = r.disconnected /\ q.players = n.players
      /\ q.ready = n.ready /\ q.phase = r.phase /\ q.public = r.public /\ q \in Room
  BY <1>4, <1>5 DEF RoomType, Room, OnlySeat
<1>7. Typed(q)
  BY <1>4, <1>6 DEF Typed, RoomType, IsSeat, OnlySeat
<1>8. /\ Len(q.players) = Len(r.players) /\ q.players[s] = p
      /\ \A i \in 1..Len(r.players) : i # s => q.players[i] = r.players[i]
  BY <1>4, <1>6 DEF OnlySeat
<1>9. TokensOf(q) \subseteq TokensOf(r) \cup {t}
  BY <1>2, <1>6, <1>8 DEF TokensOf
<1> QED
  BY <1>1, <1>2, <1>6, <1>7, <1>8, <1>9

\* Seats and entries stay in order if the token belongs to the seat.
LEMMA RestoreSeatSound ==
    ASSUME NEW r, Typed(r), Sound(r), NEW s \in 1..Len(r.players),
           NEW t \in Token, NEW pod \in Pod, NEW q, q = RestoreSeat(r, s, t, pod),
           \A e \in r.disconnected : e.token = t \/ e.seat = s => e.token = t /\ e.seat = s,
           \A i \in 1..Len(r.players) : r.players[i].token = t => i = s
    PROVE  Sound(q)
<1>1. /\ Len(q.players) = Len(r.players) /\ q.players[s].token = t
      /\ q.disconnected = r.disconnected
      /\ \A i \in 1..Len(r.players) : i # s => q.players[i] = r.players[i]
  BY RestoreSeatFacts
<1>2. LeadsHome(q)
  BY <1>1 DEF Sound, LeadsHome, IsSeat
<1>3. ASSUME NEW s1 \in 1..Len(q.players), NEW s2 \in 1..Len(q.players),
             Human(q, s1), q.players[s1].token = q.players[s2].token
      PROVE  s1 = s2
  <2>1. CASE s1 = s \/ s2 = s
    BY <1>1, <1>3, <2>1
  <2>2. CASE s1 # s /\ s2 # s
    <3>1. /\ s1 \in 1..Len(r.players) /\ s2 \in 1..Len(r.players)
          /\ r.players[s1].token # None
          /\ r.players[s1].token = r.players[s2].token
      BY <1>1, <1>3, <2>2 DEF Human
    <3> QED
      BY <3>1 DEF Sound, Unmixed, Human, IsSeat
  <2> QED
    BY <2>1, <2>2
<1>4. \A e, f \in q.disconnected : e.token = f.token \/ e.seat = f.seat => e = f
  BY <1>1 DEF Sound, Unmixed
<1>5. ASSUME NEW e \in q.disconnected, NEW i \in 1..Len(q.players),
             e.token = q.players[i].token
      PROVE  e.seat = i
  <2>1. CASE i = s
    BY <1>1, <1>5, <2>1
  <2>2. CASE i # s
    <3>1. i \in 1..Len(r.players) /\ e \in r.disconnected /\ e.token = r.players[i].token
      BY <1>1, <1>5, <2>2
    <3> QED
      BY <3>1 DEF Sound, Unmixed
  <2> QED
    BY <2>1, <2>2
<1> QED
  BY <1>2, <1>3, <1>4, <1>5 DEF Sound, Unmixed

\* Somebody came back by entry e of the room.
BackBy(q, r, e) ==
    /\ Keeps(q, r) /\ Len(q.players) = Len(r.players)
    /\ e.seat \in 1..Len(r.players) /\ e.seat \in 1..4 /\ e.token \in Token
    /\ q.players[e.seat].token = e.token /\ q.players[e.seat].gone = None
    /\ q.players[e.seat].creator = r.players[e.seat].creator
    /\ \A i \in 1..Len(r.players) : i # e.seat => q.players[i] = r.players[i]
    /\ q.disconnected = r.disconnected \ {e}
    /\ q.phase = r.phase /\ q.public = r.public

\* Whoever comes back by an entry sits where the entry leads.
LEMMA RejoinKeeps ==
    ASSUME NEW r, Typed(r), NEW e \in r.disconnected, NEW pod \in Pod,
           NEW q, q = RestoreSeat([r EXCEPT !.disconnected = @ \ {e}], e.seat, e.token, pod)
    PROVE  BackBy(q, r, e)
<1>1. PICK s, t : s = e.seat /\ t = e.token
  OBVIOUS
<1>2. s \in 1..Len(r.players) /\ s \in 1..4 /\ t \in Token
  BY <1>1, RoomTypeFacts DEF Typed, IsSeat, Entry, MaxSeats
<1>3. PICK m : m = [r EXCEPT !.disconnected = r.disconnected \ {e}]
  OBVIOUS
<1>4. /\ Keeps(m, r) /\ m.players = r.players /\ m.disconnected = r.disconnected \ {e}
      /\ m.phase = r.phase /\ m.public = r.public
  BY <1>3, FewerEntries
<1>5. q = RestoreSeat(m, s, t, pod)
  BY <1>1, <1>3
<1>6. s \in 1..Len(m.players) /\ Typed(m)
  BY <1>2, <1>4 DEF Keeps
<1>7. /\ Typed(q) /\ TokensOf(q) \subseteq TokensOf(m) \cup {t}
      /\ Len(q.players) = Len(m.players)
      /\ q.players[s].token = t /\ q.players[s].gone = None
      /\ q.players[s].creator = m.players[s].creator
      /\ \A i \in 1..Len(m.players) : i # s => q.players[i] = m.players[i]
      /\ q.disconnected = m.disconnected /\ q.phase = m.phase /\ q.public = m.public
  <2>1. ASSUME NEW p, p = RestoreSeat(m, s, t, pod)
        PROVE  /\ Typed(p) /\ TokensOf(p) \subseteq TokensOf(m) \cup {t}
               /\ Len(p.players) = Len(m.players)
               /\ p.players[s].token = t /\ p.players[s].gone = None
               /\ p.players[s].creator = m.players[s].creator
               /\ \A i \in 1..Len(m.players) : i # s => p.players[i] = m.players[i]
               /\ p.disconnected = m.disconnected /\ p.phase = m.phase /\ p.public = m.public
    BY <1>2, <1>6, <2>1, RestoreSeatFacts
  <2> QED
    BY <1>5, <2>1
<1>8. t \in TokensOf(r)
  BY <1>1, <1>2 DEF TokensOf
<1>9. ASSUME Sound(r)
      PROVE  Sound(q)
  <2>1. \A f \in m.disconnected : f.token # t /\ f.seat # s
    BY <1>1, <1>4, <1>9 DEF Sound, Unmixed
  <2>2. \A i \in 1..Len(m.players) : m.players[i].token = t => i = s
    BY <1>1, <1>4, <1>9 DEF Sound, Unmixed
  <2>3. Sound(m)
    BY <1>4, <1>9 DEF Keeps
  <2> QED
    BY <1>2, <1>5, <1>6, <2>1, <2>2, <2>3, RestoreSeatSound
<1>10. Keeps(q, r)
  BY <1>4, <1>7, <1>8, <1>9 DEF Keeps
<1> QED
  BY <1>1, <1>2, <1>4, <1>7, <1>10 DEF BackBy

-----------------------------------------------------------------------------
(* Compaction: seat j of the compacted room was seat OldSeat(j, s).        *)

OldSeat(j, s) == IF j < s THEN j ELSE j + 1

\* Entry e of S was entry F[e] of D before seat s, of n, was taken out.
MovedFrom(F, S, D, s, n) ==
    /\ F \in [S -> D]
    /\ \A e \in S : /\ e \in Entry /\ e.token = F[e].token
                    /\ e.seat \in 1..(n - 1) /\ OldSeat(e.seat, s) = F[e].seat
                    /\ \A g \in S : F[g] = F[e] => g = e

\* An entry behind the seat moves along with its seat.
LEMMA ShiftedEntry ==
    ASSUME NEW D \in SUBSET Entry, NEW n \in 0..4, NEW s \in 1..n,
           \A f \in D : f.seat \in 1..n,
           NEW S, S = ShiftEntries(D, s)
    PROVE  \E F : MovedFrom(F, S, D, s, n)
<1> DEFINE NewNumber(f) == IF f.seat > s THEN f.seat - 1 ELSE f.seat
           Shifted(f) == [f EXCEPT !.seat = NewNumber(f)]
           F == [e \in S |-> CHOOSE f \in D : f.seat # s /\ e = Shifted(f)]
<1>1. \A e \in S : \E f \in D : f.seat # s /\ e = Shifted(f)
  BY DEF ShiftEntries
<1>2. \A e \in S : F[e] \in D /\ F[e].seat # s /\ e = Shifted(F[e])
  BY <1>1
<1>3. ASSUME NEW f \in D, f.seat # s
      PROVE  /\ Shifted(f) \in Entry /\ Shifted(f).token = f.token
             /\ Shifted(f).seat \in 1..(n - 1) /\ OldSeat(Shifted(f).seat, s) = f.seat
  <2>1. f \in Entry /\ f.seat \in 1..n /\ f.seat # s
    BY <1>3
  <2>2. NewNumber(f) \in 1..(n - 1) /\ OldSeat(NewNumber(f), s) = f.seat
    BY <2>1 DEF OldSeat
  <2>3. NewNumber(f) \in 1..4
    BY <2>2
  <2> HIDE DEF NewNumber
  <2>4. Shifted(f) \in Entry /\ Shifted(f).token = f.token /\ Shifted(f).seat = NewNumber(f)
    BY <2>1, <2>3 DEF Entry, MaxSeats
  <2> QED
    BY <2>2, <2>4
<1>4. F \in [S -> D]
  BY <1>2
<1> HIDE DEF F, Shifted
<1> QED
  BY <1>2, <1>3, <1>4 DEF MovedFrom

LEMMA RemoveSeatFacts ==
    ASSUME NEW r, Typed(r), NEW s \in 1..Len(r.players), NEW q, q = RemoveSeat(r, s)
    PROVE  /\ RoomType(q) /\ Len(q.players) = Len(r.players) - 1
           /\ \A j \in 1..Len(q.players) :
                 /\ OldSeat(j, s) \in 1..Len(r.players)
                 /\ q.players[j] = r.players[OldSeat(j, s)]
           /\ q.phase = r.phase /\ q.public = r.public
           /\ q.disconnected = ShiftEntries(r.disconnected, s)
<1>1. RoomType(r)
  BY DEF Typed
<1>2. PICK n \in 0..4 : Len(r.players) = n
  BY <1>1, RoomTypeFacts
<1>3. r.players \in Seq(SeatRecord) /\ r.ready \in Seq(BOOLEAN) /\ Len(r.ready) = n
  BY <1>1, <1>2, RoomTypeFacts
<1>4. PICK ps : ps = RemoveAt(r.players, s)
  OBVIOUS
<1>5. /\ ps \in Seq(SeatRecord) /\ Len(ps) = n - 1
      /\ \A j \in 1..(n - 1) : ps[j] = IF j < s THEN r.players[j] ELSE r.players[j + 1]
  BY <1>2, <1>3, <1>4, RemoveAtProperties
<1>6. PICK rs : rs = RemoveAt(r.ready, s)
  OBVIOUS
<1>7. rs \in Seq(BOOLEAN) /\ Len(rs) = n - 1
  BY <1>2, <1>3, <1>6, RemoveAtProperties
<1>8. PICK D : D = ShiftEntries(r.disconnected, s)
  OBVIOUS
<1>9. D \subseteq Entry
  <2>1. r.disconnected \in SUBSET Entry /\ s \in 1..n
    BY <1>1, <1>2, RoomTypeFacts
  <2>2. \A f \in r.disconnected : f.seat \in 1..n
    BY <1>2 DEF Typed, IsSeat
  <2>3. \E F : MovedFrom(F, D, r.disconnected, s, n)
    BY <1>8, <2>1, <2>2, ShiftedEntry
  <2> QED
    BY <2>3 DEF MovedFrom
<1>10. q = [r EXCEPT !.players = ps, !.ready = rs, !.disconnected = D]
  BY <1>4, <1>6, <1>8 DEF RemoveSeat
<1>11. r \in Room
  BY <1>1 DEF RoomType
<1>12. /\ q.players = ps /\ q.ready = rs /\ q.disconnected = D /\ q.phase = r.phase
       /\ q.public = r.public /\ q \in Room
  <2>1. ps \in Seq(SeatRecord) /\ rs \in Seq(BOOLEAN) /\ D \in SUBSET Entry
    BY <1>5, <1>7, <1>9
  <2>2. /\ q.players = ps /\ q.ready = rs /\ q.disconnected = D
        /\ q.phase = r.phase /\ q.public = r.public
    BY <1>10, <1>11 DEF Room
  <2>3. q \in Room
    BY <1>10, <1>11, <2>1 DEF Room
  <2> QED
    BY <2>2, <2>3
<1>13. RoomType(q)
  BY <1>2, <1>5, <1>7, <1>12 DEF RoomType, MaxSeats
<1>14. \A j \in 1..(n - 1) : OldSeat(j, s) \in 1..n /\ ps[j] = r.players[OldSeat(j, s)]
  BY <1>2, <1>5 DEF OldSeat
<1> QED
  BY <1>2, <1>5, <1>8, <1>12, <1>13, <1>14

LEMMA RemoveSeatKeeps ==
    ASSUME NEW r, Typed(r), NEW s \in 1..Len(r.players), NEW q, q = RemoveSeat(r, s)
    PROVE  Keeps(q, r)
<1>1. PICK n \in 0..4 : Len(r.players) = n
  BY RoomTypeFacts DEF Typed
<1>2. /\ RoomType(q) /\ Len(q.players) = n - 1 /\ q.phase = r.phase
      /\ q.disconnected = ShiftEntries(r.disconnected, s)
  BY <1>1, RemoveSeatFacts
<1>3. \A j \in 1..(n - 1) :
         OldSeat(j, s) \in 1..n /\ q.players[j] = r.players[OldSeat(j, s)]
  BY <1>1, <1>2, RemoveSeatFacts
<1>0. PICK F : MovedFrom(F, q.disconnected, r.disconnected, s, n)
  <2>1. r.disconnected \in SUBSET Entry /\ s \in 1..n
    BY <1>1, RoomTypeFacts DEF Typed
  <2>2. \A f \in r.disconnected : f.seat \in 1..n
    BY <1>1 DEF Typed, IsSeat
  <2>3. PICK D : D = r.disconnected
    OBVIOUS
  <2>4. PICK S : S = q.disconnected
    OBVIOUS
  <2>5. D \in SUBSET Entry /\ (\A f \in D : f.seat \in 1..n) /\ S = ShiftEntries(D, s)
    BY <1>2, <2>1, <2>2, <2>3, <2>4
  <2>6. \E F : MovedFrom(F, S, D, s, n)
    BY <2>1, <2>5, ShiftedEntry
  <2> QED
    BY <2>3, <2>4, <2>6
<1>4. \A e \in q.disconnected :
         /\ F[e] \in r.disconnected /\ e.token = F[e].token
         /\ e.seat \in 1..(n - 1) /\ OldSeat(e.seat, s) = F[e].seat
         /\ \A g \in q.disconnected : F[g] = F[e] => g = e
  BY <1>0 DEF MovedFrom
<1>5. \A i, j \in 1..(n - 1) : OldSeat(i, s) = OldSeat(j, s) => i = j
  BY <1>1 DEF OldSeat
<1>6. ASSUME Sound(r)
      PROVE  LeadsHome(q)
  <2>1. ASSUME NEW e \in q.disconnected
        PROVE  /\ e.seat \in 1..Len(q.players)
               /\ q.players[e.seat].token \in {e.token, None}
    <3>1. F[e] \in r.disconnected /\ e.seat \in 1..(n - 1)
      BY <1>4
    <3>2. r.players[F[e].seat].token \in {F[e].token, None}
      BY <1>6, <3>1 DEF Sound, LeadsHome
    <3>3. q.players[e.seat] = r.players[F[e].seat] /\ e.token = F[e].token
      BY <1>3, <1>4, <3>1
    <3> QED
      BY <1>2, <3>1, <3>2, <3>3
  <2> QED
    BY <2>1 DEF LeadsHome, IsSeat
<1>7. ASSUME Sound(r)
      PROVE  Unmixed(q)
  <2>1. ASSUME NEW s1 \in 1..Len(q.players), NEW s2 \in 1..Len(q.players),
               Human(q, s1), q.players[s1].token = q.players[s2].token
        PROVE  s1 = s2
    <3>1. /\ r.players[OldSeat(s1, s)].token # None
          /\ r.players[OldSeat(s1, s)].token = r.players[OldSeat(s2, s)].token
          /\ OldSeat(s1, s) \in 1..n /\ OldSeat(s2, s) \in 1..n
      BY <1>2, <1>3, <2>1 DEF Human
    <3>2. OldSeat(s1, s) = OldSeat(s2, s)
      BY <1>1, <1>7, <3>1 DEF Sound, Unmixed, Human, IsSeat
    <3> QED
      BY <1>2, <1>5, <3>2
  <2>2. ASSUME NEW e \in q.disconnected, NEW f \in q.disconnected,
               e.token = f.token \/ e.seat = f.seat
        PROVE  e = f
    <3>1. F[e].token = F[f].token \/ F[e].seat = F[f].seat
      BY <1>4, <2>2
    <3>2. F[e] \in r.disconnected /\ F[f] \in r.disconnected
      BY <1>4
    <3>3. F[e] = F[f]
      BY <1>7, <3>1, <3>2 DEF Sound, Unmixed
    <3> QED
      BY <1>4, <3>3
  <2>3. ASSUME NEW e \in q.disconnected, NEW i \in 1..Len(q.players),
               e.token = q.players[i].token
        PROVE  e.seat = i
    <3>1. /\ F[e] \in r.disconnected /\ OldSeat(i, s) \in 1..n
          /\ F[e].token = r.players[OldSeat(i, s)].token
      BY <1>2, <1>3, <1>4, <2>3
    <3>2. F[e].seat = OldSeat(i, s)
      BY <1>1, <1>7, <3>1 DEF Sound, Unmixed
    <3> QED
      BY <1>2, <1>4, <1>5, <3>2
  <2> QED
    BY <2>1, <2>2, <2>3 DEF Unmixed
<1>8. TokensOf(q) \subseteq TokensOf(r)
  <2>1. ASSUME NEW i \in 1..Len(q.players)
        PROVE  \E j \in 1..Len(r.players) : q.players[i].token = r.players[j].token
    BY <1>1, <1>2, <1>3
  <2>2. ASSUME NEW e \in q.disconnected
        PROVE  \E f \in r.disconnected : e.token = f.token
    BY <1>4
  <2>3. ASSUME NEW t \in TokensOf(q)
        PROVE  t \in TokensOf(r)
    <3>1. /\ t \in Token
          /\ \/ \E i \in 1..Len(q.players) : q.players[i].token = t
             \/ \E e \in q.disconnected : e.token = t
      BY Zenon DEF TokensOf
    <3>2. \/ \E j \in 1..Len(r.players) : r.players[j].token = t
          \/ \E f \in r.disconnected : f.token = t
      <4>1. CASE \E i \in 1..Len(q.players) : q.players[i].token = t
        BY <2>1, <4>1, Zenon
      <4>2. CASE \E e \in q.disconnected : e.token = t
        BY <2>2, <4>2, Zenon
      <4> QED
        BY <3>1, <4>1, <4>2
    <3> QED
      BY <3>1, <3>2, Zenon DEF TokensOf
  <2> QED
    BY <2>3
<1>9. Typed(q)
  BY <1>2, <1>4 DEF Typed, IsSeat
<1> QED
  BY <1>6, <1>7, <1>8, <1>9 DEF Keeps, Sound

-----------------------------------------------------------------------------
(* Who is connected, and who of them wears a crown.                        *)

PresentSeats(r) == {r.players[s] : s \in {i \in 1..Len(r.players) : Present(r, i)}}

\* Whom the properties ask for is told by these records alone.
LEMMA PresentFacts ==
    ASSUME NEW r
    PROVE  /\ HasConnectedHuman(r) <=> PresentSeats(r) # {}
           /\ HasHost(r) <=> \E p \in PresentSeats(r) : p.creator
           /\ PresentTokens(r) = {p.token : p \in PresentSeats(r)}
<1>1. HasConnectedHuman(r) <=> PresentSeats(r) # {}
  BY DEF HasConnectedHuman, PresentSeats
<1>2. HasHost(r) <=> \E p \in PresentSeats(r) : p.creator
  BY DEF HasHost, PresentSeats
<1>3. PresentTokens(r) = {p.token : p \in PresentSeats(r)}
  BY DEF PresentTokens, PresentSeats
<1> QED
  BY <1>1, <1>2, <1>3

LEMMA SamePlayersPresent ==
    ASSUME NEW r, NEW q, q.players = r.players
    PROVE  /\ PresentSeats(q) = PresentSeats(r)
           /\ HasConnectedHuman(q) <=> HasConnectedHuman(r)
BY DEF PresentSeats, HasConnectedHuman, Present, Human, IsSeat

LEMMA RemoveSeatPresent ==
    ASSUME NEW r, Typed(r), NEW s \in 1..Len(r.players), NEW q, q = RemoveSeat(r, s)
    PROVE  /\ PresentSeats(q) \subseteq PresentSeats(r)
           /\ \A i \in 1..Len(r.players) :
                 i # s /\ Present(r, i) => r.players[i] \in PresentSeats(q)
<1>1. PICK n \in 0..4 : Len(r.players) = n
  BY RoomTypeFacts DEF Typed
<1>2. /\ Len(q.players) = n - 1
      /\ \A j \in 1..(n - 1) :
            OldSeat(j, s) \in 1..n /\ q.players[j] = r.players[OldSeat(j, s)]
  BY <1>1, RemoveSeatFacts
<1>3. ASSUME NEW j \in 1..Len(q.players), Present(q, j)
      PROVE  q.players[j] \in PresentSeats(r)
  <2>1. /\ OldSeat(j, s) \in 1..Len(r.players)
        /\ q.players[j] = r.players[OldSeat(j, s)]
    BY <1>1, <1>2
  <2>2. Present(r, OldSeat(j, s))
    BY <1>3, <2>1 DEF Present, Human, IsSeat
  <2> QED
    BY <2>1, <2>2 DEF PresentSeats
<1>4. ASSUME NEW i \in 1..Len(r.players), i # s, Present(r, i)
      PROVE  r.players[i] \in PresentSeats(q)
  <2>1. PICK j \in 1..(n - 1) : OldSeat(j, s) = i
    <3>1. CASE i < s
      BY <1>1, <3>1 DEF OldSeat
    <3>2. CASE i > s
      <4>1. i - 1 \in 1..(n - 1) /\ OldSeat(i - 1, s) = i
        BY <1>1, <3>2 DEF OldSeat
      <4> QED
        BY <4>1
    <3> QED
      BY <1>1, <1>4, <3>1, <3>2
  <2>2. j \in 1..Len(q.players) /\ q.players[j] = r.players[i] /\ Present(q, j)
    BY <1>2, <1>4, <2>1 DEF Present, Human, IsSeat
  <2> QED
    BY <2>2 DEF PresentSeats
<1>5. PresentSeats(q) \subseteq PresentSeats(r)
  BY <1>3 DEF PresentSeats
<1> QED
  BY <1>4, <1>5

LEMMA FillWithBotsPresent ==
    ASSUME NEW r, Typed(r), NEW q, q = FillWithBots(r)
    PROVE  /\ PresentSeats(r) \subseteq PresentSeats(q)
           /\ q.phase = "Started" /\ Len(q.players) = 4
           /\ \A i \in 1..Len(q.players) :
                 q.players[i].token # None
                 => i \in 1..Len(r.players) /\ q.players[i] = r.players[i]
<1>1. PICK n \in 0..4 : Len(r.players) = n
  BY RoomTypeFacts DEF Typed
<1> DEFINE ps == [i \in 1..4 |-> IF i \in 1..n THEN r.players[i] ELSE Bot]
<1>2. q.players = ps /\ q.phase = "Started"
  BY <1>1 DEF FillWithBots, IsSeat, MaxSeats, Typed, RoomType, Room
<1>3. Len(ps) = 4
  <2>1. ps \in [1..4 -> {ps[i] : i \in 1..4}]
    OBVIOUS
  <2> HIDE DEF ps
  <2> QED
    BY <2>1, FunctionIsSeq
<1>4. \A i \in 1..4 : ps[i] = IF i \in 1..n THEN r.players[i] ELSE Bot
  OBVIOUS
<1>5. Bot.token = None /\ 1..n \subseteq 1..4
  BY DEF Bot, NewSeat
<1> HIDE DEF ps
<1>6. PresentSeats(r) \subseteq PresentSeats(q)
  BY <1>1, <1>2, <1>3, <1>4, <1>5 DEF PresentSeats, Present, Human, IsSeat
<1> QED
  BY <1>1, <1>2, <1>3, <1>4, <1>5, <1>6

-----------------------------------------------------------------------------
(* Time, and stale seats.                                                  *)

\* Time moves neither seats nor entries.
LEMMA AgeRoomFacts ==
    ASSUME NEW r, Typed(r), NEW q, q = AgeRoom(r)
    PROVE  /\ Keeps(q, r) /\ q.phase = r.phase /\ q.public = r.public
           /\ Len(q.players) = Len(r.players)
           /\ \A s \in 1..Len(r.players) :
                 /\ q.players[s].token = r.players[s].token
                 /\ q.players[s].gone = None <=> r.players[s].gone = None
                 /\ q.players[s].creator = r.players[s].creator
<1>1. PICK n \in 0..4 : Len(r.players) = n
  BY RoomTypeFacts DEF Typed
<1>2. \A a \in Age \cup {None} : Older(a) \in Age \cup {None}
  BY TimeoutAssumption, NoneAssumption DEF Age, Older
<1>3. \A a \in Age : Older(a) \in Age
  BY TimeoutAssumption, NoneAssumption DEF Age, Older
<1> DEFINE ps == [s \in 1..n |-> OlderSeat(r.players[s])]
           D  == {[e EXCEPT !.age = Older(@)] : e \in r.disconnected}
<1>0. \A a \in Age \cup {None} : Older(a) = None <=> a = None
  BY TimeoutAssumption, NoneAssumption DEF Age, Older
<1> DEFINE Same(x, y) == /\ x.token = y.token /\ (x.gone = None <=> y.gone = None)
                         /\ x.creator = y.creator
<1>4. /\ ps \in Seq(SeatRecord) /\ Len(ps) = n
      /\ \A s \in 1..n : Same(ps[s], r.players[s])
  <2>1. \A s \in 1..n : r.players[s] \in SeatRecord
    BY <1>1, RoomTypeFacts DEF Typed
  <2>2. ASSUME NEW p \in SeatRecord
        PROVE  OlderSeat(p) \in SeatRecord /\ Same(OlderSeat(p), p)
    <3>1. p.gone \in Age \cup {None}
      BY DEF SeatRecord
    <3>2. PICK a \in Age \cup {None} : a = Older(p.gone) /\ (a = None <=> p.gone = None)
      BY <1>0, <1>2, <3>1
    <3>3. OlderSeat(p) = [p EXCEPT !.gone = a]
      BY <3>2 DEF OlderSeat
    <3>4. [p EXCEPT !.gone = a] \in SeatRecord
      BY DEF SeatRecord
    <3>5. Same([p EXCEPT !.gone = a], p)
      BY <3>2 DEF SeatRecord
    <3> QED
      BY <3>3, <3>4, <3>5
  <2> HIDE DEF Same
  <2>3. ps \in [1..n -> SeatRecord] /\ \A s \in 1..n : Same(ps[s], r.players[s])
    BY <2>1, <2>2
  <2>4. n \in Nat
    OBVIOUS
  <2> HIDE DEF ps
  <2> QED
    BY <2>3, <2>4, FunctionIsSeq
<1>5. \A e \in D : \E f \in r.disconnected :
         e = [f EXCEPT !.age = Older(@)] /\ e \in Entry /\ e.token = f.token /\ e.seat = f.seat
  <2>1. r.disconnected \subseteq Entry
    BY RoomTypeFacts DEF Typed
  <2>2. ASSUME NEW f \in Entry
        PROVE  LET e == [f EXCEPT !.age = Older(@)]
               IN  e \in Entry /\ e.token = f.token /\ e.seat = f.seat
    <3>1. PICK a \in Age : a = Older(f.age)
      BY <1>3 DEF Entry
    <3> QED
      BY <3>1 DEF Entry
  <2>3. ASSUME NEW e \in D
        PROVE  \E f \in r.disconnected :
                  /\ e = [f EXCEPT !.age = Older(@)] /\ e \in Entry
                  /\ e.token = f.token /\ e.seat = f.seat
    <3>1. PICK f \in r.disconnected : e = [f EXCEPT !.age = Older(@)]
      OBVIOUS
    <3>2. e \in Entry /\ e.token = f.token /\ e.seat = f.seat
      BY <2>1, <2>2, <3>1
    <3> QED
      BY <3>1, <3>2
  <2> HIDE DEF D
  <2> QED
    BY <2>3
<1>6. r \in Room /\ r.deserted \in Age \cup {None}
  BY DEF Typed, RoomType, Room
<1>7. q = [r EXCEPT !.players = ps, !.disconnected = D, !.deserted = Older(r.deserted)]
  <2>1. ps = [s \in 1..Len(r.players) |-> OlderSeat(r.players[s])]
    BY <1>1
  <2>2. q = [r EXCEPT
                !.players = [s \in 1..Len(r.players) |-> OlderSeat(r.players[s])],
                !.disconnected = D,
                !.deserted = Older(r.deserted)]
    BY Zenon DEF AgeRoom
  <2> HIDE DEF ps, D
  <2> QED
    BY <2>1, <2>2
<1>8. D \subseteq Entry
  BY <1>5
<1> HIDE DEF ps
<1>9. /\ q.players = ps /\ q.disconnected = D /\ q.ready = r.ready /\ q \in Room
      /\ q.phase = r.phase /\ q.public = r.public
  <2> HIDE DEF D
  <2> QED
    BY <1>2, <1>4, <1>6, <1>7, <1>8 DEF Room
<1>10. RoomType(q)
  BY <1>1, <1>4, <1>9 DEF Typed, RoomType
<1> HIDE DEF D
<1>11. Typed(q)
  BY <1>1, <1>4, <1>5, <1>9, <1>10 DEF Typed, IsSeat
<1>12. ASSUME Sound(r)
       PROVE  Sound(q)
  <2>0. LeadsHome(q)
    BY <1>1, <1>4, <1>5, <1>9, <1>12 DEF Sound, LeadsHome, IsSeat
  <2>1. ASSUME NEW s1 \in 1..Len(q.players), NEW s2 \in 1..Len(q.players),
               Human(q, s1), q.players[s1].token = q.players[s2].token
        PROVE  s1 = s2
    BY <1>1, <1>4, <1>9, <1>12, <2>1 DEF Sound, Unmixed, Human, IsSeat
  <2>2. ASSUME NEW e \in q.disconnected, NEW f \in q.disconnected,
               e.token = f.token \/ e.seat = f.seat
        PROVE  e = f
    <3>1. PICK e0 \in r.disconnected : e = [e0 EXCEPT !.age = Older(@)]
             /\ e.token = e0.token /\ e.seat = e0.seat
      BY <1>5, <1>9
    <3>2. PICK f0 \in r.disconnected : f = [f0 EXCEPT !.age = Older(@)]
             /\ f.token = f0.token /\ f.seat = f0.seat
      BY <1>5, <1>9
    <3>3. e0 = f0
      BY <1>12, <2>2, <3>1, <3>2 DEF Sound, Unmixed
    <3> QED
      BY <3>1, <3>2, <3>3
  <2>3. ASSUME NEW e \in q.disconnected, NEW s \in 1..Len(q.players),
               e.token = q.players[s].token
        PROVE  e.seat = s
    BY <1>1, <1>4, <1>5, <1>9, <1>12, <2>3 DEF Sound, Unmixed
  <2> QED
    BY <2>0, <2>1, <2>2, <2>3 DEF Sound, Unmixed
<1>13. TokensOf(q) \subseteq TokensOf(r)
  BY <1>1, <1>4, <1>5, <1>9 DEF TokensOf
<1> QED
  BY <1>1, <1>4, <1>9, <1>11, <1>12, <1>13 DEF Keeps

LEMMA LowestStale ==
    ASSUME NEW r, RoomType(r), \E s \in 1..Len(r.players) : Stale(r, s)
    PROVE  LET low == CHOOSE s \in 1..Len(r.players) :
                         /\ Stale(r, s)
                         /\ \A i \in 1..(s - 1) : ~Stale(r, i)
           IN  low \in 1..Len(r.players) /\ Stale(r, low)
<1> DEFINE P == {s \in 1..Len(r.players) : Stale(r, s)}
<1>1. P # {} /\ P \subseteq 1..Len(r.players)
  OBVIOUS
<1>2. PICK i \in P : \A j \in 1..(i - 1) : j \in 1..Len(r.players) /\ j \notin P
  <2> HIDE DEF P
  <2> QED
    BY <1>1, FirstSeat
<1> QED
  BY <1>2

\* One room and renumbering come from another by taking out stale seats: nobody
\* who is connected goes.
ReapedFrom(b, a) ==
    /\ Keeps(b.room, a.room)
    /\ PresentSeats(b.room) = PresentSeats(a.room)
    /\ b.room.phase = a.room.phase /\ b.room.public = a.room.public
    /\ Len(b.room.players) <= Len(a.room.players)
    /\ Len(b.room.players) = Len(a.room.players) => b = a

LEMMA ReapOneFacts ==
    ASSUME NEW a, Typed(a.room), NEW b, b = ReapOne(a)
    PROVE  ReapedFrom(b, a)
<1>1. PICK n \in 0..4 : Len(a.room.players) = n
  BY RoomTypeFacts DEF Typed
<1>2. CASE \E s \in 1..Len(a.room.players) : Stale(a.room, s)
  <2>1. PICK low \in 1..Len(a.room.players) :
           /\ b.room = RemoveSeat(a.room, low)
           /\ Stale(a.room, low)
    BY <1>2, LowestStale DEF ReapOne, Typed
  <2>2. Keeps(b.room, a.room)
    BY <2>1, RemoveSeatKeeps
  <2>3. /\ Len(b.room.players) = n - 1
        /\ b.room.phase = a.room.phase /\ b.room.public = a.room.public
    BY <1>1, <2>1, RemoveSeatFacts
  <2>4. ~Present(a.room, low)
    BY <2>1 DEF Stale, Present
  <2>5. PresentSeats(b.room) \subseteq PresentSeats(a.room)
    BY <2>1, RemoveSeatPresent
  <2>6. \A i \in 1..Len(a.room.players) :
           Present(a.room, i) => a.room.players[i] \in PresentSeats(b.room)
    BY <2>1, <2>4, RemoveSeatPresent
  <2>7. PresentSeats(b.room) = PresentSeats(a.room)
    BY <2>5, <2>6 DEF PresentSeats
  <2>8. n - 1 <= n /\ n - 1 # n
    OBVIOUS
  <2> QED
    BY <1>1, <2>2, <2>3, <2>7, <2>8 DEF ReapedFrom
<1>3. CASE ~\E s \in 1..Len(a.room.players) : Stale(a.room, s)
  <2>1. b = a
    BY <1>3, Zenon DEF ReapOne
  <2>2. n <= n
    OBVIOUS
  <2>3. Keeps(a.room, a.room)
    BY DEF Keeps
  <2> QED
    BY <1>1, <2>1, <2>2, <2>3 DEF ReapedFrom
<1> QED
  BY <1>2, <1>3

LEMMA ReapedTwice ==
    ASSUME NEW a, Typed(a.room), NEW b, ReapedFrom(b, a), NEW c, ReapedFrom(c, b)
    PROVE  ReapedFrom(c, a)
<1>1. Keeps(c.room, a.room)
  BY KeepsTwice DEF ReapedFrom
<1>2. PICK n1 \in 0..4, n2 \in 0..4, n3 \in 0..4 :
         /\ Len(a.room.players) = n1 /\ Len(b.room.players) = n2
         /\ Len(c.room.players) = n3
  BY RoomTypeFacts DEF ReapedFrom, Keeps, Typed
<1>3. n2 <= n1 /\ n3 <= n2 /\ (n2 = n1 => b = a) /\ (n3 = n2 => c = b)
  BY <1>2 DEF ReapedFrom
<1>4. n3 <= n1 /\ (n3 = n1 => n2 = n1 /\ n3 = n2)
  BY <1>3
<1> QED
  BY <1>1, <1>2, <1>3, <1>4 DEF ReapedFrom

IsOutcome(a) == \E x, y : a = [room |-> x, renumbered |-> y]

LEMMA ReapStaleOutcome ==
    ASSUME NEW r
    PROVE  IsOutcome(ReapStale(r))
<1>1. ASSUME NEW a, IsOutcome(a)
      PROVE  IsOutcome(ReapOne(a))
  <2> DEFINE low == CHOOSE s \in 1..Len(a.room.players) :
                       /\ Stale(a.room, s)
                       /\ \A i \in 1..(s - 1) : ~Stale(a.room, i)
             next == [room |-> RemoveSeat(a.room, low),
                      renumbered |-> Extend(a.renumbered, SeatsBehind(a.room, low))]
  <2>1. IsOutcome(next)
    BY DEF IsOutcome
  <2>2. ReapOne(a) = next \/ ReapOne(a) = a
    BY DEF ReapOne
  <2> HIDE DEF next
  <2> QED
    BY <1>1, <2>1, <2>2
<1>2. PICK a : a = [room |-> r, renumbered |-> <<>>]
  OBVIOUS
<1>3. IsOutcome(a)
  BY <1>2 DEF IsOutcome
<1>4. ReapStale(r) = ReapOne(ReapOne(ReapOne(ReapOne(a))))
  BY <1>2 DEF ReapStale
<1> QED
  BY <1>1, <1>3, <1>4

LEMMA ReapStaleFacts ==
    ASSUME NEW r, Typed(r), NEW b, b = ReapStale(r)
    PROVE  ReapedFrom(b, Outcome(r)) /\ IsOutcome(b)
<1>1. PICK a0 : a0 = [room |-> r, renumbered |-> <<>>]
  OBVIOUS
<1>0. a0.room = r /\ a0 = Outcome(r)
  BY <1>1 DEF Outcome
<1>2. PICK a1, a2, a3 : a1 = ReapOne(a0) /\ a2 = ReapOne(a1) /\ a3 = ReapOne(a2)
  OBVIOUS
<1>3. b = ReapOne(a3)
  BY <1>1, <1>2 DEF ReapStale
<1>4. ReapedFrom(a1, a0)
  BY <1>0, <1>2, ReapOneFacts
<1>5. ReapedFrom(a2, a1)
  BY <1>2, <1>4, ReapOneFacts DEF ReapedFrom, Keeps
<1>6. ReapedFrom(a3, a2)
  BY <1>2, <1>5, ReapOneFacts DEF ReapedFrom, Keeps
<1>7. ReapedFrom(b, a3)
  BY <1>3, <1>6, ReapOneFacts DEF ReapedFrom, Keeps
<1>8. ReapedFrom(a2, a0)
  BY <1>0, <1>4, <1>5, ReapedTwice
<1>9. ReapedFrom(a3, a0)
  BY <1>0, <1>6, <1>8, ReapedTwice
<1>10. ReapedFrom(b, a0)
  BY <1>0, <1>7, <1>9, ReapedTwice
<1> QED
  BY <1>0, <1>10, ReapStaleOutcome

-----------------------------------------------------------------------------
(* Whole steps.                                                            *)

LEMMA GoneRoomKeeps ==
    ASSUME NEW r
    PROVE  Keeps(GoneRoom, r) /\ Keeps(NoRoom, r) /\ Good(GoneRoom) /\ Good(NoRoom)
<1>1. /\ NoRoom.players = <<>> /\ NoRoom.ready = <<>> /\ NoRoom.disconnected = {}
      /\ NoRoom.deserted = None /\ NoRoom.public = FALSE /\ NoRoom \in Room
  BY DEF NoRoom, Room
<1>2. /\ GoneRoom.players = <<>> /\ GoneRoom.ready = <<>> /\ GoneRoom.disconnected = {}
      /\ GoneRoom \in Room
  BY <1>1 DEF GoneRoom, NoRoom, Room
<1>3. Len(<<>>) = 0 /\ 1..0 = {}
  OBVIOUS
<1>4. ASSUME NEW q \in Room, q.players = <<>>, q.ready = <<>>, q.disconnected = {}
      PROVE  Keeps(q, r) /\ Good(q)
  <2>1. Typed(q)
    BY <1>3, <1>4 DEF Typed, RoomType, MaxSeats
  <2>2. Sound(q) /\ TokensOf(q) = {}
    BY <1>3, <1>4 DEF Sound, LeadsHome, Unmixed, TokensOf
  <2> QED
    BY <2>1, <2>2 DEF Keeps, Good
<1> QED
  BY <1>1, <1>2, <1>4

LEMMA GoneRoomFacts ==
    /\ GoneRoom.phase = "Gone" /\ GoneRoom.players = <<>> /\ Len(GoneRoom.players) = 0
    /\ NoRoom.phase = "None" /\ NoRoom.players = <<>> /\ Len(NoRoom.players) = 0
    /\ Outcome(GoneRoom).room = GoneRoom /\ Outcome(GoneRoom).renumbered = <<>>
BY DEF GoneRoom, NoRoom, Outcome

\* Of those connected only the human of token t goes, and a lobby with a host
\* has one after it, as long as somebody is left to be it.
Goes(q, r, t) ==
    /\ PresentTokens(r) \subseteq PresentTokens(q) \cup {t}
    /\ r.phase = "Lobby" /\ HasHost(r) /\ HasConnectedHuman(q) => HasHost(q)

LEMMA SameGoes ==
    ASSUME NEW p, NEW q, PresentSeats(p) = PresentSeats(q), NEW r, NEW t, Goes(q, r, t)
    PROVE  Goes(p, r, t)
<1>1. /\ HasConnectedHuman(p) <=> HasConnectedHuman(q)
      /\ HasHost(p) <=> HasHost(q)
      /\ PresentTokens(p) = PresentTokens(q)
  BY PresentFacts
<1> QED
  BY <1>1 DEF Goes

\* A change to one seat, which may stay connected or not.
LEMMA OnlySeatGoes ==
    ASSUME NEW r, NEW s \in 1..Len(r.players), NEW q, NEW p, OnlySeat(q, r, s, p),
           r.phase # "Lobby" \/ ~Human(r, s)
    PROVE  Goes(q, r, r.players[s].token)
<1>1. \A i \in 1..Len(r.players) :
         i # s /\ Present(r, i)
         => Present(q, i) /\ i \in 1..Len(q.players) /\ q.players[i] = r.players[i]
  BY DEF OnlySeat, Present, Human, IsSeat
<1>2. PresentTokens(r) \subseteq PresentTokens(q) \cup {r.players[s].token}
  BY <1>1 DEF PresentTokens
<1>3. ~Human(r, s) /\ HasHost(r) => HasHost(q)
  BY <1>1 DEF HasHost, Present
<1> QED
  BY <1>2, <1>3 DEF Goes

\* The first half of apply_seat_disconnect in the lobby.
LEMMA PassedOnFacts ==
    ASSUME NEW r, Typed(r), NEW s \in 1..Len(r.players), Human(r, s),
           NEW t, t = r.players[s].token,
           NEW q, q = PassCrownOn(Disconnect(AddDisconnected(r, s, t), s), s)
    PROVE  /\ Keeps(q, r) /\ Goes(q, r, t)
           /\ q.phase = r.phase /\ q.public = r.public
           /\ Len(q.players) = Len(r.players) /\ q.players[s].token = t
           /\ \A i \in 1..Len(r.players) : i # s => SameHolder(q.players[i], r.players[i])
           /\ \A e \in q.disconnected : e \in r.disconnected \/ (e.seat = s /\ e.token = t)
<1>1. PICK kept : kept = AddDisconnected(r, s, t)
  OBVIOUS
<1>2. /\ Keeps(kept, r) /\ kept.players = r.players
      /\ kept.phase = r.phase /\ kept.public = r.public
      /\ \A e \in kept.disconnected : e \in r.disconnected \/ (e.seat = s /\ e.token = t)
  BY <1>1, AddDisconnectedKeeps
<1>3. s \in 1..Len(kept.players) /\ RoomType(kept) /\ Typed(kept)
  BY <1>2 DEF Keeps, Typed
<1>4. PICK away : away = Disconnect(kept, s)
  OBVIOUS
<1>5. PICK p : /\ OnlySeat(away, kept, s, p)
               /\ p.token = t /\ p.gone = 0 /\ p.creator = r.players[s].creator
  BY <1>2, <1>3, <1>4, DisconnectFacts
<1>6. RoomType(away) /\ SameSeats(away, kept)
  BY <1>3, <1>4, DisconnectFacts
<1>7. Keeps(away, kept) /\ s \in 1..Len(away.players)
  BY <1>3, <1>6, SameSeatsKeep DEF SameSeats
<1>8. q = PassCrownOn(away, s)
  BY <1>1, <1>4
<1>9. RoomType(q) /\ CrownPasses(q, away, s) /\ SameSeats(q, away)
  BY <1>6, <1>7, <1>8, PassCrownOnFacts
<1>10. Keeps(q, away)
  BY <1>7, <1>9, SameSeatsKeep DEF Keeps
<1>11. Keeps(q, r)
  BY <1>2, <1>7, <1>10, KeepsTwice
<1>12. /\ Len(away.players) = Len(r.players) /\ away.players[s] = p
       /\ \A i \in 1..Len(r.players) : i # s => away.players[i] = r.players[i]
       /\ away.disconnected = kept.disconnected
       /\ away.phase = r.phase /\ away.public = r.public
  BY <1>2, <1>5 DEF OnlySeat
<1>13. /\ Len(q.players) = Len(r.players) /\ q.players[s].token = t /\ q.players[s].gone = 0
       /\ \A i \in 1..Len(r.players) : i # s => SameHolder(q.players[i], r.players[i])
       /\ \A i \in 1..Len(r.players) : i # s /\ r.players[i].creator => q.players[i].creator
       /\ q.disconnected = kept.disconnected /\ q.phase = r.phase /\ q.public = r.public
  <2>1. /\ Len(q.players) = Len(away.players)
        /\ \A i \in 1..Len(away.players) : SameHolder(q.players[i], away.players[i])
        /\ \A i \in 1..Len(away.players) :
              i # s /\ away.players[i].creator => q.players[i].creator
        /\ q.disconnected = away.disconnected /\ q.phase = away.phase
        /\ q.public = away.public
    BY <1>9 DEF CrownPasses
  <2>2. SameHolder(q.players[s], p)
    BY <1>7, <1>12, <2>1
  <2>3. q.players[s].token = t /\ q.players[s].gone = 0
    BY <1>5, <2>2 DEF SameHolder
  <2>4. ASSUME NEW i \in 1..Len(r.players), i # s
        PROVE  /\ SameHolder(q.players[i], r.players[i])
               /\ r.players[i].creator => q.players[i].creator
    BY <1>12, <2>1, <2>4
  <2> QED
    BY <1>12, <2>1, <2>3, <2>4
<1>14. ASSUME NEW i \in 1..Len(r.players), i # s
       PROVE  Present(q, i) <=> Present(r, i)
  <2>1. SameHolder(q.players[i], r.players[i]) /\ i \in 1..Len(q.players)
    BY <1>13, <1>14
  <2> QED
    BY <2>1 DEF Present, Human, IsSeat, SameHolder
<1>15. ~Present(q, s)
  <2>1. q.players[s].gone # None
    <3>1. 0 # None
      BY NoneAssumption
    <3> QED
      BY <1>13, <3>1
  <2> QED
    BY <2>1 DEF Present
<1>16. PresentTokens(r) \subseteq PresentTokens(q) \cup {t}
  <2>1. ASSUME NEW i \in 1..Len(r.players), Present(r, i), r.players[i].token # t
        PROVE  /\ i \in 1..Len(q.players) /\ Present(q, i)
               /\ q.players[i].token = r.players[i].token
    <3>1. i # s
      BY <2>1
    <3>2. SameHolder(q.players[i], r.players[i]) /\ i \in 1..Len(q.players)
      BY <1>13, <3>1
    <3> QED
      BY <1>14, <2>1, <3>1, <3>2 DEF SameHolder
  <2> QED
    BY <2>1 DEF PresentTokens
<1>17. ASSUME HasHost(r), HasConnectedHuman(q)
       PROVE  HasHost(q)
  <2>1. PICK i \in 1..Len(r.players) : Present(r, i) /\ r.players[i].creator
    BY <1>17 DEF HasHost
  <2>2. CASE i # s
    <3>1. Present(q, i) /\ q.players[i].creator /\ i \in 1..Len(q.players)
      BY <1>13, <1>14, <2>1, <2>2
    <3> QED
      BY <3>1 DEF HasHost
  <2>3. CASE i = s
    <3>1. PICK k \in 1..Len(r.players) : Present(q, k) /\ k # s
      BY <1>13, <1>15, <1>17 DEF HasConnectedHuman
    <3>2. Present(away, k)
      <4>1. Present(r, k)
        BY <1>14, <3>1
      <4>2. k \in 1..Len(away.players) /\ away.players[k] = r.players[k]
        BY <1>12, <3>1
      <4> QED
        BY <4>1, <4>2 DEF Present, Human, IsSeat
    <3>3. away.players[s].creator
      BY <1>5, <1>12, <2>1, <2>3
    <3>4. \E j \in 1..Len(away.players) : j # s /\ Present(q, j) /\ q.players[j].creator
      <4>1. k \in 1..Len(away.players) /\ k # s
        BY <1>12, <3>1
      <4> QED
        BY <1>9, <3>2, <3>3, <4>1 DEF CrownPasses
    <3>5. Len(q.players) = Len(away.players)
      BY <1>12, <1>13
    <3> QED
      BY <3>4, <3>5 DEF HasHost
  <2> QED
    BY <2>2, <2>3
<1> QED
  BY <1>2, <1>11, <1>13, <1>16, <1>17 DEF Goes

LEMMA UnlessOrphanedFacts ==
    ASSUME NEW a, Typed(a.room), NEW b, b = UnlessOrphaned(a)
    PROVE  /\ Keeps(b.room, a.room)
           /\ b = a \/ (b = Outcome(GoneRoom) /\ ~HasConnectedHuman(a.room))
<1>1. CASE IsOrphaned(a.room)
  BY <1>1, GoneRoomKeeps, GoneRoomFacts DEF UnlessOrphaned, IsOrphaned
<1>2. CASE ~IsOrphaned(a.room)
  BY <1>2 DEF UnlessOrphaned, Keeps
<1> QED
  BY <1>1, <1>2

\* What a step that takes no seat out does to the seats and entries.
StaysPut(a, r, s) ==
    /\ Len(a.room.players) <= Len(r.players)
    /\ Len(a.room.players) = Len(r.players)
       => /\ DOMAIN a.renumbered = {}
          /\ a.room.players[s].token \in {r.players[s].token, None}
          /\ \A i \in 1..Len(r.players) :
                i # s => SameHolder(a.room.players[i], r.players[i])
          /\ \A e \in a.room.disconnected :
                e \in r.disconnected \/ (e.seat = s /\ e.token = r.players[s].token)

\* The room of an outcome is gone, because its last human is or a creator of a
\* public lobby; or only the human of the seat goes.
Departs(a, r, s) ==
    \/ /\ a = Outcome(GoneRoom)
       /\ Dissolves(r, s) \/ PresentTokens(r) \subseteq {r.players[s].token}
    \/ /\ a.room.phase = r.phase /\ a.room.public = r.public
       /\ Goes(a.room, r, r.players[s].token)

LEMMA OrphanedDeparts ==
    ASSUME NEW r, NEW s, NEW a, Typed(a.room), NEW b, b = UnlessOrphaned(a),
           a.room.phase = r.phase, a.room.public = r.public,
           Goes(a.room, r, r.players[s].token)
    PROVE  Departs(b, r, s)
<1>1. CASE b = a
  BY <1>1 DEF Departs
<1>2. CASE b = Outcome(GoneRoom) /\ ~HasConnectedHuman(a.room)
  <2>1. PresentTokens(a.room) = {}
    BY <1>2, PresentFacts
  <2> QED
    BY <1>2, <2>1 DEF Goes, Departs
<1> QED
  BY <1>1, <1>2, UnlessOrphanedFacts

LEMMA GoneFacts ==
    ASSUME NEW r, Typed(r), NEW s \in 1..Len(r.players), NEW a, a = Outcome(GoneRoom)
    PROVE  Keeps(a.room, r) /\ StaysPut(a, r, s)
<1>1. PICK n \in 0..4 : Len(r.players) = n
  BY RoomTypeFacts DEF Typed
<1>2. a.room = GoneRoom /\ Len(a.room.players) = 0
  BY GoneRoomFacts
<1>3. Keeps(a.room, r)
  BY <1>2, GoneRoomKeeps
<1>4. 0 <= n /\ n # 0
  BY <1>1
<1> QED
  BY <1>1, <1>2, <1>3, <1>4 DEF StaysPut

\* In the lobby: the seat is kept for a while, stale ones go.
LEMMA LobbyDisconnect ==
    ASSUME NEW r, Typed(r), NEW s \in 1..Len(r.players), NEW a, a = SeatDisconnect(r, s),
           Human(r, s), r.phase = "Lobby", ~Dissolves(r, s)
    PROVE  Keeps(a.room, r) /\ Departs(a, r, s) /\ StaysPut(a, r, s)
<1> DEFINE t == r.players[s].token
<1>1. PICK passed :
         passed = PassCrownOn(Disconnect(AddDisconnected(r, s, t), s), s)
  OBVIOUS
<1>2. /\ Keeps(passed, r) /\ Goes(passed, r, t)
      /\ passed.phase = r.phase /\ passed.public = r.public
      /\ Len(passed.players) = Len(r.players) /\ passed.players[s].token = t
      /\ \A i \in 1..Len(r.players) : i # s => SameHolder(passed.players[i], r.players[i])
      /\ \A e \in passed.disconnected : e \in r.disconnected \/ (e.seat = s /\ e.token = t)
  BY <1>1, PassedOnFacts
<1>3. PICK reaped : reaped = ReapStale(passed)
  OBVIOUS
<1>4. ReapedFrom(reaped, Outcome(passed)) /\ IsOutcome(reaped)
  BY <1>2, <1>3, ReapStaleFacts DEF Keeps
<1>5. Outcome(passed).room = passed /\ Outcome(passed).renumbered = <<>>
  BY DEF Outcome
<1>6. PICK last : last = [reaped EXCEPT !.room = RecordHumanDisconnect(@)]
  OBVIOUS
<1>7. /\ last.room = RecordHumanDisconnect(reaped.room)
      /\ last.renumbered = reaped.renumbered
  <2>1. \E x, y : reaped = [room |-> x, renumbered |-> y]
    BY <1>4 DEF IsOutcome
  <2> QED
    BY <1>6, <2>1
<1>8. /\ Keeps(last.room, reaped.room) /\ last.room.players = reaped.room.players
      /\ last.room.phase = reaped.room.phase /\ last.room.public = reaped.room.public
      /\ last.room.disconnected = reaped.room.disconnected
  BY <1>4, <1>7, RecordHumanDisconnectKeeps DEF ReapedFrom, Keeps
<1>9. Keeps(last.room, r)
  BY <1>2, <1>4, <1>5, <1>8 DEF ReapedFrom, Keeps
<1>10. Goes(last.room, r, t)
  <2>1. PresentSeats(last.room) = PresentSeats(passed)
    BY <1>4, <1>5, <1>8, SamePlayersPresent DEF ReapedFrom
  <2> QED
    BY <1>2, <2>1, SameGoes
<1>11. a = UnlessOrphaned(last)
  BY <1>1, <1>3, <1>6 DEF SeatDisconnect
<1>12. Keeps(a.room, r)
  BY <1>9, <1>11, UnlessOrphanedFacts, KeepsTwice DEF Keeps
<1>13. Departs(a, r, s)
  <2>1. last.room.phase = r.phase /\ last.room.public = r.public /\ Typed(last.room)
    BY <1>2, <1>4, <1>5, <1>8 DEF ReapedFrom, Keeps
  <2> QED
    BY <1>10, <1>11, <2>1, OrphanedDeparts
<1>14. StaysPut(a, r, s)
  <2>1. CASE a = last
    <3>1. Len(a.room.players) <= Len(r.players)
      BY <1>2, <1>4, <1>5, <1>8, <2>1 DEF ReapedFrom
    <3>2. ASSUME Len(a.room.players) = Len(r.players)
          PROVE  /\ a.renumbered = <<>> /\ a.room.players = passed.players
                 /\ a.room.disconnected = passed.disconnected
      <4>1. reaped = Outcome(passed)
        BY <1>2, <1>4, <1>5, <1>8, <2>1, <3>2 DEF ReapedFrom
      <4> QED
        BY <1>5, <1>7, <1>8, <2>1, <4>1
    <3>3. DOMAIN <<>> = {}
      OBVIOUS
    <3> QED
      BY <1>2, <3>1, <3>2, <3>3 DEF StaysPut
  <2>2. CASE a = Outcome(GoneRoom)
    BY <2>2, GoneFacts
  <2> QED
    BY <1>9, <1>11, <2>1, <2>2, UnlessOrphanedFacts DEF Keeps
<1> QED
  BY <1>12, <1>13, <1>14

\* In the game: a bot plays on, and an entry remembers the human.
LEMMA GameDisconnect ==
    ASSUME NEW r, Typed(r), NEW s \in 1..Len(r.players), NEW a, a = SeatDisconnect(r, s),
           Human(r, s), r.phase # "Lobby"
    PROVE  /\ Keeps(a.room, r) /\ Departs(a, r, s) /\ StaysPut(a, r, s)
           /\ a # Outcome(GoneRoom) /\ Good(r)
              => /\ Recalls(a.room, r)
                 /\ Len(a.room.players) = Len(r.players)
                 /\ a.room.players[s].token = None
<1> DEFINE t == r.players[s].token
<1>1. PICK kept : kept = AddDisconnected(r, s, t)
  OBVIOUS
<1>2. /\ Keeps(kept, r) /\ kept.players = r.players
      /\ kept.phase = r.phase /\ kept.public = r.public
      /\ \A e \in kept.disconnected : e \in r.disconnected \/ (e.seat = s /\ e.token = t)
  BY <1>1, AddDisconnectedKeeps
<1>3. s \in 1..Len(kept.players) /\ RoomType(kept) /\ Typed(kept)
  BY <1>2 DEF Keeps, Typed
<1>4. PICK bot : bot = TurnIntoBot(kept, s)
  OBVIOUS
<1>5. PICK b : OnlySeat(bot, kept, s, b) /\ b.token = None
  BY <1>3, <1>4, TurnIntoBotFacts
<1>6. RoomType(bot) /\ SameSeats(bot, kept)
  BY <1>3, <1>4, TurnIntoBotFacts
<1>7. Keeps(bot, kept) /\ s \in 1..Len(bot.players)
  BY <1>3, <1>6, SameSeatsKeep DEF SameSeats
<1>8. PICK free : free = ReleaseOwner(bot, s)
  OBVIOUS
<1>9. PICK p : OnlySeat(free, bot, s, p) /\ p.token = None
  BY <1>5, <1>6, <1>7, <1>8, ReleaseOwnerFacts DEF OnlySeat
<1>10. RoomType(free) /\ SameSeats(free, bot)
  BY <1>6, <1>7, <1>8, ReleaseOwnerFacts
<1>11. Keeps(free, bot)
  BY <1>7, <1>10, SameSeatsKeep DEF Keeps
<1>12. /\ Len(free.players) = Len(r.players) /\ free.players[s] = p
       /\ \A i \in 1..Len(r.players) : i # s => free.players[i] = r.players[i]
       /\ free.disconnected = kept.disconnected
       /\ free.phase = r.phase /\ free.public = r.public
  BY <1>2, <1>5, <1>9 DEF OnlySeat
<1>13. PICK last : last = Outcome(RecordHumanDisconnect(free))
  OBVIOUS
<1>14. last.room = RecordHumanDisconnect(free) /\ last.renumbered = <<>>
  BY <1>13 DEF Outcome
<1>15. /\ Keeps(last.room, free) /\ last.room.players = free.players
       /\ last.room.phase = free.phase /\ last.room.public = free.public
       /\ last.room.disconnected = free.disconnected
  BY <1>11, <1>14, RecordHumanDisconnectKeeps DEF Keeps
<1>16. Keeps(last.room, r)
  BY <1>2, <1>7, <1>11, <1>15 DEF Keeps
<1>17. Goes(last.room, r, t)
  <2>1. \A i \in 1..Len(r.players) :
           i # s /\ Present(r, i) =>
              /\ Present(last.room, i) /\ i \in 1..Len(last.room.players)
              /\ last.room.players[i] = r.players[i]
    BY <1>12, <1>15 DEF Present, Human, IsSeat
  <2> QED
    BY <2>1 DEF Goes, PresentTokens
<1>18. a = UnlessOrphaned(last)
  BY <1>1, <1>4, <1>8, <1>13 DEF SeatDisconnect, Dissolves
<1>19. Keeps(a.room, r)
  BY <1>16, <1>18, UnlessOrphanedFacts, KeepsTwice DEF Keeps
<1>20. Departs(a, r, s)
  <2>1. last.room.phase = r.phase /\ last.room.public = r.public /\ Typed(last.room)
    BY <1>12, <1>15, <1>16 DEF Keeps
  <2> QED
    BY <1>17, <1>18, <2>1, OrphanedDeparts
<1>21. a = last \/ a = Outcome(GoneRoom)
  BY <1>16, <1>18, UnlessOrphanedFacts DEF Keeps
<1>22. StaysPut(a, r, s)
  <2>1. CASE a = last
    <3>1. DOMAIN <<>> = {} /\ \A x : SameHolder(x, x)
      BY DEF SameHolder
    <3>2. Len(r.players) <= Len(r.players)
      <4>1. Len(r.players) \in 0..4
        BY RoomTypeFacts DEF Typed
      <4> QED
        BY <4>1
    <3> QED
      BY <1>2, <1>9, <1>12, <1>14, <1>15, <2>1, <3>1, <3>2 DEF StaysPut
  <2>2. CASE a = Outcome(GoneRoom)
    BY <2>2, GoneFacts
  <2> QED
    BY <1>21, <2>1, <2>2
<1>23. ASSUME a = last, Good(r)
       PROVE  Recalls(a.room, r)
  <2>1. /\ r.disconnected \subseteq kept.disconnected
        /\ \A e \in kept.disconnected : e \in r.disconnected \/ e.age < RejoinTimeout
        /\ \E e \in kept.disconnected : e.token = t
    <3>1. CASE \E e \in r.disconnected : e.seat = s
      <4>1. PICK e \in r.disconnected : e.seat = s
        BY <3>1
      <4>2. e.token = t
        BY <1>23, <4>1 DEF Good, Sound, LeadsHome, Human
      <4> QED
        BY <1>1, <3>1, <4>1, <4>2 DEF AddDisconnected
    <3>2. CASE ~\E e \in r.disconnected : e.seat = s
      <4>1. kept.disconnected = r.disconnected \cup {[seat |-> s, token |-> t, age |-> 0]}
        <5>1. r \in Room
          BY DEF Typed, RoomType
        <5> QED
          BY <1>1, <3>2, <5>1 DEF AddDisconnected, Room
      <4>2. /\ [seat |-> s, token |-> t, age |-> 0].token = t
            /\ [seat |-> s, token |-> t, age |-> 0].age < RejoinTimeout
        BY TimeoutAssumption
      <4> QED
        BY <4>1, <4>2
    <3> QED
      BY <3>1, <3>2
  <2>2. \A i \in 1..Len(r.players) :
           i # s => i \in 1..Len(a.room.players) /\ a.room.players[i] = r.players[i]
    BY <1>12, <1>15, <1>23
  <2>3. a.room.disconnected = kept.disconnected
    BY <1>12, <1>15, <1>23
  <2> QED
    BY <2>1, <2>2, <2>3 DEF Recalls, Human, IsSeat
<1> QED
  BY <1>9, <1>12, <1>15, <1>19, <1>20, <1>21, <1>22, <1>23

\* A socket that names the seat of a bot.
LEMMA BotDisconnect ==
    ASSUME NEW r, Typed(r), NEW s \in 1..Len(r.players), NEW a, a = SeatDisconnect(r, s),
           ~Human(r, s)
    PROVE  /\ Keeps(a.room, r) /\ Departs(a, r, s) /\ StaysPut(a, r, s)
           /\ Recalls(a.room, r)
           /\ Len(a.room.players) = Len(r.players)
           /\ a.room.players[s].token = None
<1>1. PICK q : q = [r EXCEPT !.players[s] = [@ EXCEPT !.gone = 0]]
  OBVIOUS
<1>2. RoomType(r) /\ RoomType(q) /\ SameSeats(q, r)
  BY <1>1, BotGoneFacts DEF Typed
<1>3. PICK p : OnlySeat(q, r, s, p) /\ p.token = r.players[s].token
  BY <1>1, BotGoneFacts DEF Typed
<1>4. a = Outcome(q) /\ a.room = q /\ a.renumbered = <<>>
  BY <1>1 DEF SeatDisconnect, Dissolves, Outcome
<1>5. Keeps(q, r)
  BY <1>2, SameSeatsKeep
<1>6. Departs(a, r, s)
  BY <1>3, <1>4, OnlySeatGoes DEF Departs, OnlySeat
<1>7. DOMAIN <<>> = {} /\ \A x : SameHolder(x, x)
  BY DEF SameHolder
<1>8. Len(r.players) <= Len(r.players)
  <2>1. Len(r.players) \in 0..4
    BY <1>2, RoomTypeFacts
  <2> QED
    BY <2>1
<1>9. StaysPut(a, r, s)
  BY <1>3, <1>4, <1>7, <1>8 DEF StaysPut, OnlySeat
<1>10. r.players[s].token = None
  BY DEF Human, IsSeat
<1>11. Recalls(a.room, r)
  BY <1>3, <1>4 DEF Recalls, OnlySeat, Human, IsSeat
<1> QED
  BY <1>3, <1>4, <1>5, <1>6, <1>9, <1>10, <1>11 DEF OnlySeat

\* A socket that is gone, whatever seat it names.
LEMMA SeatDisconnectFacts ==
    ASSUME NEW r, Typed(r), NEW s \in 1..Len(r.players), NEW a, a = SeatDisconnect(r, s)
    PROVE  Keeps(a.room, r) /\ Departs(a, r, s) /\ StaysPut(a, r, s)
<1>1. CASE Dissolves(r, s)
  <2>1. a = Outcome(GoneRoom)
    BY <1>1 DEF SeatDisconnect, Dissolves
  <2> QED
    BY <1>1, <2>1, GoneFacts DEF Departs
<1>2. CASE ~Dissolves(r, s)
  BY <1>2, LobbyDisconnect, GameDisconnect, BotDisconnect
<1> QED
  BY <1>1, <1>2

\* In a running game it is remembered who was at the seat.
LEMMA SeatDisconnectRemembers ==
    ASSUME NEW r, Good(r), NEW s \in 1..Len(r.players), NEW a, a = SeatDisconnect(r, s),
           r.phase # "Lobby", a.room.phase # "Gone"
    PROVE  /\ Recalls(a.room, r)
           /\ Len(a.room.players) = Len(r.players) /\ a.room.players[s].token = None
<1>1. a # Outcome(GoneRoom) /\ Typed(r)
  BY GoneRoomFacts DEF Good
<1> QED
  BY <1>1, GameDisconnect, BotDisconnect

\* Seat s is taken out, and its renumbering leads everybody else to the seat of
\* its token.
TakesOut(a, r, s) ==
    /\ a.renumbered = SeatsBehind(r, s)
    /\ Len(a.room.players) = Len(r.players) - 1
    /\ \A j \in 1..Len(a.room.players) :
          /\ OldSeat(j, s) \in 1..Len(r.players)
          /\ a.room.players[j].token = r.players[OldSeat(j, s)].token

\* A human that leaves the lobby: its seat and its entry go, the rest moves
\* together.
LEMMA LobbyRemove ==
    ASSUME NEW r, Typed(r), NEW s \in 1..Len(r.players), NEW a, a = RemovePlayer(r, s),
           Human(r, s), r.phase = "Lobby", ~Dissolves(r, s)
    PROVE  Keeps(a.room, r) /\ Departs(a, r, s) /\ TakesOut(a, r, s)
<1> DEFINE t == r.players[s].token
<1>1. PICK passed : passed = PassCrownOn(r, s)
  OBVIOUS
<1>2. RoomType(passed) /\ CrownPasses(passed, r, s) /\ SameSeats(passed, r)
  BY <1>1, PassCrownOnFacts DEF Typed
<1>3. Keeps(passed, r)
  BY <1>2, SameSeatsKeep
<1>4. Typed(passed)
  BY <1>3 DEF Keeps
<1>5. PICK forgotten : forgotten = Forgotten(passed, t)
  OBVIOUS
<1>6. /\ Keeps(forgotten, passed) /\ forgotten.players = passed.players
      /\ forgotten.phase = passed.phase /\ forgotten.public = passed.public
  BY <1>4, <1>5, ForgetKeeps
<1>7. s \in 1..Len(forgotten.players) /\ Typed(forgotten)
  BY <1>2, <1>6 DEF SameSeats, Keeps
<1>8. PICK q : q = RemoveSeat(forgotten, s)
  OBVIOUS
<1>9. a.room = q /\ a.renumbered = SeatsBehind(r, s)
  BY <1>1, <1>5, <1>8 DEF RemovePlayer, Forgotten
<1>10. Keeps(q, r)
  BY <1>3, <1>6, <1>7, <1>8, RemoveSeatKeeps DEF Keeps
<1>11. PICK n \in 0..4 : Len(r.players) = n
  BY RoomTypeFacts DEF Typed
<1>12. /\ Len(passed.players) = n
       /\ \A i \in 1..n : /\ SameHolder(passed.players[i], r.players[i])
                          /\ r.players[i].creator => passed.players[i].creator
                          /\ Present(forgotten, i) <=> Present(r, i)
                          /\ Present(passed, i) <=> Present(r, i)
  BY <1>2, <1>6, <1>11 DEF CrownPasses, SameHolder, Present, Human, IsSeat
<1>13. /\ Len(q.players) = n - 1 /\ q.phase = r.phase /\ q.public = r.public
       /\ \A j \in 1..(n - 1) : /\ OldSeat(j, s) \in 1..n
                                /\ q.players[j] = passed.players[OldSeat(j, s)]
  BY <1>2, <1>6, <1>7, <1>8, <1>12, RemoveSeatFacts DEF CrownPasses
<1>14. \A i \in 1..n : i # s /\ Present(r, i) => passed.players[i] \in PresentSeats(q)
  BY <1>6, <1>7, <1>8, <1>12, RemoveSeatPresent
<1>15. PresentTokens(r) \subseteq PresentTokens(q) \cup {t}
  <2>1. ASSUME NEW i \in 1..n, i # s, Present(r, i)
        PROVE  r.players[i].token \in PresentTokens(q)
    BY <1>12, <1>14, <2>1, PresentFacts DEF SameHolder
  <2> QED
    BY <1>11, <2>1 DEF PresentTokens
<1>16. ASSUME HasHost(r), HasConnectedHuman(q)
       PROVE  HasHost(q)
  <2>1. PICK i \in 1..n : Present(r, i) /\ r.players[i].creator
    BY <1>11, <1>16 DEF HasHost
  <2>2. ASSUME NEW k \in 1..n, k # s, Present(r, k), passed.players[k].creator
        PROVE  HasHost(q)
    BY <1>14, <2>2, PresentFacts
  <2>3. CASE i = s
    <3>1. PICK j \in 1..(n - 1) : Present(q, j)
      BY <1>13, <1>16 DEF HasConnectedHuman
    <3>2. OldSeat(j, s) \in 1..n /\ OldSeat(j, s) # s
      BY <1>13 DEF OldSeat
    <3>3. Present(r, OldSeat(j, s))
      BY <1>12, <1>13, <3>1, <3>2 DEF Present, Human, IsSeat
    <3>4. \E k \in 1..n : k # s /\ Present(passed, k) /\ passed.players[k].creator
      BY <1>2, <1>11, <2>1, <2>3, <3>2, <3>3 DEF CrownPasses
    <3> QED
      BY <1>12, <2>2, <3>4
  <2> QED
    BY <1>12, <2>1, <2>2, <2>3
<1>17. Departs(a, r, s)
  BY <1>9, <1>13, <1>15, <1>16 DEF Departs, Goes
<1>18. TakesOut(a, r, s)
  BY <1>9, <1>11, <1>12, <1>13 DEF TakesOut, SameHolder
<1> QED
  BY <1>9, <1>10, <1>17, <1>18

\* A human that leaves, or a socket that names the seat of a bot: otherwise all
\* stay where they are.
LEMMA RemovePlayerFacts ==
    ASSUME NEW r, Typed(r), NEW s \in 1..Len(r.players), NEW a, a = RemovePlayer(r, s)
    PROVE  /\ Keeps(a.room, r) /\ Departs(a, r, s)
           /\ \/ TakesOut(a, r, s)
              \/ /\ StaysPut(a, r, s)
                 /\ a = Outcome(GoneRoom) \/ Len(a.room.players) = Len(r.players)
<1>0. Len(r.players) <= Len(r.players)
  <2>1. Len(r.players) \in 0..4
    BY RoomTypeFacts DEF Typed
  <2> QED
    BY <2>1
<1>1. CASE Dissolves(r, s)
  <2>1. a = Outcome(GoneRoom)
    BY <1>1 DEF RemovePlayer, Dissolves
  <2> QED
    BY <1>1, <2>1, GoneFacts DEF Departs
<1>2. CASE Human(r, s) /\ r.phase = "Lobby" /\ ~Dissolves(r, s)
  BY <1>2, LobbyRemove
<1>3. CASE Human(r, s) /\ r.phase # "Lobby"
  <2>1. PICK bot : bot = TurnIntoBot(r, s)
    OBVIOUS
  <2>2. RoomType(bot) /\ SameSeats(bot, r)
    BY <2>1, TurnIntoBotFacts DEF Typed
  <2>3. PICK p : OnlySeat(bot, r, s, p) /\ p.token = None
    BY <2>1, TurnIntoBotFacts DEF Typed
  <2>4. Keeps(bot, r)
    BY <2>2, SameSeatsKeep
  <2>5. PICK last : last = Outcome(RecordHumanDisconnect(bot))
    OBVIOUS
  <2>6. last.room = RecordHumanDisconnect(bot) /\ last.renumbered = <<>>
    BY <2>5 DEF Outcome
  <2>7. /\ Keeps(last.room, bot) /\ last.room.players = bot.players
        /\ last.room.phase = bot.phase /\ last.room.public = bot.public
        /\ last.room.disconnected = bot.disconnected
    BY <2>4, <2>6, RecordHumanDisconnectKeeps DEF Keeps
  <2>8. Keeps(last.room, r)
    BY <2>4, <2>7, KeepsTwice
  <2>9. Goes(last.room, r, r.players[s].token)
    <3>1. PresentSeats(last.room) = PresentSeats(bot)
      BY <2>7, SamePlayersPresent
    <3> QED
      BY <1>3, <2>3, <3>1, OnlySeatGoes, SameGoes
  <2>10. a = UnlessOrphaned(last)
    BY <1>3, <2>1, <2>5 DEF RemovePlayer, Dissolves
  <2>11. Keeps(a.room, r) /\ (a = last \/ a = Outcome(GoneRoom))
    BY <2>8, <2>10, UnlessOrphanedFacts, KeepsTwice DEF Keeps
  <2>12. Departs(a, r, s)
    <3>1. last.room.phase = r.phase /\ last.room.public = r.public /\ Typed(last.room)
      BY <2>3, <2>7, <2>8 DEF OnlySeat, Keeps
    <3> QED
      BY <2>9, <2>10, <3>1, OrphanedDeparts
  <2>13. DOMAIN <<>> = {} /\ \A x : SameHolder(x, x)
    BY DEF SameHolder
  <2>14. StaysPut(last, r, s)
    BY <1>0, <2>3, <2>6, <2>7, <2>13 DEF StaysPut, OnlySeat
  <2>15. Len(last.room.players) = Len(r.players)
    BY <2>3, <2>7 DEF OnlySeat
  <2> QED
    BY <2>11, <2>12, <2>14, <2>15, GoneFacts
<1>4. CASE ~Human(r, s)
  <2>1. a = Outcome(r) /\ a.room = r /\ a.renumbered = <<>>
    BY <1>4 DEF RemovePlayer, Dissolves, Outcome
  <2>2. Goes(r, r, r.players[s].token)
    BY DEF Goes
  <2>3. DOMAIN <<>> = {} /\ \A x : SameHolder(x, x)
    BY DEF SameHolder
  <2> QED
    BY <1>0, <2>1, <2>2, <2>3 DEF Departs, StaysPut, Keeps
<1> QED
  BY <1>1, <1>2, <1>3, <1>4 DEF Dissolves

=============================================================================
