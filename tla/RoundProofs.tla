----------------------------- MODULE RoundProofs -----------------------------
(***************************************************************************)
(* Lemmas about the operators of Round: what a minimum of seats, a turn    *)
(* passed on, a play and a pass do.                                        *)
(***************************************************************************)
EXTENDS GameProperties, SequenceTheorems, FiniteSetTheorems, TLAPS

\* Min of a non-empty set of seats is its lowest member.
LEMMA MinSeat ==
    ASSUME NEW S \in SUBSET Seat, S # {}
    PROVE  Min(S) \in S /\ \A t \in S : Min(S) <= t
<1>1. \E x \in S : \A y \in S : x <= y
  <2>1. CASE 0 \in S
    <3>1. \A y \in S : 0 <= y
      BY DEF Seat
    <3> QED
      BY <2>1, <3>1
  <2>2. CASE 0 \notin S /\ 1 \in S
    <3>1. \A y \in S : 1 <= y
      BY <2>2 DEF Seat
    <3> QED
      BY <2>2, <3>1
  <2>3. CASE 0 \notin S /\ 1 \notin S /\ 2 \in S
    <3>1. \A y \in S : 2 <= y
      BY <2>3 DEF Seat
    <3> QED
      BY <2>3, <3>1
  <2>4. CASE 0 \notin S /\ 1 \notin S /\ 2 \notin S
    <3>1. \A y \in S : y = 3
      BY <2>4 DEF Seat
    <3>2. PICK y \in S : TRUE
      OBVIOUS
    <3> QED
      BY <3>1, <3>2
  <2> QED
    BY <2>1, <2>2, <2>3, <2>4
<1> QED
  BY <1>1 DEF Min

\* Seats around the table.
LEMMA SeatArith ==
    /\ \A s \in Seat : NextSeat(s) \in Seat
    /\ \A s \in Seat, d \in 0..3 : (s + d) % 4 \in Seat
    /\ \A s, t \in Seat : Dist(s, t) \in 0..3 /\ (s + Dist(s, t)) % 4 = t
    /\ \A s \in Seat, d \in 0..3 : Dist(s, (s + d) % 4) = d
<1>1. \A s, t \in Seat : (s + t) % 4 = IF s + t > 3 THEN s + t - 4 ELSE s + t
  BY DEF Seat
<1>2. \A s, t \in Seat : Dist(s, t) = IF t < s THEN t - s + 4 ELSE t - s
  BY DEF Seat, Dist
<1>3. \A s \in Seat : NextSeat(s) = IF s = 3 THEN 0 ELSE s + 1
  BY DEF Seat, NextSeat
<1> QED
  BY <1>1, <1>2, <1>3 DEF Seat

\* skip_finished stops at the nearest seat that is not finished.
LEMMA SkipFinishedNearest ==
    ASSUME NEW s \in Seat, NEW fin \in SUBSET Seat
    PROVE  /\ SkipFinished(s, fin) \in Seat
           /\ fin # Seat =>
                /\ SkipFinished(s, fin) \notin fin
                /\ \A t \in Seat \ fin : Dist(s, SkipFinished(s, fin)) <= Dist(s, t)
<1> DEFINE away == {d \in 0..3 : (s + d) % 4 \notin fin}
<1>1. CASE Seat \subseteq fin
  BY <1>1 DEF SkipFinished
<1>2. CASE ~(Seat \subseteq fin)
  <2>1. PICK t \in Seat : t \notin fin
    BY <1>2
  <2>2. Dist(s, t) \in away
    BY <2>1, SeatArith
  <2>3. away \in SUBSET Seat /\ away # {}
    BY <2>2 DEF Seat
  <2>4. PICK m : m = Min(away)
    OBVIOUS
  <2>5. m \in away /\ \A d \in away : m <= d
    BY <2>3, <2>4, MinSeat
  <2>6. m \in 0..3 /\ (s + m) % 4 \notin fin
    BY <2>5
  <2>7. SkipFinished(s, fin) = (s + m) % 4
    BY <1>2, <2>4 DEF SkipFinished
  <2>8. SkipFinished(s, fin) \in Seat /\ Dist(s, SkipFinished(s, fin)) = m
    <3>1. (s + m) % 4 \in Seat /\ Dist(s, (s + m) % 4) = m
      BY <2>6, SeatArith
    <3> QED
      BY <2>7, <3>1
  <2>9. \A u \in Seat \ fin : Dist(s, u) \in away
    BY SeatArith
  <2> QED
    BY <2>5, <2>6, <2>7, <2>8, <2>9
<1> QED
  BY <1>1, <1>2

\* Distances around the table add up.
LEMMA DistFacts ==
    /\ \A s, t \in Seat : Dist(s, t) = 0 <=> s = t
    /\ \A s \in Seat : Dist(NextSeat(s), s) = 3
    /\ \A s, t \in Seat : s # t => Dist(NextSeat(s), t) = Dist(s, t) - 1
    /\ \A a, s, t \in Seat :
          Dist(s, t) = IF Dist(a, s) <= Dist(a, t)
                       THEN Dist(a, t) - Dist(a, s) ELSE Dist(a, t) - Dist(a, s) + 4
<1>1. \A s, t \in Seat : Dist(s, t) = IF t < s THEN t - s + 4 ELSE t - s
  BY DEF Seat, Dist
<1>2. \A s \in Seat : NextSeat(s) = IF s = 3 THEN 0 ELSE s + 1
  BY DEF Seat, NextSeat
<1> QED
  BY <1>1, <1>2 DEF Seat

\* No cards are no combination, so a play puts something on the table.
LEMMA PlayIsNotEmpty ==
    ASSUME NEW cards, NEW tbl, ValidPlay(cards, tbl)
    PROVE  cards # {}
<1>1. Cardinality({}) = 0
  BY FS_EmptySet
<1>2. DetectCombo({}) = NoCombo
  BY <1>1, SMT DEF DetectCombo, NoCombo
<1> QED
  BY <1>2 DEF ValidPlay

\* A seat that is not ranked yet is ranked by appending it.
LEMMA AppendRank ==
    ASSUME NEW fo \in Seq(Seat), NEW p \in Seat, p \notin Range(fo), IsInjective(fo)
    PROVE  /\ Append(fo, p) \in Seq(Seat)
           /\ Len(Append(fo, p)) = Len(fo) + 1
           /\ Range(Append(fo, p)) = Range(fo) \cup {p}
           /\ IsInjective(Append(fo, p))
           /\ \A i \in 1..Len(fo) : Append(fo, p)[i] = fo[i]
           /\ Append(fo, p)[Len(fo) + 1] = p
           /\ DOMAIN fo = 1..Len(fo)
           /\ DOMAIN Append(fo, p) = 1..Len(fo) + 1
<1>1. /\ Append(fo, p) \in Seq(Seat)
      /\ Len(Append(fo, p)) = Len(fo) + 1
      /\ \A i \in 1..Len(fo) : Append(fo, p)[i] = fo[i]
      /\ Append(fo, p)[Len(fo) + 1] = p
      /\ Len(fo) \in Nat
      /\ DOMAIN fo = 1..Len(fo)
      /\ DOMAIN Append(fo, p) = 1..Len(fo) + 1
  OBVIOUS
<1>2. Range(Append(fo, p)) = Range(fo) \cup {p}
  BY <1>1 DEF Range
<1>3. IsInjective(Append(fo, p))
  BY <1>1 DEF Range, IsInjective
<1> QED
  BY <1>1, <1>2, <1>3

\* Fewer than three ranked seats leave two in the round.
LEMMA TwoStillIn ==
    ASSUME NEW fo \in Seq(Seat), Len(fo) < 3, NEW p \in Seat
    PROVE  \E s \in Seat : s \notin Range(fo) \cup {p}
<1>1. CASE Len(fo) = 0
  BY <1>1 DEF Range, Seat
<1>2. CASE Len(fo) = 1
  <2>1. Range(fo) = {fo[1]}
    BY <1>2 DEF Range
  <2> QED
    BY <2>1 DEF Seat
<1>3. CASE Len(fo) = 2
  <2>1. Range(fo) = {fo[1], fo[2]}
    BY <1>3 DEF Range
  <2> QED
    BY <2>1 DEF Seat
<1>4. Len(fo) \in Nat /\ Len(fo) < 3
  BY LenProperties
<1>5. \A n \in Nat : n < 3 => n = 0 \/ n = 1 \/ n = 2
  OBVIOUS
<1> QED
  BY <1>1, <1>2, <1>3, <1>4, <1>5

\* The totals and the match winner keep their types when a round is baked.
LEMMA BakeRoundTypes ==
    ASSUME RoundTypeOK, NEW sc \in [Seat -> Int], BakeRound(sc)
    PROVE  /\ scores' = sc
           /\ total_scores' \in [Seat -> Int]
           /\ phase' = "GameOver"
           /\ round' \in Nat
           /\ game_winner' \in Seat \cup {None}
<1> DEFINE totals == [s \in Seat |-> total_scores[s] + sc[s]]
           reached == {s \in Seat : totals[s] >= WinningPoint}
<1>1. total_scores' = totals /\ totals \in [Seat -> Int]
  BY DEF BakeRound, RoundTypeOK
<1>2. reached # {} => Min(reached) \in Seat
  <2>1. reached \in SUBSET Seat
    OBVIOUS
  <2> QED
    BY <2>1, MinSeat
<1>3. MatchWinner(totals) \in Seat \cup {None}
  BY <1>2 DEF MatchWinner, RoundTypeOK
<1> QED
  BY <1>1, <1>3 DEF BakeRound, RoundTypeOK

\* With three hands empty there is one seat left.
LEMMA OneStillIn ==
    ASSUME NEW fo \in Seq(Seat), Len(fo) = 3
    PROVE  Min(Seat \ Range(fo)) \in Seat \ Range(fo)
<1>1. Range(fo) = {fo[1], fo[2], fo[3]}
  BY DEF Range
<1>2. Seat \ Range(fo) # {}
  <2>1. SUFFICES ASSUME {0, 1, 2, 3} \subseteq Range(fo)
                 PROVE  FALSE
    BY DEF Seat
  <2> QED
    BY <1>1, <2>1
<1>3. Seat \ Range(fo) \in SUBSET Seat
  OBVIOUS
<1> QED
  BY <1>2, <1>3, MinSeat

\* The third seat to finish ends the round with a full ranking.
LEMMA FinalizeRanksAll ==
    ASSUME RoundTypeOK,
           NEW fo \in Seq(Seat), Len(fo) = 3, IsInjective(fo),
           NEW fin \in SUBSET Seat, fin = Range(fo),
           NEW sc \in [Seat -> Int],
           \A i \in 1..3 : sc[fo[i]] = Points[i],
           FinalizeGame(fo, fin, sc)
    PROVE  /\ finished_order' \in Seq(Seat)
           /\ finished_order' \in Bijection(1..4, Seat)
           /\ Len(finished_order') = 4
           /\ finished' \in SUBSET Seat
           /\ scores' \in [Seat -> Int]
           /\ \A i \in 1..4 : scores'[finished_order'[i]] = Points[i]
           /\ total_scores' \in [Seat -> Int]
           /\ phase' = "GameOver"
           /\ round' \in Nat
           /\ game_winner' \in Seat \cup {None}
<1> DEFINE last == Min(Seat \ fin)
           scLast == [sc EXCEPT ![last] = Points[4]]
<1>1. fin = {fo[1], fo[2], fo[3]}
  BY DEF Range
<1>2. last \in Seat /\ last \notin fin
  BY OneStillIn
<1> HIDE DEF last
<1>3. /\ finished_order' = Append(fo, last)
      /\ finished' = fin
      /\ BakeRound(scLast)
  BY DEF FinalizeGame, last
<1>4. scLast \in [Seat -> Int]
  BY <1>2 DEF Points
<1>5. /\ scores' = scLast
      /\ total_scores' \in [Seat -> Int]
      /\ phase' = "GameOver"
      /\ round' \in Nat
      /\ game_winner' \in Seat \cup {None}
  BY <1>3, <1>4, BakeRoundTypes
<1>6. /\ Append(fo, last) \in Seq(Seat)
      /\ Len(Append(fo, last)) = 4
      /\ IsInjective(Append(fo, last))
      /\ Range(Append(fo, last)) = fin \cup {last}
      /\ \A i \in 1..3 : Append(fo, last)[i] = fo[i]
      /\ Append(fo, last)[4] = last
      /\ DOMAIN Append(fo, last) = 1..4
  <2>1. last \in Seat /\ last \notin Range(fo)
    BY <1>2
  <2>2. /\ Append(fo, last) \in Seq(Seat)
        /\ Len(Append(fo, last)) = Len(fo) + 1
        /\ IsInjective(Append(fo, last))
        /\ Range(Append(fo, last)) = Range(fo) \cup {last}
        /\ \A i \in 1..Len(fo) : Append(fo, last)[i] = fo[i]
        /\ Append(fo, last)[Len(fo) + 1] = last
        /\ DOMAIN Append(fo, last) = 1..Len(fo) + 1
    BY <2>1, AppendRank
  <2> QED
    BY <2>2
<1>7. Append(fo, last) \in Bijection(1..4, Seat)
  <2>1. Append(fo, last) \in [1..4 -> Seat]
    BY <1>6, LenProperties
  <2>2. fin \cup {last} = Seat
    BY <1>1, <1>2, <1>6 DEF Seat, IsInjective
  <2>3. \A t \in Seat : \E i \in 1..4 : Append(fo, last)[i] = t
    BY <1>6, <2>2 DEF Range
  <2> QED
    BY <1>6, <2>1, <2>3 DEF Bijection, Injection, Surjection
<1>8. \A i \in 1..4 : scLast[Append(fo, last)[i]] = Points[i]
  <2>1. scLast[last] = Points[4]
    BY <1>2
  <2>2. \A i \in 1..3 : fo[i] \in Seat /\ fo[i] # last
    BY <1>1, <1>2
  <2> QED
    BY <1>6, <2>1, <2>2
<1> QED
  BY <1>3, <1>4, <1>5, <1>6, <1>7, <1>8

\* What holds of the table, whatever the driver does.
RoundInv == RoundTypeOK /\ TrickRotation /\ RankingSoFar

\* A move goes on with the next turn or ends the round.
MoveEffect ==
    \/ phase' = phase /\ turn_seq' = turn_seq + 1
    \/ phase' = "GameOver" /\ turn_seq' = turn_seq /\ Len(finished_order') >= 3

\* After a play the turn goes on to a seat that is still in and not the one
\* that played, with nobody in between left out.
LEMMA TurnAfterPlay ==
    ASSUME NEW p \in Seat, NEW fo \in Seq(Seat), Len(fo) < 3,
           NEW fin \in SUBSET Seat, fin = Range(fo),
           NEW c, c = SkipFinished(NextSeat(p), fin)
    PROVE  /\ c \in Seat \ fin
           /\ c # p
           /\ {} = {s \in Seat \ fin : Dist(p, s) \in 1..Dist(p, c) - 1}
<1>1. PICK q \in Seat : q \notin fin \cup {p}
  BY TwoStillIn
<1>2. fin # Seat
  BY <1>1
<1>3. NextSeat(p) \in Seat
  BY SeatArith
<1>4. /\ c \in Seat \ fin
      /\ \A t \in Seat \ fin : Dist(NextSeat(p), c) <= Dist(NextSeat(p), t)
  BY <1>2, <1>3, SkipFinishedNearest
<1>5. c # p
  <2>1. Dist(NextSeat(p), c) <= Dist(p, q) - 1 /\ Dist(p, q) \in 0..3
    BY <1>1, <1>4, DistFacts, SeatArith
  <2>2. Dist(NextSeat(p), p) = 3
    BY DistFacts
  <2> QED
    BY <2>1, <2>2
<1>6. ASSUME NEW s \in Seat \ fin, Dist(p, s) \in 1..Dist(p, c) - 1
      PROVE  FALSE
  <2>1. s # p
    BY <1>6, DistFacts
  <2>2. Dist(NextSeat(p), s) = Dist(p, s) - 1 /\ Dist(NextSeat(p), c) = Dist(p, c) - 1
    BY <1>4, <1>5, <2>1, DistFacts
  <2>3. Dist(p, s) \in 0..3 /\ Dist(p, c) \in 0..3
    BY <1>4, SeatArith
  <2> QED
    BY <1>4, <1>6, <2>2, <2>3
<1> QED
  BY <1>4, <1>5, <1>6

\* After a pass that does not complete the trick the turn goes on to a seat
\* still in, between the one that passed and the owner of the table.
LEMMA TurnAfterPass ==
    ASSUME NEW o \in Seat, NEW p \in Seat, o # p,
           NEW fin \in SUBSET Seat, p \notin fin,
           NEW out \in SUBSET Seat,
           out = {s \in Seat \ fin : Dist(o, s) \in 1..Dist(o, p) - 1},
           NEW q \in Seat, q # o, q \notin fin, q \notin out \cup {p},
           NEW c, c = SkipFinished(NextSeat(p), fin)
    PROVE  /\ c \in Seat \ fin
           /\ c # o
           /\ out \cup {p} = {s \in Seat \ fin : Dist(o, s) \in 1..Dist(o, c) - 1}
<1>1. \A s, t \in Seat : Dist(s, t) \in 0..3
  BY SeatArith
<1>2. NextSeat(p) \in Seat
  BY SeatArith
<1>3. /\ c \in Seat \ fin
      /\ \A t \in Seat \ fin : Dist(NextSeat(p), c) <= Dist(NextSeat(p), t)
  BY <1>2, SkipFinishedNearest
<1>4. Dist(o, q) > Dist(o, p) /\ Dist(p, q) = Dist(o, q) - Dist(o, p)
  <2>1. Dist(o, q) # 0 /\ Dist(p, q) # 0
    BY DistFacts
  <2>2. Dist(o, q) >= Dist(o, p)
    BY <1>1, <2>1
  <2>3. Dist(p, q) = Dist(o, q) - Dist(o, p)
    BY <2>2, <1>1, DistFacts
  <2> QED
    BY <1>1, <2>1, <2>2, <2>3
<1>5. c # p
  <2>1. Dist(NextSeat(p), c) <= Dist(p, q) - 1
    BY <1>3, DistFacts
  <2>2. Dist(NextSeat(p), p) = 3
    BY DistFacts
  <2> QED
    BY <1>1, <2>1, <2>2
<1>6. \A t \in Seat \ fin : t # p => Dist(p, c) <= Dist(p, t)
  <2> TAKE t \in Seat \ fin
  <2> HAVE t # p
  <2>1. Dist(NextSeat(p), t) = Dist(p, t) - 1 /\ Dist(NextSeat(p), c) = Dist(p, c) - 1
    BY <1>3, <1>5, DistFacts
  <2>2. Dist(NextSeat(p), c) <= Dist(NextSeat(p), t)
    BY <1>3
  <2> QED
    BY <1>1, <1>3, <2>1, <2>2
<1>7. Dist(o, c) > Dist(o, p) /\ Dist(p, c) = Dist(o, c) - Dist(o, p)
  <2>1. Dist(p, c) <= Dist(o, q) - Dist(o, p) /\ Dist(p, c) # 0
    BY <1>3, <1>4, <1>5, <1>6, DistFacts
  <2>2. Dist(p, c) = IF Dist(o, p) <= Dist(o, c)
                     THEN Dist(o, c) - Dist(o, p) ELSE Dist(o, c) - Dist(o, p) + 4
    BY <1>3, DistFacts
  <2> QED
    BY <1>1, <1>3, <2>1, <2>2
<1>8. c # o
  BY <1>1, <1>3, <1>7, DistFacts
<1>9. ASSUME NEW s \in Seat \ fin
      PROVE  s \in out \cup {p} <=> Dist(o, s) \in 1..Dist(o, c) - 1
  <2>1. Dist(o, p) >= 1
    BY <1>1, DistFacts
  <2>2. CASE Dist(o, s) < Dist(o, p)
    BY <1>1, <1>3, <1>7, <2>2
  <2>3. CASE Dist(o, s) = Dist(o, p)
    <3>1. s = p
      BY <2>3, <1>1, DistFacts
    <3> QED
      BY <1>1, <1>3, <1>7, <2>1, <2>3, <3>1
  <2>4. CASE Dist(o, s) > Dist(o, p)
    <3>1. s # p /\ Dist(p, s) = Dist(o, s) - Dist(o, p)
      BY <1>1, <2>4, DistFacts
    <3>2. Dist(p, c) <= Dist(p, s)
      BY <1>6, <3>1
    <3> QED
      BY <1>1, <1>3, <1>7, <2>4, <3>1, <3>2
  <2> QED
    BY <1>1, <2>2, <2>3, <2>4
<1> QED
  BY <1>3, <1>8, <1>9

\* What a position pays is a number.
LEMMA PointsTypes == \A i \in 1..4 : Points[i] \in Int
<1>1. Points[1] = 10 /\ Points[2] = 5 /\ Points[3] = 0 /\ Points[4] = -15
  BY DEF Points
<1>2. \A i \in 1..4 : i = 1 \/ i = 2 \/ i = 3 \/ i = 4
  OBVIOUS
<1> QED
  BY <1>1, <1>2

\* A play of cards the seat on turn holds keeps the table in order.
LEMMA PlayStep ==
    ASSUME RoundInv, InRound,
           NEW p, p = current_player, NEW cards, NEW parked \in Seat,
           cards \subseteq hand[p], cards # {}, PlayCards(p, cards, parked)
    PROVE  /\ RoundInv'
           /\ MoveEffect
           /\ combo_player' = p
           /\ UNCHANGED discard
           /\ phase' = "GameOver" => /\ finished_order' \in Bijection(1..4, Seat)
                                     /\ \A i \in 1..4 : scores'[finished_order'[i]] = Points[i]
<1> DEFINE out == cards = hand[p]
           fin == IF out THEN finished \cup {p} ELSE finished
           fo  == IF out THEN Append(finished_order, p) ELSE finished_order
           sc  == IF out THEN ScorePlayer(scores, p, Len(fo)) ELSE scores
<1> USE DEF RoundInv, ScorePlayer
<1>1. /\ p = current_player
      /\ p \in Seat
      /\ p \notin finished
      /\ Len(finished_order) < 3
  BY DEF RoundTypeOK, TrickRotation, RankingSoFar
<1>2. /\ finished_order \in Seq(Seat)
      /\ Len(finished_order) \in Nat
      /\ DOMAIN finished_order = 1..Len(finished_order)
      /\ IsInjective(finished_order)
      /\ Range(finished_order) = finished
      /\ finished = {s \in Seat : hand[s] = {}}
      /\ \A i \in 1..Len(finished_order) : scores[finished_order[i]] = Points[i]
      /\ \A s \in Seat \ finished : scores[s] = 0
  <2>1. finished_order \in Seq(Seat)
    BY DEF RoundTypeOK
  <2> QED
    BY <2>1, LenProperties DEF RankingSoFar
<1>3. /\ fo \in Seq(Seat)
      /\ Len(fo) = IF out THEN Len(finished_order) + 1 ELSE Len(finished_order)
      /\ IsInjective(fo)
      /\ Range(fo) = fin
      /\ \A i \in 1..Len(finished_order) : fo[i] = finished_order[i]
      /\ out => fo[Len(finished_order) + 1] = p
      /\ DOMAIN fo = 1..Len(fo)
  <2>1. CASE out
    <3>1. p \notin Range(finished_order)
      BY <1>1, <1>2
    <3>2. /\ Append(finished_order, p) \in Seq(Seat)
          /\ Len(Append(finished_order, p)) = Len(finished_order) + 1
          /\ Range(Append(finished_order, p)) = Range(finished_order) \cup {p}
          /\ IsInjective(Append(finished_order, p))
          /\ \A i \in 1..Len(finished_order) :
                Append(finished_order, p)[i] = finished_order[i]
          /\ Append(finished_order, p)[Len(finished_order) + 1] = p
          /\ DOMAIN Append(finished_order, p) = 1..Len(finished_order) + 1
      BY <1>1, <1>2, <3>1, AppendRank
    <3>3. fo = Append(finished_order, p) /\ fin = finished \cup {p}
      BY <2>1
    <3> HIDE DEF fo, fin
    <3> QED
      BY <1>2, <2>1, <3>2, <3>3
  <2>2. CASE ~out
    BY <1>2, <2>2
  <2> QED
    BY <2>1, <2>2
<1>4. /\ fin \in SUBSET Seat
      /\ sc \in [Seat -> Int]
  <2>1. fin \in SUBSET Seat
    BY DEF RoundTypeOK
  <2>2. sc \in [Seat -> Int]
    <3>1. CASE out
      <4>1. Len(fo) \in 1..4
        BY <1>1, <1>2, <1>3, <3>1
      <4>2. Points[Len(fo)] \in Int
        BY <4>1, PointsTypes
      <4>3. sc = [scores EXCEPT ![p] = Points[Len(fo)]] /\ scores \in [Seat -> Int]
        BY <3>1 DEF RoundTypeOK
      <4> HIDE DEF fo, sc
      <4> QED
        BY <4>2, <4>3
    <3>2. CASE ~out
      BY <3>2 DEF RoundTypeOK
    <3> QED
      BY <3>1, <3>2
  <2> QED
    BY <2>1, <2>2
<1>5. \A i \in 1..Len(fo) : sc[fo[i]] = Points[i]
  <2>1. CASE out
    <3>1. Len(fo) = Len(finished_order) + 1 /\ sc = [scores EXCEPT ![p] = Points[Len(fo)]]
      BY <1>3, <2>1
    <3>2. \A i \in 1..Len(finished_order) : fo[i] \in Seat /\ fo[i] # p
      BY <1>1, <1>2, <1>3 DEF Range
    <3>3. \A i \in 1..Len(finished_order) : sc[fo[i]] = Points[i]
      BY <1>2, <1>3, <3>1, <3>2 DEF RoundTypeOK
    <3>4. sc[fo[Len(fo)]] = Points[Len(fo)]
      BY <1>3, <2>1, <3>1 DEF RoundTypeOK
    <3> QED
      BY <1>2, <3>1, <3>3, <3>4
  <2>2. CASE ~out
    BY <1>2, <2>2
  <2> QED
    BY <2>1, <2>2
<1>6. \A s \in Seat \ fin : sc[s] = 0
  BY <1>2 DEF RoundTypeOK
<1>7. /\ hand' = [hand EXCEPT ![p] = @ \ cards]
      /\ hand' \in [Seat -> SUBSET Card]
      /\ fin = {s \in Seat : hand'[s] = {}}
  <2>1. hand' = [hand EXCEPT ![p] = @ \ cards] /\ hand \in [Seat -> SUBSET Card]
    BY DEF PlayCards, RoundTypeOK
  <2>2. hand'[p] = {} <=> out
    BY <1>1, <2>1
  <2>3. \A s \in Seat : s # p => hand'[s] = hand[s]
    BY <2>1
  <2> QED
    BY <1>1, <1>2, <2>1, <2>2, <2>3
<1>8. /\ table' = cards /\ table' \in SUBSET Card
      /\ combo_player' = p
      /\ passed' = {}
      /\ UNCHANGED discard
      /\ played' \in Seq(Seat)
  <2>1. cards \in SUBSET Card
    BY <1>1 DEF RoundTypeOK
  <2>2. combo_player \notin {None} => Append(played, combo_player) \in Seq(Seat)
    BY DEF RoundTypeOK
  <2> QED
    BY <2>1, <2>2 DEF PlayCards, RecordOwner, RoundTypeOK
<1>9. CASE /\ Len(fo) >= 3
           /\ FinalizeGame(fo, fin, sc)
           /\ current_player' = parked
           /\ UNCHANGED turn_seq
  <2>1. Len(fo) = 3
    BY <1>1, <1>2, <1>3, <1>9
  <2>2. \A i \in 1..3 : sc[fo[i]] = Points[i]
    BY <1>5, <2>1
  <2> HIDE DEF fo, fin, sc
  <2>3. /\ finished_order' \in Seq(Seat)
        /\ finished_order' \in Bijection(1..4, Seat)
        /\ Len(finished_order') = 4
        /\ finished' \in SUBSET Seat
        /\ scores' \in [Seat -> Int]
        /\ \A i \in 1..4 : scores'[finished_order'[i]] = Points[i]
        /\ total_scores' \in [Seat -> Int]
        /\ phase' = "GameOver"
        /\ round' \in Nat
        /\ game_winner' \in Seat \cup {None}
    BY <1>3, <1>4, <1>9, <2>1, <2>2, FinalizeRanksAll
  <2>4. RoundTypeOK'
    BY <1>7, <1>8, <1>9, <2>3 DEF RoundTypeOK, discard
  <2> QED
    BY <1>8, <1>9, <2>3, <2>4 DEF InRound, TrickRotation, RankingSoFar, MoveEffect
<1>10. CASE /\ Len(fo) < 3
            /\ Advance(fin)
            /\ finished_order' = fo
            /\ finished' = fin
            /\ scores' = sc
            /\ UNCHANGED result
  <2> HIDE DEF fo, fin, sc
  <2>1. /\ current_player' = SkipFinished(NextSeat(p), fin)
        /\ turn_seq' = turn_seq + 1
    BY <1>1, <1>10 DEF Advance
  <2>2. /\ current_player' \in Seat \ fin
        /\ current_player' # p
        /\ {} = {s \in Seat \ fin : Dist(p, s) \in 1..Dist(p, current_player') - 1}
    <3>1. PICK c : c = SkipFinished(NextSeat(p), fin)
      OBVIOUS
    <3>2. p \in Seat /\ fo \in Seq(Seat) /\ Len(fo) < 3 /\ fin \in SUBSET Seat /\ fin = Range(fo)
      BY <1>1, <1>3, <1>4, <1>10
    <3>3. /\ c \in Seat \ fin
          /\ c # p
          /\ {} = {s \in Seat \ fin : Dist(p, s) \in 1..Dist(p, c) - 1}
      BY <3>1, <3>2, TurnAfterPlay, Zenon
    <3>4. current_player' = c
      BY <2>1, <3>1
    <3> QED
      BY <3>3, <3>4
  <2>3. RoundTypeOK'
    <3>1. turn_seq' \in Nat /\ current_player' \in Seat
      BY <2>1, <2>2 DEF RoundTypeOK
    <3>2. finished_order' \in Seq(Seat) /\ finished' \in SUBSET Seat /\ scores' \in [Seat -> Int]
      BY <1>3, <1>4, <1>10
    <3>3. UNCHANGED <<phase, total_scores, round, game_winner, order, discarded>>
      BY <1>8, <1>10 DEF discard, result
    <3> QED
      BY <1>7, <1>8, <3>1, <3>2, <3>3 DEF RoundTypeOK
  <2>4. TrickRotation'
    BY <1>1, <1>8, <1>10, <2>2, NoneAssumption DEF TrickRotation, Dist, Seat
  <2>5. RankingSoFar'
    BY <1>3, <1>5, <1>6, <1>7, <1>10 DEF RankingSoFar
  <2>6. phase' = phase /\ phase # "GameOver"
    BY <1>10 DEF result, InRound
  <2> QED
    BY <1>8, <2>1, <2>3, <2>4, <2>5, <2>6 DEF MoveEffect
<1> QED
  BY <1>9, <1>10 DEF PlayCards

\* A function on 1..n is a sequence of length n.
LEMMA ListingIsSeq ==
    ASSUME NEW n \in Nat, NEW f \in [1..n -> Seat]
    PROVE  f \in Seq(Seat) /\ Len(f) = n
<1>1. f \in Seq(Seat)
  BY SeqDef
<1>2. Len(f) \in Nat /\ 1..Len(f) = 1..n
  BY <1>1, LenProperties
<1>3. Len(f) = n
  <2>1. Len(f) <= n
    <3>1. CASE Len(f) = 0
      BY <3>1
    <3>2. CASE Len(f) # 0
      <4>1. Len(f) \in 1..n
        BY <1>2, <3>2
      <4> QED
        BY <4>1
    <3> QED
      BY <3>1, <3>2
  <2>2. n <= Len(f)
    <3>1. CASE n = 0
      BY <1>2, <3>1
    <3>2. CASE n # 0
      <4>1. n \in 1..Len(f)
        BY <1>2, <3>2
      <4> QED
        BY <1>2, <4>1
    <3> QED
      BY <3>1, <3>2
  <2> QED
    BY <1>2, <2>1, <2>2
<1> QED
  BY <1>1, <1>3

\* A bomb that completes its trick ends the round.
LEMMA BombEndsRound ==
    ASSUME RoundTypeOK, combo_player \in Seat, EndGameByBomb
    PROVE  /\ finished_order' \in Seq(Seat)
           /\ Len(finished_order') >= 3
           /\ finished_order'[1] = combo_player
           /\ finished' \in SUBSET Seat
           /\ scores' \in [Seat -> Int]
           /\ total_scores' \in [Seat -> Int]
           /\ phase' = "GameOver"
           /\ round' \in Nat
           /\ game_winner' \in Seat \cup {None}
<1> DEFINE victim == IF played = <<>> THEN None ELSE played[Len(played)]
           sc == [s \in Seat |-> IF s = victim THEN Points[4]
                                  ELSE IF s = combo_player THEN Points[1] ELSE 0]
           tail == IF victim = None THEN <<>> ELSE <<victim>>
<1>1. victim \in Seat \cup {None}
  <2>1. CASE played = <<>>
    BY <2>1
  <2>2. CASE played # <<>>
    <3>1. played \in Seq(Seat)
      BY DEF RoundTypeOK
    <3>2. Len(played) \in 1..Len(played)
      BY <2>2, <3>1, EmptySeq
    <3>3. played[Len(played)] \in Seat
      BY <3>1, <3>2, ElementOfSeq
    <3> QED
      BY <2>2, <3>3
  <2> QED
    BY <2>1, <2>2
<1>2. PICK rest \in [1..2 -> Seat] \cup [1..3 -> Seat] :
          finished_order' = <<combo_player>> \o rest \o tail
  BY DEF EndGameByBomb
<1>3. finished' = Seat /\ BakeRound(sc)
  BY DEF EndGameByBomb
<1> HIDE DEF victim
<1>4. sc \in [Seat -> Int]
  BY PointsTypes
<1>5. tail \in Seq(Seat)
  BY <1>1
<1> HIDE DEF sc, tail
<1>6. rest \in Seq(Seat) /\ Len(rest) >= 2
  <2>1. CASE rest \in [1..2 -> Seat]
    <3>1. 2 \in Nat
      OBVIOUS
    <3>2. rest \in Seq(Seat) /\ Len(rest) = 2
      BY <2>1, <3>1, ListingIsSeq
    <3> QED
      BY <3>2
  <2>2. CASE rest \in [1..3 -> Seat]
    <3>1. 3 \in Nat
      OBVIOUS
    <3>2. rest \in Seq(Seat) /\ Len(rest) = 3
      BY <2>2, <3>1, ListingIsSeq
    <3> QED
      BY <3>2
  <2> QED
    BY <2>1, <2>2
<1>7. <<combo_player>> \in Seq(Seat) /\ Len(<<combo_player>>) = 1 /\ <<combo_player>>[1] = combo_player
  OBVIOUS
<1>8. /\ <<combo_player>> \o rest \in Seq(Seat)
      /\ Len(<<combo_player>> \o rest) = 1 + Len(rest)
      /\ (<<combo_player>> \o rest)[1] = combo_player
  BY <1>6, <1>7, ConcatProperties
<1>9. /\ finished_order' \in Seq(Seat)
      /\ Len(finished_order') >= 3
      /\ finished_order'[1] = combo_player
  <2> DEFINE head == <<combo_player>> \o rest
  <2>1. head \in Seq(Seat) /\ Len(head) >= 3 /\ Len(head) \in Nat /\ head[1] = combo_player
    BY <1>6, <1>8, LenProperties
  <2>2. finished_order' = head \o tail
    BY <1>2
  <2> HIDE DEF head
  <2>3. Len(tail) \in Nat
    BY <1>5, LenProperties
  <2> QED
    BY <1>5, <2>1, <2>2, <2>3, ConcatProperties
<1>10. /\ scores' = sc
       /\ total_scores' \in [Seat -> Int]
       /\ phase' = "GameOver"
       /\ round' \in Nat
       /\ game_winner' \in Seat \cup {None}
  BY <1>3, <1>4, BakeRoundTypes
<1> QED
  BY <1>3, <1>4, <1>9, <1>10

\* A legal pass keeps the table in order.
LEMMA PassStep ==
    ASSUME RoundInv, InRound,
           NEW p \in Seat, OnTurn(p), combo_player # None, Pass(p)
    PROVE  /\ RoundInv'
           /\ MoveEffect
           /\ UNCHANGED <<hand, discard>>
           /\ phase' = "GameOver" => IsBomb(table) /\ finished_order'[1] = combo_player
           /\ phase' # "GameOver" => UNCHANGED <<finished, finished_order, scores>>
<1> USE DEF RoundInv
<1>1. /\ p = current_player
      /\ p \notin finished
      /\ combo_player \in Seat
      /\ combo_player # p
      /\ table # {}
      /\ passed = {s \in Seat \ finished : Dist(combo_player, s) \in 1..Dist(combo_player, p) - 1}
  BY DEF OnTurn, TrickRotation, RoundTypeOK
<1>2. UNCHANGED <<hand, discard>>
  BY DEF Pass
<1>3. phase # "GameOver"
  BY DEF InRound
<1>4. CASE /\ IsBomb(table)
           /\ EndGameByBomb
           /\ NewTrick
           /\ UNCHANGED <<current_player, turn_seq>>
  <2>1. /\ finished_order' \in Seq(Seat)
        /\ Len(finished_order') >= 3
        /\ finished_order'[1] = combo_player
        /\ finished' \in SUBSET Seat
        /\ scores' \in [Seat -> Int]
        /\ total_scores' \in [Seat -> Int]
        /\ phase' = "GameOver"
        /\ round' \in Nat
        /\ game_winner' \in Seat \cup {None}
    BY <1>1, <1>4, BombEndsRound
  <2>2. /\ table' = {} /\ combo_player' = None /\ passed' = {} /\ played' = <<>>
        /\ played' \in Seq(Seat)
    BY <1>4 DEF NewTrick
  <2>3. RoundTypeOK'
    BY <1>2, <1>4, <2>1, <2>2 DEF RoundTypeOK, discard
  <2> QED
    BY <1>2, <1>4, <2>1, <2>3 DEF InRound, TrickRotation, RankingSoFar, MoveEffect
<1>5. CASE /\ ResolveTrick
           /\ UNCHANGED <<finished, finished_order, scores, result>>
  <2>1. finished # Seat
    BY <1>1
  <2>2. current_player' \in Seat \ finished
    BY <1>1, <1>5, <2>1, SkipFinishedNearest DEF ResolveTrick, RoundTypeOK
  <2>3. /\ table' = {} /\ combo_player' = None /\ passed' = {} /\ played' = <<>>
        /\ played' \in Seq(Seat)
        /\ turn_seq' = turn_seq + 1
        /\ UNCHANGED <<phase, total_scores, round, game_winner, order, discarded, hand>>
    BY <1>2, <1>5 DEF ResolveTrick, NewTrick, result, discard
  <2>4. RoundTypeOK'
    BY <1>5, <2>2, <2>3 DEF RoundTypeOK
  <2>5. TrickRotation'
    BY <1>5, <2>2, <2>3 DEF TrickRotation
  <2>6. RankingSoFar'
    BY <1>5, <2>3 DEF RankingSoFar, InRound
  <2> QED
    BY <1>2, <1>3, <1>5, <2>3, <2>4, <2>5, <2>6 DEF MoveEffect
<1>6. CASE /\ ~TrickComplete(passed \cup {p})
           /\ passed' = passed \cup {p}
           /\ Advance(finished)
           /\ UNCHANGED <<table, combo_player, played, finished, finished_order,
                          scores, result>>
  <2>1. PICK q \in Seat : q # combo_player /\ q \notin finished /\ q \notin passed \cup {p}
    BY <1>6 DEF TrickComplete
  <2>2. current_player' = SkipFinished(NextSeat(p), finished) /\ turn_seq' = turn_seq + 1
    BY <1>1, <1>6 DEF Advance
  <2>3. /\ current_player' \in Seat \ finished
        /\ current_player' # combo_player
        /\ passed \cup {p} = {s \in Seat \ finished :
                     Dist(combo_player, s) \in 1..Dist(combo_player, current_player') - 1}
    <3>1. finished \in SUBSET Seat /\ passed \in SUBSET Seat
      BY DEF RoundTypeOK
    <3> QED
      BY <1>1, <2>1, <2>2, <3>1, TurnAfterPass
  <2>4. UNCHANGED <<phase, total_scores, round, game_winner, order, discarded, hand>>
    BY <1>2, <1>6 DEF result, discard
  <2>5. RoundTypeOK'
    <3>1. current_player' \in Seat /\ passed' \in SUBSET Seat /\ turn_seq' \in Nat
      BY <1>6, <2>2, <2>3 DEF RoundTypeOK
    <3> QED
      BY <1>6, <2>4, <3>1 DEF RoundTypeOK
  <2>6. TrickRotation'
    BY <1>1, <1>6, <2>3 DEF TrickRotation, Dist
  <2>7. RankingSoFar'
    BY <1>6, <2>4 DEF RankingSoFar, InRound
  <2> QED
    BY <1>2, <1>3, <1>6, <2>2, <2>4, <2>5, <2>6, <2>7 DEF MoveEffect
<1> QED
  BY <1>4, <1>5, <1>6 DEF Pass
=============================================================================
