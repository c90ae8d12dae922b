---------------------------- MODULE GameActionProofs ----------------------------
(***************************************************************************)
(* What no step of a room may do, the end of the match, and that every     *)
(* round goes around the table.                                            *)
(***************************************************************************)
EXTENDS GameProofs

\* What a round leaves behind: its scores in the totals and one more round.
Baked ==
    /\ phase' = "GameOver"
    /\ round' = round + 1
    /\ total_scores' = [s \in Seat |-> total_scores[s] + scores'[s]]
    /\ game_winner' = MatchWinner(total_scores')

\* A move bakes the round when it ends it and leaves the result alone
\* otherwise.
LEMMA MoveBakes ==
    ASSUME NEW p, NEW cards, NEW parked,
           PlayCards(p, cards, parked) \/ Pass(p)
    PROVE  UNCHANGED result \/ Baked
<1>1. ASSUME NEW sc, BakeRound(sc)
      PROVE  Baked
  BY <1>1 DEF BakeRound, Baked
<1>2. CASE PlayCards(p, cards, parked)
  <2>1. \/ UNCHANGED result
        \/ \E fo, fin, sc : FinalizeGame(fo, fin, sc)
    BY <1>2 DEF PlayCards
  <2>2. (\E fo, fin, sc : FinalizeGame(fo, fin, sc)) => Baked
    BY <1>1 DEF FinalizeGame
  <2> QED
    BY <2>1, <2>2
<1>3. CASE Pass(p)
  <2>1. UNCHANGED result \/ EndGameByBomb
    BY <1>3 DEF Pass
  <2>2. EndGameByBomb => Baked
    BY <1>1 DEF EndGameByBomb
  <2> QED
    BY <2>1, <2>2
<1> QED
  BY <1>2, <1>3

\* A move of a seat, of a human, a bot or the watchdog for an idle human.
Move == \/ \E p \in Seat : HumanPlay(p) \/ HumanPass(p)
        \/ FireBotPlay
        \/ FireBotPass
        \/ FireWatchdogPlay
        \/ FireWatchdogPass

\* The two things a move does.
PlayOnTurn ==
    /\ InRound
    /\ \E cards \in SUBSET hand[current_player], parked \in Seat :
          cards # {} /\ PlayCards(current_player, cards, parked)

PassOnTurn ==
    InRound /\ OnTurn(current_player) /\ combo_player # None /\ Pass(current_player)

\* What the actions that are not moves leave alone.
AtRest ==
    /\ UNCHANGED <<total_scores, round, game_winner>>
    /\ \/ UNCHANGED <<hand, trick, finished_order, scores, phase, turn_seq>>
       \/ phase = "Lobby" /\ phase' = "ThreeDiscard" /\ turn_seq' = turn_seq
       \/ /\ phase = "ThreeDiscard" /\ phase' = "Playing" /\ turn_seq' = turn_seq + 1
          /\ UNCHANGED <<hand, trick>>
       \/ /\ phase = "GameOver" /\ phase' = "Playing"
          /\ game_winner = None
          /\ turn_seq' = turn_seq + 1

\* Every kind of move is a play or a pass of the seat on turn.
LEMMA MoveKinds ==
    ASSUME GameInv, Move
    PROVE  PlayOnTurn \/ PassOnTurn
<1>0. RoundInv /\ current_player \in Seat
  BY DEF GameInv, RoundInv, TypeOK, RoundTypeOK
<1>1. ASSUME NEW p \in Seat, NEW cards, MayPlay(p, cards), PlayCards(p, cards, p)
      PROVE  PlayOnTurn
  <2>1. p = current_player /\ cards \subseteq hand[p] /\ cards # {} /\ OnTurn(p)
    BY <1>1, PlayIsNotEmpty DEF MayPlay, OnTurn
  <2>2. hand[p] # {}
    BY <2>1
  <2> QED
    BY <1>1, <2>1, <2>2, MovesInRound DEF PlayOnTurn
<1>2. ASSUME NEW p \in Seat, MayPass(p), Pass(p)
      PROVE  PassOnTurn
  BY <1>2, MovesInRound DEF MayPass, OnTurn, PassOnTurn
<1>3. CASE \E p \in Seat : HumanPlay(p) \/ HumanPass(p)
  <2>1. PICK p \in Seat : HumanPlay(p) \/ HumanPass(p)
    BY <1>3
  <2>2. CASE HumanPlay(p)
    <3>1. PICK cards : MayPlay(p, cards) /\ PlayCards(p, cards, p)
      BY <2>2 DEF HumanPlay
    <3> QED
      BY <1>0, <1>1, <3>1
  <2>3. CASE HumanPass(p)
    <3>1. MayPass(p) /\ Pass(p)
      BY <2>3 DEF HumanPass
    <3> QED
      BY <1>2, <3>1
  <2> QED
    BY <2>1, <2>2, <2>3
<1>4. CASE FireWatchdogPlay
  <2>1. PICK cards : /\ MayPlay(current_player, cards)
                     /\ PlayCards(current_player, cards, current_player)
    BY <1>4 DEF FireWatchdogPlay
  <2> QED
    BY <1>0, <1>1, <2>1
<1>5. CASE FireWatchdogPass
  <2>1. MayPass(current_player) /\ Pass(current_player)
    BY <1>5 DEF FireWatchdogPass
  <2> QED
    BY <1>0, <1>2, <2>1
<1>6. CASE FireBotPlay
  <2>1. PICK cards \in BotPlays(hand[current_player], table) :
          PlayCards(current_player, cards,
                    SkipFinished(current_player, finished \cup {current_player}))
    BY <1>6 DEF FireBotPlay
  <2>2. cards \subseteq hand[current_player] /\ cards # {}
    BY <2>1, BotPlaysFromHand
  <2>3. SkipFinished(current_player, finished \cup {current_player}) \in Seat
    <3>1. finished \cup {current_player} \in SUBSET Seat
      BY <1>0 DEF GameInv, TypeOK, RoundTypeOK
    <3> QED
      BY <1>0, <3>1, SkipFinishedNearest
  <2>4. InRound
    BY <1>6 DEF FireBotPlay, InRound
  <2> QED
    BY <2>1, <2>2, <2>3, <2>4 DEF PlayOnTurn
<1>7. CASE FireBotPass
  <2>1. InRound /\ Pass(current_player)
    BY <1>7 DEF FireBotPass, InRound
  <2>2. /\ hand[current_player] \in SUBSET Card /\ hand[current_player] # {}
        /\ Len(finished_order) < 3
        /\ combo_player = None => table = {}
    BY <1>0, <2>1 DEF RoundInv, RoundTypeOK, RankingSoFar, TrickRotation
  <2>3. combo_player # None
    BY <1>7, <2>2, BotLeads DEF FireBotPass
  <2> QED
    BY <2>1, <2>2, <2>3 DEF OnTurn, PassOnTurn
<1> QED
  BY <1>3, <1>4, <1>5, <1>6, <1>7 DEF Move

\* What a move does, for every kind of it.
LEMMA MoveFacts ==
    ASSUME GameInv, Move
    PROVE  /\ InRound /\ MoveEffect
           /\ UNCHANGED result \/ Baked
           /\ phase' = "GameOver" =>
                \/ /\ hand' # hand
                   /\ finished_order' \in Bijection(1..4, Seat)
                   /\ \A i \in 1..4 : scores'[finished_order'[i]] = Points[i]
                \/ /\ hand' = hand
                   /\ IsBomb(table)
                   /\ finished_order'[1] = combo_player
<1>1. RoundInv /\ current_player \in Seat
  BY DEF GameInv, RoundInv, TypeOK, RoundTypeOK
<1>2. PlayOnTurn \/ PassOnTurn
  BY MoveKinds
<1>3. CASE PlayOnTurn
  <2>1. PICK cards \in SUBSET hand[current_player], parked \in Seat :
             /\ cards # {}
             /\ PlayCards(current_player, cards, parked)
             /\ InRound
    BY <1>3 DEF PlayOnTurn
  <2>2. UNCHANGED result \/ Baked
    BY <2>1, MoveBakes
  <2>3. hand' # hand
    <3>1. hand' = [hand EXCEPT ![current_player] = @ \ cards] /\ hand \in [Seat -> SUBSET Card]
      BY <1>1, <2>1 DEF PlayCards, RoundInv, RoundTypeOK
    <3>2. hand'[current_player] = hand[current_player] \ cards
      BY <1>1, <3>1
    <3> QED
      BY <2>1, <3>2
  <2>4. /\ MoveEffect
        /\ phase' = "GameOver" => /\ finished_order' \in Bijection(1..4, Seat)
                                  /\ \A i \in 1..4 : scores'[finished_order'[i]] = Points[i]
    BY <1>1, <2>1, PlayStep
  <2> QED
    BY <2>1, <2>2, <2>3, <2>4
<1>4. CASE PassOnTurn
  <2>1. UNCHANGED result \/ Baked
    BY <1>4, MoveBakes DEF PassOnTurn
  <2>2. /\ MoveEffect
        /\ UNCHANGED <<hand, discard>>
        /\ phase' = "GameOver" => IsBomb(table) /\ finished_order'[1] = combo_player
    BY <1>1, <1>4, PassStep DEF PassOnTurn
  <2> QED
    BY <1>4, <2>1, <2>2 DEF PassOnTurn
<1> QED
  BY <1>2, <1>3, <1>4

\* Every step is a move or leaves the round and the result at rest.
LEMMA StepKinds ==
    ASSUME GameInv, [Next]_vars
    PROVE  Move \/ AtRest
<1>1. CASE StartGame
  BY <1>1 DEF StartGame, DealAndStartDiscard, AtRest
<1>2. CASE StartNextRound
  BY <1>2 DEF StartNextRound, DealNextRound, AtRest
<1>3. CASE \E s \in Seat : Request(s)
  <2>1. PICK s \in Seat : Request(s)
    BY <1>3
  <2>2. CASE HumanPlay(s) \/ HumanPass(s)
    BY <2>2 DEF Move
  <2>3. CASE Disconnect(s) \/ Leave(s) \/ Rejoin(s) \/ ExpireRejoin(s)
    BY <2>3 DEF Disconnect, Leave, Rejoin, ExpireRejoin, AtRest, roundVars, result, trick
  <2> QED
    BY <2>1, <2>2, <2>3 DEF Request
<1>4. CASE Drive
  <2>1. CASE FireEnterPlaying \/ FireBotTurnOfHuman \/ FireWatchdogOnBot
    BY <2>1 DEF FireEnterPlaying, FireBotTurnOfHuman, FireWatchdogOnBot, AtRest,
                roundVars, result, trick
  <2>2. CASE FireStepThreeDiscard
    BY <2>2 DEF FireStepThreeDiscard, DiscardThrees, AtRest, result
  <2>3. CASE FireLastThreeDiscard
    BY <2>3 DEF FireLastThreeDiscard, FinishDiscard, AtRest, GameInv, OneTimer
  <2> QED
    BY <1>4, <2>1, <2>2, <2>3 DEF Drive, Move
<1>5. CASE UNCHANGED vars
  BY <1>5 DEF vars, AtRest, roundVars, result, trick
<1> QED
  BY <1>1, <1>2, <1>3, <1>4, <1>5 DEF Next

\* Totals and the round number change exactly when a round ends.
THEOREM RoundsAreBakedOnce == Spec => RoundBakedOnce
<1> DEFINE Step == /\ round' # round \/ total_scores' # total_scores => RoundOver
                   /\ RoundOver => /\ round' = round + 1
                                   /\ \A s \in Seat : total_scores'[s] = total_scores[s] + scores'[s]
<1>1. ASSUME GameInv, [Next]_vars
      PROVE  Step
  <2>1. CASE Move
    BY <1>1, <2>1, MoveFacts DEF Baked, RoundOver, InRound, result
  <2>2. CASE AtRest
    BY <2>2 DEF AtRest, RoundOver
  <2> QED
    BY <1>1, <2>1, <2>2, StepKinds
<1> QED
  BY <1>1, Invariance, PTL DEF Spec, RoundBakedOnce

\* The step that ends a round with a play ranks all seats and pays them by
\* position; with a pass, it is for a bomb, and its owner comes first.
THEOREM RoundsAreRanked == Spec => RoundRanking
<1>1. ASSUME GameInv, [Next]_vars
      PROVE  RoundOver =>
               IF hand' # hand
               THEN /\ finished_order' \in Bijection(1..4, Seat)
                    /\ \A i \in 1..4 : scores'[finished_order'[i]] = Points[i]
               ELSE IsBomb(table) /\ finished_order'[1] = combo_player
  <2>1. CASE Move
    BY <1>1, <2>1, MoveFacts DEF RoundOver
  <2>2. CASE AtRest
    BY <2>2 DEF AtRest, RoundOver
  <2> QED
    BY <1>1, <2>1, <2>2, StepKinds
<1> QED
  BY <1>1, Invariance, PTL DEF Spec, RoundRanking

\* A step that moves cards or the trick is told by turn_seq or the phase.
THEOREM MovesAreTold == Spec => EveryMoveCounts
<1>1. ASSUME GameInv, [Next]_vars
      PROVE  /\ turn_seq' \in {turn_seq, turn_seq + 1}
             /\ turn_seq' = turn_seq /\ phase' = phase =>
                    UNCHANGED <<hand, trick, finished_order, scores>>
  <2>1. turn_seq \in Nat
    BY <1>1 DEF GameInv, TypeOK, RoundTypeOK
  <2>2. CASE Move
    BY <1>1, <2>1, <2>2, MoveFacts DEF MoveEffect, InRound
  <2>3. CASE AtRest
    BY <2>1, <2>3 DEF AtRest
  <2> QED
    BY <1>1, <2>2, <2>3, StepKinds
<1> QED
  BY <1>1, Invariance, PTL DEF Spec, EveryMoveCounts

LEMMA IntervalSize ==
    ASSUME NEW n \in Nat
    PROVE  IsFiniteSet(0..n) /\ Cardinality(0..n) = n + 1
<1>1. 0 \in Int /\ n \in Int /\ ~(0 > n) /\ n - 0 + 1 = n + 1
  OBVIOUS
<1>2. /\ IsFiniteSet(0..n)
      /\ Cardinality(0..n) = IF 0 > n THEN 0 ELSE n - 0 + 1
  BY <1>1, FS_Interval
<1> QED
  BY <1>1, <1>2

\* The cards held are finitely many.
LEMMA HeldIsFinite ==
    ASSUME NEW h \in [Seat -> SUBSET Card]
    PROVE  LET held == UNION {{s} \X h[s] : s \in Seat}
           IN  IsFiniteSet(held) /\ Cardinality(held) \in Nat
<1> DEFINE held == UNION {{s} \X h[s] : s \in Seat}
<1>1. IsFiniteSet(Seat) /\ IsFiniteSet(Card)
  BY IntervalSize DEF Seat, Card
<1>2. IsFiniteSet(Seat \X Card)
  BY <1>1, FS_Product
<1>3. held \in SUBSET (Seat \X Card)
  OBVIOUS
<1> HIDE DEF held
<1>4. IsFiniteSet(held) /\ Cardinality(held) \in Nat
  BY <1>2, <1>3, FS_Subset, FS_CardinalityType
<1> QED
  BY <1>4 DEF held

\* A set of seats has four elements at most, and fewer without one of its own.
LEMMA CountOfSeats ==
    ASSUME NEW S \in SUBSET Seat
    PROVE  /\ IsFiniteSet(S) /\ Cardinality(S) \in 0..4
           /\ \A p \in S : Cardinality(S \ {p}) < Cardinality(S)
<1>1. IsFiniteSet(Seat) /\ Cardinality(Seat) = 4
  <2>1. 3 \in Nat /\ 3 + 1 = 4
    OBVIOUS
  <2>2. IsFiniteSet(0..3) /\ Cardinality(0..3) = 3 + 1
    BY <2>1, IntervalSize
  <2> QED
    BY <2>1, <2>2 DEF Seat
<1>2. IsFiniteSet(S) /\ Cardinality(S) <= 4
  BY <1>1, FS_Subset
<1>3. Cardinality(S) \in Nat
  BY <1>2, FS_CardinalityType
<1>4. Cardinality(S) \in 0..4
  BY <1>2, <1>3
<1>5. ASSUME NEW p \in S
      PROVE  Cardinality(S \ {p}) < Cardinality(S)
  <2>1. Cardinality(S \ {p}) = Cardinality(S) - 1
    BY <1>2, FS_RemoveElement
  <2> QED
    BY <1>3, <2>1
<1> QED
  BY <1>2, <1>4, <1>5

\* A play takes cards out of a hand, whatever it leaves to be passed.
LEMMA PlayLessens ==
    ASSUME GameInv, PlayOnTurn
    PROVE  Work' < Work
<1>1. /\ hand \in [Seat -> SUBSET Card] /\ passed \in SUBSET Seat
      /\ current_player \in Seat
  BY DEF GameInv, TypeOK, RoundTypeOK
<1>2. PICK cards \in SUBSET hand[current_player] :
         /\ cards # {} /\ passed' = {}
         /\ hand' = [hand EXCEPT ![current_player] = @ \ cards]
  BY DEF PlayOnTurn, PlayCards
<1>3. PICK c \in cards : c \in hand[current_player]
  BY <1>2
<1>4. hand' \in [Seat -> SUBSET Card] /\ \A s \in Seat : hand'[s] \subseteq hand[s]
  BY <1>1, <1>2
<1>5. hand'[current_player] = hand[current_player] \ cards
  BY <1>1, <1>2
<1>6. Held' \in SUBSET Held
  BY <1>4 DEF Held
<1>7. Held' # Held
  <2>1. <<current_player, c>> \in Held
    BY <1>1, <1>3 DEF Held
  <2>2. <<current_player, c>> \notin Held'
    BY <1>3, <1>5 DEF Held
  <2> QED
    BY <2>1, <2>2
<1>8. IsFiniteSet(Held) /\ Cardinality(Held) \in Nat
  BY <1>1, HeldIsFinite DEF Held
<1>9. /\ IsFiniteSet(Held') /\ Cardinality(Held') <= Cardinality(Held)
      /\ Cardinality(Held') # Cardinality(Held)
  BY <1>6, <1>7, <1>8, FS_Subset
<1>10. Cardinality(Held') \in Nat
  BY <1>9, FS_CardinalityType
<1>11. Cardinality(Seat \ passed) \in 0..4 /\ Cardinality(Seat \ passed') \in 0..4
  BY <1>1, <1>2, CountOfSeats
<1>12. PICK h, h1, n, n1 : /\ h = Cardinality(Held) /\ h1 = Cardinality(Held)'
                           /\ n = Cardinality(Seat \ passed)
                           /\ n1 = Cardinality(Seat \ passed)'
  OBVIOUS
<1>13. h \in Nat /\ h1 \in Nat /\ h1 < h /\ n \in 0..4 /\ n1 \in 0..4
  BY <1>8, <1>9, <1>10, <1>11, <1>12
<1>14. Work \in {5 * h, 5 * h + n} /\ Work' \in {5 * h1, 5 * h1 + n1}
  BY <1>12, <1>13 DEF Work
<1> QED
  BY <1>13, <1>14

\* A pass takes its seat from those the trick waits for, or ends the trick.
LEMMA PassLessens ==
    ASSUME GameInv, PassOnTurn
    PROVE  Work' < Work
<1>1. /\ hand \in [Seat -> SUBSET Card] /\ passed \in SUBSET Seat
      /\ current_player \in Seat /\ combo_player \in Seat
      /\ InRound /\ table # {}
      /\ passed = {s \in Seat \ finished :
                     Dist(combo_player, s) \in 1..Dist(combo_player, current_player) - 1}
  BY DEF GameInv, TypeOK, RoundTypeOK, PassOnTurn, TrickRotation
<1>2. current_player \in Seat \ passed
  BY <1>1 DEF Dist, Seat
<1>3. /\ UNCHANGED hand
      /\ \/ table' = {}
         \/ table' = table /\ passed' = passed \cup {current_player}
  BY DEF PassOnTurn, Pass, NewTrick, ResolveTrick
<1>4. Cardinality(Held) \in Nat
  BY <1>1, HeldIsFinite DEF Held
<1>5. Held' = Held
  BY <1>3 DEF Held
<1>6. PICK S \in SUBSET Seat : S = Seat \ passed
  BY <1>1
<1>7. /\ Cardinality(S) \in 0..4 /\ Cardinality(S \ {current_player}) \in 0..4
      /\ Cardinality(S \ {current_player}) < Cardinality(S)
  BY <1>2, <1>6, CountOfSeats
<1>8. Work = 5 * Cardinality(Held) + Cardinality(S)
  BY <1>1, <1>6 DEF Work
<1>9. \/ Work' = 5 * Cardinality(Held)
      \/ Work' = 5 * Cardinality(Held) + Cardinality(S \ {current_player})
  <2>1. CASE table' = {}
    <3>1. Work' = 5 * Cardinality(Held') + 0
      BY <2>1 DEF Work
    <3> QED
      BY <1>4, <1>5, <3>1
  <2>2. CASE table' = table /\ passed' = passed \cup {current_player}
    <3>1. Seat \ passed' = S \ {current_player}
      BY <1>6, <2>2
    <3>2. Work' = 5 * Cardinality(Held') + Cardinality(Seat \ passed')
      BY <1>1, <2>2 DEF Work
    <3> QED
      BY <1>5, <3>1, <3>2
  <2> QED
    BY <1>3, <2>1, <2>2
<1>10. PICK h, m, n : /\ h = Cardinality(Held) /\ n = Cardinality(S)
                      /\ m = Cardinality(S \ {current_player})
  OBVIOUS
<1>11. h \in Nat /\ n \in 0..4 /\ m \in 0..4 /\ m < n
  BY <1>4, <1>7, <1>10
<1>12. Work = 5 * h + n /\ Work' \in {5 * h, 5 * h + m}
  BY <1>8, <1>9, <1>10
<1> QED
  BY <1>11, <1>12

\* Within a round every move brings the work left down, and nothing brings it up:
\* no round goes on for ever, whatever is dealt and whoever moves.
THEOREM RoundsRunOut == Spec => MovesRunOut
<1>1. ASSUME GameInv, [Next]_vars, InRound, InRound'
      PROVE  /\ Work' <= Work
             /\ turn_seq' # turn_seq /\ phase' = phase => Work' < Work
  <2>1. Work \in Int /\ Work' \in Int
    <3>1. ASSUME NEW h \in Nat, NEW n \in 0..4
          PROVE  5 * h + 0 \in Int /\ 5 * h + n \in Int
      OBVIOUS
    <3>2. GameInv'
      BY <1>1, NextKeepsInv
    <3>3. /\ hand \in [Seat -> SUBSET Card] /\ passed \in SUBSET Seat
          /\ hand' \in [Seat -> SUBSET Card] /\ passed' \in SUBSET Seat
      BY <1>1, <3>2 DEF GameInv, TypeOK, RoundTypeOK
    <3>4. Cardinality(Held) \in Nat /\ Cardinality(Held') \in Nat
      BY <3>3, HeldIsFinite DEF Held
    <3>5. Cardinality(Seat \ passed) \in 0..4 /\ Cardinality(Seat \ passed') \in 0..4
      BY <3>3, CountOfSeats
    <3> QED
      BY <3>1, <3>4, <3>5 DEF Work
  <2>2. CASE Move
    <3>1. Work' < Work
      BY <1>1, <2>2, MoveKinds, PlayLessens, PassLessens
    <3> QED
      BY <2>1, <3>1
  <2>3. CASE AtRest
    <3>1. /\ UNCHANGED <<hand, trick>>
          /\ turn_seq' = turn_seq \/ phase' # phase
      BY <1>1, <2>3 DEF AtRest, InRound
    <3>2. Work' = Work
      BY <3>1 DEF Work, Held, trick
    <3> QED
      BY <2>1, <3>1, <3>2
  <2> QED
    BY <1>1, <2>2, <2>3, StepKinds
<1> QED
  BY <1>1, Invariance, PTL DEF Spec, MovesRunOut

\* The match ends with the first round in which a seat reaches the winning
\* point, and not before.
THEOREM MatchEnds == Spec => []MatchEndsAtTarget
<1>1. Init => MatchEndsAtTarget
  <2> SUFFICES ASSUME Init
               PROVE  MatchEndsAtTarget
    OBVIOUS
  <2>1. 0 < WinningPoint
    BY WinningPointAssumption
  <2>2. /\ game_winner = None /\ phase = "Lobby"
        /\ total_scores = [s \in Seat |-> 0]
    BY DEF Init, RoundInit
  <2>3. \A s \in Seat : total_scores[s] = 0
    BY <2>2
  <2> QED
    BY <2>1, <2>2, <2>3 DEF MatchEndsAtTarget
<1>2. ASSUME GameInv, MatchEndsAtTarget, [Next]_vars
      PROVE  MatchEndsAtTarget'
  <2>1. CASE AtRest
    <3>1. game_winner # None => phase' = "GameOver"
      BY <1>2, <2>1 DEF AtRest, MatchEndsAtTarget
    <3> QED
      BY <1>2, <2>1, <3>1 DEF AtRest, MatchEndsAtTarget
  <2>2. CASE Move /\ UNCHANGED result
    BY <1>2, <2>2 DEF result, MatchEndsAtTarget
  <2>3. CASE Move /\ Baked
    <3>1. game_winner = None
      BY <1>2, <2>3, MoveFacts DEF InRound, MatchEndsAtTarget
    <3> DEFINE reached == {s \in Seat : total_scores'[s] >= WinningPoint}
    <3>2. game_winner' = IF reached = {} THEN None ELSE Min(reached)
      BY <2>3, <3>1 DEF Baked, MatchWinner
    <3>3. total_scores' \in [Seat -> Int] /\ WinningPoint \in Int
      <4>1. GameInv'
        BY <1>2, NextKeepsInv
      <4>2. TypeOK'
        BY <4>1 DEF GameInv
      <4>3. total_scores' \in [Seat -> Int]
        BY <4>2 DEF TypeOK, RoundTypeOK
      <4>4. WinningPoint \in Int
        BY WinningPointAssumption
      <4> QED
        BY <4>3, <4>4
    <3>4. phase' = "GameOver"
      BY <2>3 DEF Baked
    <3>5. CASE reached = {}
      <4>1. \A s \in Seat : ~(total_scores'[s] >= WinningPoint)
        BY <3>5
      <4>2. \A s \in Seat : total_scores'[s] < WinningPoint
        BY <3>3, <4>1
      <4> QED
        BY <3>2, <3>5, <4>2 DEF MatchEndsAtTarget
    <3>6. CASE reached # {}
      <4>1. PICK w : w = Min(reached)
        OBVIOUS
      <4>2. w \in reached /\ \A t \in reached : w <= t
        <5>1. reached \in SUBSET Seat
          OBVIOUS
        <5> HIDE DEF reached
        <5> QED
          BY <3>6, <4>1, <5>1, MinSeat
      <4>3. game_winner' = w /\ w \in Seat /\ w # None
        BY <3>2, <3>6, <4>1, <4>2, NoneAssumption DEF Seat
      <4>4. \A s \in Seat : s < w => s \notin reached
        BY <4>2 DEF Seat
      <4>5. \A s \in Seat : s < w => total_scores'[s] < WinningPoint
        BY <3>3, <4>4
      <4> QED
        BY <3>4, <4>2, <4>3, <4>5 DEF MatchEndsAtTarget
    <3> QED
      BY <3>5, <3>6
  <2> QED
    BY <1>2, <2>1, <2>2, <2>3, StepKinds, MoveFacts
<1> QED
  BY <1>1, <1>2, Invariance, PTL DEF Spec

-----------------------------------------------------------------------------
(* The driver is never disarmed by accident.                               *)

\* The two steps that may leave a room without a timer.
HumanOnTurnGoes == ~IsBot(current_player) /\ control'[current_player] # "human"
PlayedEarly     == phase = "ThreeDiscard" /\ combo_player' # combo_player

\* What is armed after a move or a deal serves the seat on turn.
LEMMA ArmsTheTurn ==
    ASSUME NEW left,
           \/ ArmAfterPlaying(left)
           \/ ArmAfterHumanMove
           \/ ArmAfterBotTurn,
           phase' = "Playing",
           UNCHANGED control,
           turn_seq' \in Nat,
           current_player' \notin finished'
    PROVE  Armed'
<1>1. \/ IsBot(current_player') /\ pending' = "BotTurn"
      \/ ~IsBot(current_player') /\ watchdog' = turn_seq'
  BY DEF ArmAfterPlaying, ArmAfterHumanMove, ArmAfterBotTurn, ArmTurn, ArmWatchdog
<1>2. pending' = "BotTurn" => pending' # None
  BY NoneAssumption
<1> QED
  BY <1>1, <1>2 DEF Armed, WatchdogDue, IsBot

\* A move arms the turn it passes on to.
LEMMA MoveArms ==
    ASSUME GameInv, GameInv', Armed, Move, ~PlayedEarly
    PROVE  Armed'
<1>1. /\ InRound
      /\ phase' \in {phase, "GameOver"}
      /\ turn_seq' \in Nat
      /\ phase' = "Playing" => current_player' \notin finished'
  BY MoveFacts DEF MoveEffect, GameInv, TypeOK, RoundTypeOK, TrickRotation, InRound
<1>2. CASE phase' = "GameOver"
  BY <1>2 DEF Armed
<1>3. CASE phase' = "Playing"
  <2>1. /\ UNCHANGED control
        /\ ArmAfterPlaying(None) \/ ArmAfterHumanMove \/ ArmAfterBotTurn
    BY DEF Move, HumanPlay, HumanPass, FireBotPlay, FireBotPass, FireWatchdogPlay,
           FireWatchdogPass
  <2> QED
    BY <1>1, <1>3, <2>1, ArmsTheTurn
<1>4. CASE phase = "ThreeDiscard"
  <2>1. combo_player = None
    BY <1>4 DEF Armed, GameInv, OneTimer
  <2>2. PICK p \in Seat : HumanPlay(p)
    BY <1>4, <2>1 DEF Move, HumanPass, MayPass, FireBotPlay, FireBotPass,
                      FireWatchdogPlay, FireWatchdogPass, WatchdogDue
  <2>3. combo_player' = p
    BY <2>2 DEF HumanPlay, PlayCards
  <2>4. p # None
    BY NoneAssumption DEF Seat
  <2> QED
    BY <1>4, <2>1, <2>3, <2>4 DEF PlayedEarly
<1> QED
  BY <1>1, <1>2, <1>3, <1>4 DEF InRound

\* A seat that turns into a bot or back leaves the room armed, unless it is
\* the human on turn who goes.
LEMMA SeatChangeArms ==
    ASSUME GameInv, Armed, NEW s \in Seat, ~HumanOnTurnGoes,
           Disconnect(s) \/ Leave(s) \/ Rejoin(s) \/ ExpireRejoin(s)
    PROVE  Armed'
<1>1. UNCHANGED <<phase, pending, watchdog, turn_seq, current_player>>
  BY DEF Disconnect, Leave, Rejoin, ExpireRejoin, roundVars, result, driver
<1>2. ~IsBot(current_player) => control'[current_player] = "human"
  BY DEF HumanOnTurnGoes
<1> QED
  BY <1>1, <1>2 DEF Armed, WatchdogDue, IsBot

\* No step disarms an armed room but the human on turn going and a play
\* before the phase is Playing.
THEOREM RoomsStayArmed == Spec => StaysArmed
<1>1. ASSUME GameInv, [Next]_vars, Armed, ~HumanOnTurnGoes, ~PlayedEarly
      PROVE  Armed'
  <2>1. GameInv'
    BY <1>1, NextKeepsInv
  <2>2. CASE Move
    BY <1>1, <2>1, <2>2, MoveArms
  <2>3. CASE StartGame
    BY <2>3 DEF StartGame, DealAndStartDiscard, Armed
  <2>4. CASE StartNextRound
    BY <2>4, NoneAssumption DEF StartNextRound, DealNextRound, Armed
  <2>5. CASE \E s \in Seat : Disconnect(s) \/ Leave(s) \/ Rejoin(s) \/ ExpireRejoin(s)
    BY <1>1, <2>5, SeatChangeArms
  <2>6. CASE FireEnterPlaying \/ FireBotTurnOfHuman \/ FireLastThreeDiscard
    <3>1. /\ phase' = "Playing"
          /\ UNCHANGED control
          /\ ArmAfterPlaying(watchdog) \/ ArmAfterBotTurn
      BY <2>6 DEF FireEnterPlaying, FireBotTurnOfHuman, FireLastThreeDiscard,
                  FinishDiscard, roundVars, result
    <3>2. turn_seq' \in Nat /\ current_player' \notin finished'
      BY <2>1, <3>1 DEF GameInv, TypeOK, RoundTypeOK, TrickRotation, InRound
    <3> QED
      BY <3>1, <3>2, ArmsTheTurn
  <2>7. CASE FireStepThreeDiscard
    BY <1>1, <2>7 DEF FireStepThreeDiscard, DiscardThrees, driver, result, Armed,
                      GameInv, OneTimer
  <2>8. CASE FireWatchdogOnBot
    BY <1>1, <2>8 DEF FireWatchdogOnBot, Armed, GameInv, OneTimer, WatchdogDue
  <2>9. CASE UNCHANGED vars
    BY <1>1, <2>9 DEF vars, roundVars, driver, result, Armed, WatchdogDue, IsBot
  <2> QED
    BY <1>1, <2>2, <2>3, <2>4, <2>5, <2>6, <2>7, <2>8, <2>9 DEF Next, Request, Drive, Move
<1>2. ASSUME GameInv, [Next]_vars
      PROVE  /\ Armed
             /\ ~(~IsBot(current_player) /\ control'[current_player] # "human")
             /\ ~(phase = "ThreeDiscard" /\ combo_player' # combo_player)
             => Armed'
  BY <1>1, <1>2 DEF HumanOnTurnGoes, PlayedEarly
<1> QED
  BY <1>2, Invariance, PTL DEF Spec, StaysArmed
-----------------------------------------------------------------------------
(* Every room goes around the table as TurnOrder says.                     *)

\* What Around puts for the variables of TurnOrder.
Stage == IF ~InRound THEN "over"
         ELSE IF pending = "StepThreeDiscard" THEN "dealt" ELSE "playing"

Owner   == IF InRound THEN combo_player ELSE None
Waiting == IF InRound THEN Seat \ (finished \cup passed \cup {combo_player}) ELSE {}
Turn    == IF InRound THEN current_player ELSE None

LEMMA SameSeats == Around!Seat = Seat
  BY DEF Around!Seat, Seat

LEMMA RankedIsRange == ASSUME NEW fo \in Seq(Seat) PROVE Around!Ranked(fo) = Range(fo)
  BY DEF Around!Ranked, Range

\* The first of S from seat s on is the one that no other is nearer than.
LEMMA FirstIsNearest ==
    ASSUME NEW s \in Seat, NEW S \in SUBSET Seat, NEW c \in S,
           \A u \in S : Dist(s, c) <= Dist(s, u)
    PROVE  Around!First(s, S) = c
<1> DEFINE IsFirst(t) == t \in S /\ \A u \in S : (t - s) % 4 <= (u - s) % 4
<1>1. IsFirst(c)
  BY DEF Dist
<1>2. ASSUME NEW t, IsFirst(t)
      PROVE  t = c
  <2>1. Dist(s, t) <= Dist(s, c) /\ Dist(s, c) <= Dist(s, t) /\ t \in Seat /\ c \in Seat
    BY <1>2 DEF Dist
  <2>2. Dist(s, t) \in 0..3 /\ Dist(s, c) \in 0..3
    BY <2>1, SeatArith
  <2>3. Dist(s, t) = Dist(s, c)
    BY <2>1, <2>2
  <2>4. (s + Dist(s, t)) % 4 = t /\ (s + Dist(s, c)) % 4 = c
    BY <2>1, SeatArith
  <2> QED
    BY <2>3, <2>4
<1>3. Around!First(s, S) = CHOOSE t : IsFirst(t)
  BY DEF Around!First
<1> HIDE DEF IsFirst
<1>4. IsFirst(CHOOSE t : IsFirst(t))
  BY <1>1
<1> QED
  BY <1>2, <1>3, <1>4

\* Who is reached from the seat after p on is reached from p on.
LEMMA FirstAfter ==
    ASSUME NEW p \in Seat, NEW fin \in SUBSET Seat, fin # Seat,
           NEW c, c = SkipFinished(NextSeat(p), fin),
           NEW S \in SUBSET (Seat \ fin), c \in S, p \notin S
    PROVE  Around!First(p, S) = c
<1>1. NextSeat(p) \in Seat
  BY SeatArith
<1>2. c \in Seat /\ \A t \in Seat \ fin : Dist(NextSeat(p), c) <= Dist(NextSeat(p), t)
  BY <1>1, SkipFinishedNearest
<1>3. \A u \in S : Dist(p, c) <= Dist(p, u)
  <2> TAKE u \in S
  <2>1. u \in Seat \ fin /\ u # p /\ c # p
    OBVIOUS
  <2>2. /\ Dist(NextSeat(p), c) = Dist(p, c) - 1
        /\ Dist(NextSeat(p), u) = Dist(p, u) - 1
    BY <1>2, <2>1, DistFacts
  <2>3. Dist(p, c) \in 0..3 /\ Dist(p, u) \in 0..3
    BY <1>2, <2>1, SeatArith
  <2> QED
    BY <1>2, <2>1, <2>2, <2>3
<1> QED
  BY <1>3, FirstIsNearest

LEMMA ConcatIsSeq ==
    ASSUME NEW S, NEW x \in Seq(S), NEW y \in Seq(S)
    PROVE  x \o y \in Seq(S)
BY ConcatProperties, Zenon

\* A round that a bomb ends ranks every seat.
LEMMA BombRanksAll ==
    ASSUME RoundTypeOK, combo_player \in Seat, EndGameByBomb
    PROVE  Range(finished_order') = Seat
<1> DEFINE victim == IF played = <<>> THEN None ELSE played[Len(played)]
           tail == IF victim = None THEN <<>> ELSE <<victim>>
<1>1. victim \in Seat \cup {None}
  <2>1. CASE played # <<>>
    <3>1. played \in Seq(Seat)
      BY DEF RoundTypeOK
    <3>2. Len(played) \in 1..Len(played)
      BY <2>1, <3>1, EmptySeq
    <3> QED
      BY <2>1, <3>1, <3>2, ElementOfSeq
  <2> QED
    BY <2>1
<1>2. PICK rest \in [1..2 -> Seat] \cup [1..3 -> Seat] :
        /\ IsAscending(rest, Seat \ {combo_player, victim})
        /\ finished_order' = <<combo_player>> \o rest \o tail
  BY DEF EndGameByBomb
<1>3. rest \in Seq(Seat)
  <2>1. 2 \in Nat /\ 3 \in Nat
    OBVIOUS
  <2> QED
    BY <2>1, ListingIsSeq
<1>4. Range(rest) = Seat \ {combo_player, victim}
  BY <1>2 DEF IsAscending
<1> HIDE DEF victim
<1>5. tail \in Seq(Seat) /\ Range(tail) = {victim} \ {None}
  BY <1>1 DEF Range
<1>6. <<combo_player>> \in Seq(Seat) /\ Range(<<combo_player>>) = {combo_player}
  BY DEF Range
<1> HIDE DEF tail
<1> DEFINE head == <<combo_player>> \o rest
<1>7. head \in Seq(Seat) /\ Range(head) = {combo_player} \cup Range(rest)
  <2>1. PICK winner : winner = <<combo_player>>
    OBVIOUS
  <2>2. winner \in Seq(Seat) /\ Range(winner) = {combo_player} /\ head = winner \o rest
    BY <1>6, <2>1
  <2> HIDE DEF head
  <2>3. winner \o rest \in Seq(Seat)
    BY <1>3, <2>2, ConcatIsSeq, Zenon
  <2>4. Range(winner \o rest) = Range(winner) \cup Range(rest)
    BY <1>3, <2>2, RangeConcatenation
  <2> QED
    BY <2>2, <2>3, <2>4
<1>8. finished_order' = head \o tail
  BY <1>2
<1> HIDE DEF head
<1>9. Range(head \o tail) = Range(head) \cup Range(tail)
  BY <1>5, <1>7, RangeConcatenation
<1>10. None \notin Seat
  BY NoneAssumption DEF Seat
<1> QED
  BY <1>1, <1>4, <1>5, <1>7, <1>8, <1>9, <1>10

\* A move is no step of the three-discard and leaves none pending.
LEMMA MovePending == ASSUME Move PROVE pending' # "StepThreeDiscard"
<1>1. \/ ArmAfterPlaying(None)
      \/ ArmAfterHumanMove
      \/ ArmAfterBotTurn
  BY DEF Move, HumanPlay, HumanPass, FireBotPlay, FireBotPass, FireWatchdogPlay,
         FireWatchdogPass
<1> QED
  BY <1>1, NoneAssumption DEF ArmAfterPlaying, ArmAfterHumanMove, ArmAfterBotTurn, ArmTurn

\* A play goes around: the next seat still in is asked, or the round is over.
LEMMA PlayGoesAround ==
    ASSUME GameInv, PlayOnTurn, pending' # "StepThreeDiscard"
    PROVE  Around!Play
<1> DEFINE p == current_player
<1>1. PICK cards \in SUBSET hand[p], parked \in Seat :
        /\ cards # {}
        /\ PlayCards(p, cards, parked)
  BY DEF PlayOnTurn
<1> DEFINE out == cards = hand[p]
           fin == IF out THEN finished \cup {p} ELSE finished
           fo  == IF out THEN Append(finished_order, p) ELSE finished_order
           sc  == IF out THEN ScorePlayer(scores, p, Len(fo)) ELSE scores
<1>2. /\ InRound /\ RoundInv
      /\ p \in Seat /\ p \notin finished
      /\ finished \in SUBSET Seat
      /\ finished_order \in Seq(Seat)
      /\ Len(finished_order) < 3
      /\ Range(finished_order) = finished
      /\ IsInjective(finished_order)
  BY DEF PlayOnTurn, GameInv, TypeOK, RoundInv, RoundTypeOK, RankingSoFar, TrickRotation
<1>3. /\ fo \in {finished_order, Append(finished_order, p)}
      /\ fo \in Seq(Seat)
      /\ Len(fo) < 3 \/ Len(fo) = 3
      /\ fin = Range(fo) /\ fin \in SUBSET Seat
  <2>1. CASE out
    <3>1. /\ Append(finished_order, p) \in Seq(Seat)
          /\ Len(Append(finished_order, p)) = Len(finished_order) + 1
          /\ Range(Append(finished_order, p)) = finished \cup {p}
      BY <1>2, AppendRank
    <3> QED
      BY <1>2, <2>1, <3>1
  <2>2. CASE ~out
    BY <1>2, <2>2
  <2> QED
    BY <2>1, <2>2
<1>4. /\ combo_player' = p /\ passed' = {}
      /\ \/ /\ Len(fo) >= 3
            /\ FinalizeGame(fo, fin, sc)
         \/ /\ Len(fo) < 3
            /\ current_player' = SkipFinished(NextSeat(p), fin)
            /\ finished_order' = fo
            /\ finished' = fin
            /\ phase' = phase
  BY <1>1 DEF PlayCards, Advance, result
<1>5. Around!Ranked(fo) = fin
  BY <1>3, RankedIsRange
<1> HIDE DEF fin, fo, sc
<1>6. Stage # "over" /\ Turn = p
  BY <1>2 DEF Stage, Turn
<1>7. CASE Len(fo) < 3
  <2>1. /\ current_player' = SkipFinished(NextSeat(p), fin)
        /\ finished_order' = fo
        /\ finished' = fin
        /\ phase' = phase
    BY <1>3, <1>4, <1>7
  <2>2. current_player' \in Seat \ fin /\ current_player' # p /\ fin # Seat
    BY <1>2, <1>3, <1>7, <2>1, TurnAfterPlay
  <2>3. /\ Stage' = "playing"
        /\ Owner' = p
        /\ Waiting' = Seat \ (fin \cup {p})
        /\ Turn' = current_player'
    BY <1>2, <1>4, <2>1 DEF Stage, Owner, Waiting, Turn, InRound
  <2>4. Around!First(p, Waiting') = current_player'
    BY <1>2, <1>3, <2>1, <2>2, <2>3, FirstAfter
  <2>5. /\ Stage' = "playing" /\ finished_order' = fo
        /\ Owner' = Turn
        /\ Waiting' = Around!Seat \ (Around!Ranked(fo) \cup {Turn})
        /\ Turn' = Around!First(Turn, Waiting')
    BY <1>5, <1>6, <2>1, <2>3, <2>4, SameSeats
  <2> QED
    BY <1>3, <1>6, <1>7, <2>5 DEF Around!Play, Stage, Owner, Waiting, Turn
<1>8. CASE Len(fo) = 3
  <2>1. FinalizeGame(fo, fin, sc)
    BY <1>4, <1>8
  <2> DEFINE last == Min(Seat \ fin)
  <2>2. finished_order' = Append(fo, last) /\ phase' = "GameOver"
    BY <2>1 DEF FinalizeGame, BakeRound
  <2>3. last \in Seat \ fin
    BY <1>3, <1>8, OneStillIn
  <2> HIDE DEF last
  <2>4. Stage' = "over" /\ Owner' = None /\ Waiting' = {} /\ Turn' = None
    BY <2>2 DEF Stage, Owner, Waiting, Turn, InRound
  <2>5. Around!Over
    BY <2>4 DEF Around!Over, Stage, Owner, Waiting, Turn
  <2>6. \E l \in Around!Seat \ Around!Ranked(fo) : finished_order' = Append(fo, l)
    BY <1>5, <2>2, <2>3, SameSeats
  <2> QED
    BY <1>3, <1>6, <1>8, <2>5, <2>6 DEF Around!Play, Stage, Turn
<1> QED
  BY <1>3, <1>7, <1>8

\* A pass goes around: the next one who is to be asked is, or, if there is none,
\* the owner leads or has won the round.
LEMMA PassGoesAround ==
    ASSUME GameInv, PassOnTurn, pending' # "StepThreeDiscard"
    PROVE  Around!Pass \/ Around!WinTrick \/ Around!WinRound
<1> DEFINE p == current_player
           o == combo_player
<1>1. /\ Pass(p)
      /\ InRound /\ RoundTypeOK
      /\ p \in Seat /\ p \notin finished
      /\ o \in Seat /\ o # p /\ o # None
      /\ finished \in SUBSET Seat /\ passed \in SUBSET Seat
      /\ finished_order \in Seq(Seat) /\ Range(finished_order) = finished
      /\ passed = {s \in Seat \ finished : Dist(o, s) \in 1..Dist(o, p) - 1}
  BY DEF PassOnTurn, GameInv, TypeOK, RoundTypeOK, RankingSoFar, TrickRotation
<1>2. p \notin passed
  <2>1. Dist(o, p) \in 0..3
    BY <1>1, SeatArith
  <2> QED
    BY <1>1, <2>1
<1>3. /\ Owner = o /\ Turn = p /\ p \in Waiting
      /\ Waiting = Seat \ (finished \cup passed \cup {o})
      /\ TrickComplete(passed \cup {p}) <=> Waiting = {p}
  BY <1>1, <1>2 DEF Owner, Turn, Waiting, TrickComplete
<1>4. Stage = "playing"
  BY <1>1 DEF Stage, GameInv, OneTimer
<1>5. Around!Ranked(finished_order) = finished
  BY <1>1, RankedIsRange
<1>6. CASE Waiting # {p}
  <2>1. /\ passed' = passed \cup {p}
        /\ current_player' = SkipFinished(NextSeat(p), finished)
        /\ UNCHANGED <<combo_player, finished, finished_order, phase>>
    BY <1>1, <1>3, <1>6 DEF Pass, Advance, result
  <2>2. PICK q \in Waiting : q # p
    BY <1>3, <1>6
  <2>3. /\ current_player' \in Seat \ finished
        /\ current_player' # o
        /\ passed \cup {p} = {s \in Seat \ finished :
                                 Dist(o, s) \in 1..Dist(o, current_player') - 1}
    BY <1>1, <1>3, <2>1, <2>2, TurnAfterPass
  <2>4. current_player' \notin passed \cup {p}
    <3>1. Dist(o, current_player') \in 0..3
      BY <1>1, <2>3, SeatArith
    <3> QED
      BY <2>3, <3>1
  <2>5. /\ Stage' = "playing" /\ Owner' = o /\ Turn' = current_player'
        /\ Waiting' = Waiting \ {p}
    BY <1>1, <1>3, <2>1 DEF Stage, Owner, Turn, Waiting, InRound
  <2>6. Around!First(p, Waiting') = current_player'
    <3>1. Waiting' \in SUBSET (Seat \ finished) /\ current_player' \in Waiting' /\ p \notin Waiting'
      BY <1>3, <2>3, <2>4, <2>5
    <3>2. finished # Seat
      BY <1>1
    <3> QED
      BY <1>1, <2>1, <3>1, <3>2, FirstAfter
  <2>7. /\ Owner # None /\ Waiting # {Turn}
        /\ Waiting' = Waiting \ {Turn}
        /\ Turn' = Around!First(Turn, Waiting')
        /\ UNCHANGED <<Stage, finished_order, Owner>>
    BY <1>1, <1>3, <1>4, <1>6, <2>1, <2>5, <2>6
  <2> QED
    BY <2>7 DEF Around!Pass, Stage, Owner, Waiting, Turn
<1>7. CASE Waiting = {p} /\ ~IsBomb(table)
  <2>1. /\ combo_player' = None /\ passed' = {}
        /\ current_player' = SkipFinished(o, finished)
        /\ UNCHANGED <<finished, finished_order, phase>>
    BY <1>1, <1>3, <1>7 DEF Pass, ResolveTrick, NewTrick, result
  <2>2. None \notin Seat
    BY NoneAssumption DEF Seat
  <2>3. /\ Stage' = "playing" /\ Owner' = None /\ Turn' = current_player'
        /\ Waiting' = Seat \ finished
    BY <1>1, <2>1, <2>2 DEF Stage, Owner, Turn, Waiting, InRound
  <2>4. Around!First(o, Waiting') = current_player'
    <3>1. /\ current_player' \in Seat \ finished
          /\ \A t \in Seat \ finished : Dist(o, current_player') <= Dist(o, t)
      BY <1>1, <2>1, SkipFinishedNearest
    <3> QED
      BY <1>1, <2>3, <3>1, FirstIsNearest
  <2>5. /\ Owner # None /\ Waiting = {Turn}
        /\ Owner' = None
        /\ Waiting' = Around!Seat \ Around!Ranked(finished_order)
        /\ Turn' = Around!First(Owner, Waiting')
        /\ UNCHANGED <<Stage, finished_order>>
    BY <1>1, <1>3, <1>4, <1>5, <1>7, <2>1, <2>3, <2>4, SameSeats
  <2> QED
    BY <2>5 DEF Around!WinTrick, Stage, Owner, Waiting, Turn
<1>8. CASE Waiting = {p} /\ IsBomb(table)
  <2>1. EndGameByBomb
    BY <1>1, <1>3, <1>8 DEF Pass
  <2>2. /\ phase' = "GameOver"
        /\ finished_order' \in Seq(Seat)
        /\ finished_order'[1] = o
        /\ Range(finished_order') = Seat
    BY <1>1, <2>1, BombEndsRound, BombRanksAll
  <2>3. Around!Ranked(finished_order') = Around!Seat
    BY <2>2, RankedIsRange, SameSeats
  <2>4. Stage' = "over" /\ Owner' = None /\ Waiting' = {} /\ Turn' = None
    BY <2>2 DEF Stage, Owner, Waiting, Turn, InRound
  <2>5. Around!Over
    BY <2>4 DEF Around!Over, Stage, Owner, Waiting, Turn
  <2>6. Owner # None /\ Waiting = {Turn} /\ finished_order'[1] = Owner
    BY <1>1, <1>3, <1>8, <2>2
  <2> QED
    BY <2>3, <2>5, <2>6 DEF Around!WinRound, Owner, Waiting, Turn
<1> QED
  BY <1>6, <1>7, <1>8

\* A deal starts to go around: everybody may be asked.
LEMMA DealGoesAround ==
    ASSUME GameInv, GameInv', StartGame \/ StartNextRound
    PROVE  Around!Deal
<1>0. None \notin Seat
  BY NoneAssumption DEF Seat
<1>1. Stage = "over"
  BY DEF StartGame, StartNextRound, Stage, InRound
<1>2. /\ phase' \in {"ThreeDiscard", "Playing"}
      /\ combo_player' = None /\ finished' = {} /\ passed' = {} /\ finished_order' = <<>>
      /\ \/ /\ finished_order = <<>>
            /\ phase' = "ThreeDiscard" /\ pending' = "StepThreeDiscard"
         \/ /\ finished_order # <<>>
            /\ pending' = "EnterPlaying" /\ current_player' = finished_order[1]
  <2>1. CASE StartGame
    BY <2>1 DEF StartGame, DealAndStartDiscard, GameInv, PhaseFacts, trick
  <2>2. CASE StartNextRound
    <3>1. Len(finished_order) >= 3
      BY <2>2 DEF StartNextRound, GameInv, PhaseFacts
    <3>2. finished_order # <<>>
      BY <3>1
    <3> QED
      BY <2>2, <3>2 DEF StartNextRound, DealNextRound, NewTrick
  <2> QED
    BY <2>1, <2>2
<1>3. /\ Owner' = None /\ Waiting' = Seat /\ Turn' = current_player'
      /\ Stage' = IF pending' = "StepThreeDiscard" THEN "dealt" ELSE "playing"
  BY <1>0, <1>2 DEF Stage, Owner, Waiting, Turn, InRound
<1>4. \/ finished_order = <<>> /\ Stage' = "dealt" /\ Turn' \in Around!Seat
      \/ finished_order # <<>> /\ Stage' = "playing" /\ Turn' = finished_order[1]
  <2>1. current_player' \in Seat
    BY DEF GameInv, TypeOK, RoundTypeOK
  <2> QED
    BY <1>2, <1>3, <2>1, SameSeats
<1>5. finished_order' = <<>> /\ Owner' = None /\ Waiting' = Around!Seat
  BY <1>2, <1>3, SameSeats
<1> QED
  BY <1>1, <1>4, <1>5 DEF Around!Deal, Stage, Owner, Waiting, Turn

\* The three-discard decides whose turn it is and nothing else.
LEMMA DiscardGoesAround ==
    ASSUME GameInv, GameInv', FireStepThreeDiscard \/ FireLastThreeDiscard
    PROVE  Around!ShowThrees
<1>1. current_player' \in Seat
  BY DEF GameInv, TypeOK, RoundTypeOK
<1>2. pending = "StepThreeDiscard" /\ phase = "ThreeDiscard"
  BY DEF FireStepThreeDiscard, FireLastThreeDiscard, GameInv, OneTimer
<1>3. /\ UNCHANGED <<finished, passed, combo_player, finished_order>>
      /\ phase' \in {"ThreeDiscard", "Playing"}
  BY <1>2 DEF FireStepThreeDiscard, FireLastThreeDiscard, DiscardThrees, FinishDiscard,
              trick, result
<1>4. /\ Stage = "dealt" /\ Stage' \in {"dealt", "playing"}
      /\ Turn' = current_player'
      /\ UNCHANGED <<Owner, Waiting>>
  BY <1>2, <1>3 DEF Stage, Owner, Waiting, Turn, InRound
<1>5. Turn' \in Around!Seat
  BY <1>1, <1>4, SameSeats
<1> QED
  BY <1>3, <1>4, <1>5 DEF Around!ShowThrees, Stage, Owner, Waiting, Turn

\* What else happens in a room is not seen by who goes around.
LEMMA OthersStay ==
    ASSUME GameInv,
           \/ \E s \in Seat : Disconnect(s) \/ Leave(s) \/ Rejoin(s) \/ ExpireRejoin(s)
           \/ FireEnterPlaying \/ FireBotTurnOfHuman \/ FireWatchdogOnBot
           \/ UNCHANGED vars
    PROVE  UNCHANGED Around!vars
<1>1. /\ UNCHANGED roundVars
      /\ (pending = "StepThreeDiscard") = (pending' = "StepThreeDiscard")
  <2>1. CASE \E s \in Seat : Disconnect(s) \/ Leave(s) \/ Rejoin(s) \/ ExpireRejoin(s)
    BY <2>1 DEF Disconnect, Leave, Rejoin, ExpireRejoin, driver
  <2>2. CASE FireEnterPlaying \/ FireBotTurnOfHuman
    <3>1. /\ ArmAfterPlaying(watchdog) \/ ArmAfterBotTurn
          /\ pending # "StepThreeDiscard"
          /\ UNCHANGED roundVars
      BY <2>2 DEF FireEnterPlaying, FireBotTurnOfHuman
    <3>2. pending' # "StepThreeDiscard"
      BY <3>1, NoneAssumption DEF ArmAfterPlaying, ArmAfterBotTurn, ArmTurn
    <3> QED
      BY <3>1, <3>2
  <2>3. CASE FireWatchdogOnBot
    BY <2>3 DEF FireWatchdogOnBot
  <2>4. CASE UNCHANGED vars
    BY <2>4 DEF vars, driver
  <2> QED
    BY <2>1, <2>2, <2>3, <2>4
<1>2. UNCHANGED <<phase, finished, passed, combo_player, current_player, finished_order>>
  BY <1>1 DEF roundVars, trick, result
<1>3. UNCHANGED <<Stage, finished_order, Owner, Waiting, Turn>>
  BY <1>1, <1>2 DEF Stage, Owner, Waiting, Turn, InRound
<1> QED
  BY <1>3 DEF Around!vars, Stage, Owner, Waiting, Turn

\* Every step of a room is one of TurnOrder or is not seen by it.
LEMMA StepGoesAround ==
    GameInv /\ [Next]_vars => [Around!Next]_(Around!vars)
<1> SUFFICES ASSUME GameInv, [Next]_vars
             PROVE  [Around!Next]_(Around!vars)
  OBVIOUS
<1>1. GameInv'
  BY NextKeepsInv
<1>2. CASE Move
  BY <1>2, MoveKinds, MovePending, PlayGoesAround, PassGoesAround DEF Around!Next
<1>3. CASE StartGame \/ StartNextRound
  BY <1>1, <1>3, DealGoesAround DEF Around!Next
<1>4. CASE FireStepThreeDiscard \/ FireLastThreeDiscard
  BY <1>1, <1>4, DiscardGoesAround DEF Around!Next
<1>5. CASE \/ \E s \in Seat : Disconnect(s) \/ Leave(s) \/ Rejoin(s) \/ ExpireRejoin(s)
           \/ FireEnterPlaying \/ FireBotTurnOfHuman \/ FireWatchdogOnBot
           \/ UNCHANGED vars
  BY <1>5, OthersStay
<1> QED
  BY <1>2, <1>3, <1>4, <1>5 DEF Next, Request, Drive, Move

\* Every room goes around the table as the abstract round does, for all deals
\* and whoever moves for a seat: nobody is asked out of turn or left out, a trick
\* ends when nobody is left to be asked, and who won it leads or has won.
THEOREM RoundsGoAround == Spec => GoesAround
<1>1. Init => Around!Init
  BY DEF Init, RoundInit, Around!Init, InRound
<1>2. GameInv /\ [Next]_vars => [Around!Next]_(Around!vars)
  BY StepGoesAround
<1> QED
  BY <1>1, <1>2, Invariance, PTL DEF Spec, GoesAround, Around!Spec
=============================================================================
