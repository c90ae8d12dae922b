------------------------------ MODULE GameProofs ------------------------------
(***************************************************************************)
(* GameInv is an inductive invariant of a room, for every set of deals,    *)
(* every seating and every winning point.                                  *)
(***************************************************************************)
EXTENDS RoundProofs, CardsProofs

\* A new room satisfies the invariant.
LEMMA InitEstablishesInv == Init => GameInv
<1> SUFFICES ASSUME Init
             PROVE  GameInv
  OBVIOUS
<1> USE DEF Init, RoundInit
<1>1. <<>> \in Seq(Seat) /\ 0 \in Seat
  BY DEF Seat
<1>2. TypeOK
  BY <1>1 DEF TypeOK, RoundTypeOK, Action
<1>3. TrickRotation /\ RankingSoFar
  BY DEF TrickRotation, RankingSoFar, InRound
<1>4. OneTimer /\ PhaseFacts
  BY NoneAssumption DEF OneTimer, PhaseFacts, WatchdogDue
<1> QED
  BY <1>2, <1>3, <1>4 DEF GameInv

-----------------------------------------------------------------------------
(* The timers after a step.                                                *)

\* What the driver arms after a step into a playing or ended round is one
\* timer, provided the watchdog left over is not of the current turn.
LEMMA ArmedOnce ==
    ASSUME NEW left, left \in Nat \cup {None},
           turn_seq' \in Nat, left # None => left < turn_seq',
           current_player' \in Seat,
           \/ ArmAfterPlaying(left)
           \/ ArmAfterHumanMove /\ left = watchdog
           \/ ArmAfterBotTurn /\ left = watchdog
    PROVE  /\ OneTimer'
           /\ pending' \in {None, "BotTurn"}
           /\ pending' = "BotTurn" => phase' = "Playing"
           /\ watchdog' \in Nat \cup {None}
<1>1. \/ /\ phase' = "Playing"
         /\ pending' = "BotTurn"
         /\ watchdog' = left
      \/ /\ pending' = None
         /\ watchdog' \in {left, turn_seq', None}
         /\ watchdog' = turn_seq' => phase' = "Playing" \/ left = None
  BY NoneAssumption DEF ArmAfterPlaying, ArmAfterHumanMove, ArmAfterBotTurn, ArmTurn, ArmWatchdog
<1>2. None # "BotTurn" /\ None # "EnterPlaying" /\ None # "StepThreeDiscard" /\ turn_seq' # None
  BY NoneAssumption
<1> QED
  BY <1>1, <1>2 DEF OneTimer, WatchdogDue

\* A move in a round and the timers armed after it keep the invariant.
LEMMA AfterMove ==
    ASSUME GameInv, InRound, RoundInv', MoveEffect,
           UNCHANGED <<discard, control>>,
           \/ ArmAfterPlaying(None)
           \/ ArmAfterHumanMove
           \/ ArmAfterBotTurn
    PROVE  GameInv'
<1>1. /\ turn_seq \in Nat
      /\ watchdog \in Nat \cup {None}
      /\ watchdog # None => watchdog <= turn_seq
      /\ turn_seq' \in Nat
      /\ current_player' \in Seat
      /\ phase \in {"ThreeDiscard", "Playing"}
  BY DEF GameInv, TypeOK, RoundTypeOK, OneTimer, RoundInv, InRound
<1>2. phase' \in {"ThreeDiscard", "Playing", "GameOver"}
  BY <1>1 DEF MoveEffect
<1>3. /\ OneTimer'
      /\ pending' \in {None, "BotTurn"}
      /\ pending' = "BotTurn" => phase' = "Playing"
      /\ watchdog' \in Nat \cup {None}
  <2>1. CASE ArmAfterPlaying(None)
    BY <1>1, <2>1, ArmedOnce
  <2>2. CASE ArmAfterHumanMove \/ ArmAfterBotTurn
    <3>1. CASE turn_seq' = turn_seq + 1
      <4>1. watchdog # None => watchdog < turn_seq'
        BY <1>1, <3>1
      <4> QED
        BY <1>1, <2>2, <4>1, ArmedOnce
    <3>2. CASE phase' = "GameOver" /\ turn_seq' = turn_seq
      <4>1. pending' = None /\ watchdog' \in {watchdog, None}
        BY <2>2, <3>2 DEF ArmAfterHumanMove, ArmAfterBotTurn, ArmTurn, ArmWatchdog
      <4> QED
        BY <1>1, <3>2, <4>1, NoneAssumption DEF OneTimer, WatchdogDue
    <3> QED
      BY <3>1, <3>2 DEF MoveEffect
  <2> QED
    BY <2>1, <2>2
<1>4. TypeOK'
  BY <1>3 DEF TypeOK, RoundInv, Action, GameInv
<1>5. PhaseFacts'
  <2>1. phase' = "ThreeDiscard" => order' \in Bijection(1..4, Seat)
    BY <1>1 DEF GameInv, PhaseFacts, MoveEffect, discard
  <2>2. phase' = "GameOver" => Len(finished_order') >= 3 /\ pending' = None
    BY <1>1, <1>3 DEF MoveEffect
  <2>3. pending' # "StepThreeDiscard"
    BY <1>3, NoneAssumption
  <2> QED
    BY <1>2, <2>1, <2>2, <2>3 DEF PhaseFacts
<1> QED
  BY <1>3, <1>4, <1>5 DEF GameInv, RoundInv

\* A move is taken in a round only: a seat of the lobby has no cards and no
\* table, and the round that is over ranks three seats.
LEMMA MovesInRound ==
    ASSUME GameInv, NEW p \in Seat, OnTurn(p),
           combo_player # None \/ hand[p] # {}
    PROVE  InRound
<1>1. phase # "GameOver"
  BY DEF GameInv, PhaseFacts, OnTurn, TypeOK, RoundTypeOK
<1>2. phase # "Lobby"
  BY DEF GameInv, PhaseFacts
<1> QED
  BY <1>1, <1>2 DEF InRound, GameInv, TypeOK, RoundTypeOK

\* Any play a client or the watchdog makes.
LEMMA AcceptedPlay ==
    ASSUME GameInv, NEW p \in Seat, NEW cards,
           MayPlay(p, cards), cards \subseteq hand[p], PlayCards(p, cards, p)
    PROVE  InRound /\ RoundInv' /\ MoveEffect /\ UNCHANGED discard
<1>1. cards # {} /\ p = current_player /\ OnTurn(p)
  BY PlayIsNotEmpty DEF MayPlay, OnTurn
<1>2. InRound
  <2>1. hand[p] # {}
    BY <1>1
  <2> QED
    BY <1>1, <2>1, MovesInRound
<1>3. RoundInv
  BY DEF GameInv, TypeOK, RoundInv
<1>4. RoundInv' /\ MoveEffect /\ UNCHANGED discard
  BY <1>1, <1>2, <1>3, PlayStep
<1> QED
  BY <1>2, <1>4

\* Any pass a client or the watchdog makes.
LEMMA AcceptedPass ==
    ASSUME GameInv, NEW p \in Seat, MayPass(p), Pass(p)
    PROVE  InRound /\ RoundInv' /\ MoveEffect /\ UNCHANGED discard
<1>1. OnTurn(p) /\ combo_player # None
  BY DEF MayPass
<1>2. InRound
  BY <1>1, MovesInRound
<1>3. RoundInv
  BY DEF GameInv, TypeOK, RoundInv
<1>4. RoundInv' /\ MoveEffect /\ UNCHANGED <<hand, discard>>
  BY <1>1, <1>2, <1>3, PassStep
<1> QED
  BY <1>2, <1>4

-----------------------------------------------------------------------------
(* One lemma per group of actions.                                         *)

\* start_game in the lobby deals to every seat and schedules the discard.
LEMMA StartGameKeepsInv == GameInv /\ StartGame => GameInv'
<1> SUFFICES ASSUME GameInv, StartGame
             PROVE  GameInv'
  OBVIOUS
<1>1. PICK deal \in GuardedDeals, seats \in Bijection(1..4, Seat) :
        /\ hand' = [s \in Seat |-> {c \in deal[s] : Rank(c) # Three}]
        /\ order' = seats
        /\ discarded' = 0
        /\ phase' = "ThreeDiscard"
        /\ current_player' = seats[1]
        /\ UNCHANGED <<finished, trick, finished_order, scores, total_scores,
                       round, turn_seq, game_winner>>
  BY DEF StartGame, DealAndStartDiscard
<1>2. /\ deal \in [Seat -> SUBSET Card]
      /\ \A s \in Seat : \E c \in deal[s] : Rank(c) # Three
  BY DealsAssumption DEF GuardedDeals
<1>3. hand' \in [Seat -> SUBSET Card] /\ \A s \in Seat : hand'[s] # {}
  BY <1>1, <1>2
<1>4. seats \in [1..4 -> Seat] /\ seats[1] \in Seat
  BY DEF Bijection, Injection
<1>5. order' \in Seq(Seat)
  <2>1. 4 \in Nat
    OBVIOUS
  <2> QED
    BY <1>1, <1>4, <2>1, ListingIsSeq
<1>6. /\ pending' = "StepThreeDiscard" /\ UNCHANGED <<control, watchdog>>
      /\ phase = "Lobby"
      /\ finished' = {} /\ finished_order' = <<>>
      /\ combo_player' = None /\ table' = {} /\ passed' = {} /\ played' = <<>>
      /\ scores' = [s \in Seat |-> 0]
      /\ watchdog = None
  BY <1>1 DEF StartGame, GameInv, PhaseFacts, trick
<1>7. TypeOK'
  BY <1>1, <1>3, <1>4, <1>5, <1>6 DEF GameInv, TypeOK, RoundTypeOK, Action, trick
<1>8. TrickRotation'
  BY <1>6 DEF TrickRotation
<1>9. RankingSoFar'
  <2>1. Range(<<>>) = {} /\ Len(<<>>) = 0 /\ IsInjective(<<>>) /\ DOMAIN <<>> = {}
    BY DEF Range, IsInjective
  <2> QED
    BY <1>3, <1>6, <2>1 DEF RankingSoFar
<1>10. OneTimer' /\ PhaseFacts'
  BY <1>1, <1>6, NoneAssumption DEF OneTimer, PhaseFacts, WatchdogDue
<1> QED
  BY <1>7, <1>8, <1>9, <1>10 DEF GameInv

\* start_next_round deals again and lets the first of the last round lead.
LEMMA StartNextRoundKeepsInv == GameInv /\ StartNextRound => GameInv'
<1> SUFFICES ASSUME GameInv, StartNextRound
             PROVE  GameInv'
  OBVIOUS
<1>1. PICK deal \in GuardedDeals : hand' = deal
  BY DEF StartNextRound, DealNextRound
<1>2. hand' \in [Seat -> SUBSET Card] /\ \A s \in Seat : hand'[s] # {}
  BY <1>1, DealsAssumption DEF GuardedDeals
<1>3. /\ phase' = "Playing"
      /\ current_player' = finished_order[1]
      /\ turn_seq' = turn_seq + 1
      /\ finished' = {}
      /\ finished_order' = <<>>
      /\ scores' = [s \in Seat |-> 0]
      /\ combo_player' = None /\ table' = {} /\ passed' = {} /\ played' = <<>>
      /\ order' = <<>>
      /\ discarded' = 0
      /\ UNCHANGED <<total_scores, round, game_winner>>
      /\ pending' = "EnterPlaying"
      /\ UNCHANGED <<control, watchdog>>
  BY DEF StartNextRound, DealNextRound, NewTrick
<1>4. current_player' \in Seat
  <2>1. Len(finished_order) >= 3 /\ finished_order \in Seq(Seat)
    BY DEF StartNextRound, GameInv, PhaseFacts, TypeOK, RoundTypeOK
  <2>2. 1 \in 1..Len(finished_order)
    BY <2>1, LenProperties
  <2> QED
    BY <1>3, <2>1, <2>2, ElementOfSeq
<1>5. turn_seq \in Nat /\ (watchdog # None => watchdog <= turn_seq) /\ watchdog \in Nat \cup {None}
  BY DEF GameInv, TypeOK, RoundTypeOK, OneTimer
<1>6. TypeOK'
  BY <1>2, <1>3, <1>4, <1>5 DEF GameInv, TypeOK, RoundTypeOK, Action
<1>7. TrickRotation'
  BY <1>3 DEF TrickRotation
<1>8. RankingSoFar'
  <2>1. Range(<<>>) = {} /\ Len(<<>>) = 0 /\ IsInjective(<<>>) /\ DOMAIN <<>> = {}
    BY DEF Range, IsInjective
  <2> QED
    BY <1>2, <1>3, <2>1 DEF RankingSoFar
<1>9. OneTimer' /\ PhaseFacts'
  <2>1. watchdog' # None => watchdog' < turn_seq'
    BY <1>3, <1>5
  <2> QED
    BY <1>3, <1>5, <2>1, NoneAssumption DEF OneTimer, PhaseFacts, WatchdogDue
<1> QED
  BY <1>6, <1>7, <1>8, <1>9 DEF GameInv

\* apply_human_move and fire_watchdog.
LEMMA HumanMovesKeepInv ==
    ASSUME GameInv, NEW p \in Seat
    PROVE  /\ HumanPlay(p) => GameInv'
           /\ HumanPass(p) => GameInv'
           /\ FireWatchdogPlay => GameInv'
           /\ FireWatchdogPass => GameInv'
<1>1. ASSUME HumanPlay(p) PROVE GameInv'
  <2>1. PICK cards \in SUBSET hand[p] : MayPlay(p, cards) /\ PlayCards(p, cards, p)
    BY <1>1 DEF HumanPlay
  <2>2. InRound /\ RoundInv' /\ MoveEffect /\ UNCHANGED discard
    BY <2>1, AcceptedPlay
  <2>3. ArmAfterHumanMove /\ UNCHANGED control
    BY <1>1 DEF HumanPlay
  <2> QED
    BY <2>2, <2>3, AfterMove
<1>2. ASSUME HumanPass(p) PROVE GameInv'
  <2>1. MayPass(p) /\ Pass(p) /\ ArmAfterHumanMove /\ UNCHANGED control
    BY <1>2 DEF HumanPass
  <2>2. InRound /\ RoundInv' /\ MoveEffect /\ UNCHANGED discard
    BY <2>1, AcceptedPass
  <2> QED
    BY <2>1, <2>2, AfterMove
<1>3. current_player \in Seat
  BY DEF GameInv, TypeOK, RoundTypeOK
<1>4. ASSUME FireWatchdogPlay PROVE GameInv'
  <2>1. PICK cards : /\ MayPlay(current_player, cards)
                     /\ PlayCards(current_player, cards, current_player)
    BY <1>4 DEF FireWatchdogPlay
  <2>2. cards \subseteq hand[current_player]
    BY <2>1 DEF MayPlay
  <2>3. InRound /\ RoundInv' /\ MoveEffect /\ UNCHANGED discard
    BY <1>3, <2>1, <2>2, AcceptedPlay
  <2>4. ArmAfterPlaying(None) /\ UNCHANGED control
    BY <1>4 DEF FireWatchdogPlay
  <2> QED
    BY <2>3, <2>4, AfterMove
<1>5. ASSUME FireWatchdogPass PROVE GameInv'
  <2>1. /\ MayPass(current_player) /\ Pass(current_player)
        /\ ArmAfterPlaying(None) /\ UNCHANGED control
    BY <1>5 DEF FireWatchdogPass
  <2>2. InRound /\ RoundInv' /\ MoveEffect /\ UNCHANGED discard
    BY <1>3, <2>1, AcceptedPass
  <2> QED
    BY <2>1, <2>2, AfterMove
<1> QED
  BY <1>1, <1>2, <1>4, <1>5

\* process_one_bot_turn.  A bot asks neither whose turn it is nor whether its
\* cards are accepted; that it may pass at all rests on BotLeads.
LEMMA BotMovesKeepInv == GameInv /\ (FireBotPlay \/ FireBotPass) => GameInv'
<1> SUFFICES ASSUME GameInv, FireBotPlay \/ FireBotPass
             PROVE  GameInv'
  OBVIOUS
<1>1. /\ current_player \in Seat
      /\ InRound
      /\ RoundInv
      /\ hand[current_player] \in SUBSET Card
      /\ ArmAfterBotTurn /\ UNCHANGED control
  BY DEF GameInv, TypeOK, RoundTypeOK, RoundInv, InRound, FireBotPlay, FireBotPass
<1>2. /\ current_player \notin finished
      /\ hand[current_player] # {}
      /\ Len(finished_order) < 3
      /\ combo_player = None => table = {}
  BY <1>1 DEF GameInv, RankingSoFar, TrickRotation
<1>3. CASE FireBotPlay
  <2>1. PICK cards \in BotPlays(hand[current_player], table) :
          PlayCards(current_player, cards,
                    SkipFinished(current_player, finished \cup {current_player}))
    BY <1>3 DEF FireBotPlay
  <2>2. cards \subseteq hand[current_player] /\ cards # {}
    BY <2>1, BotPlaysFromHand
  <2>3. SkipFinished(current_player, finished \cup {current_player}) \in Seat
    <3>1. finished \cup {current_player} \in SUBSET Seat
      BY <1>1 DEF GameInv, TypeOK, RoundTypeOK
    <3> QED
      BY <1>1, <3>1, SkipFinishedNearest
  <2>4. RoundInv' /\ MoveEffect /\ UNCHANGED discard
    BY <1>1, <2>1, <2>2, <2>3, PlayStep
  <2> QED
    BY <1>1, <2>4, AfterMove
<1>4. CASE FireBotPass
  <2>1. combo_player # None
    BY <1>1, <1>2, <1>4, BotLeads DEF FireBotPass
  <2>2. OnTurn(current_player) /\ Pass(current_player)
    BY <1>2, <1>4 DEF OnTurn, FireBotPass
  <2>3. RoundInv' /\ MoveEffect /\ UNCHANGED <<hand, discard>>
    BY <1>1, <2>1, <2>2, PassStep
  <2> QED
    BY <1>1, <2>3, AfterMove
<1> QED
  BY <1>3, <1>4

\* Seats that turn into bots and back do not touch the round or the timers.
LEMMA SeatChangesKeepInv ==
    ASSUME GameInv, NEW s \in Seat,
           Disconnect(s) \/ Leave(s) \/ Rejoin(s) \/ ExpireRejoin(s)
    PROVE  GameInv'
<1>1. UNCHANGED <<roundVars, driver>> /\ control' \in [Seat -> {"human", "away", "bot"}]
  BY DEF Disconnect, Leave, Rejoin, ExpireRejoin, GameInv, TypeOK
<1> QED
  BY <1>1 DEF GameInv, TypeOK, RoundTypeOK, TrickRotation, RankingSoFar, OneTimer,
              PhaseFacts, WatchdogDue, InRound, roundVars, driver, trick, result, discard

\* The steps of the driver that do not move for a seat.
LEMMA DriverKeepsInv ==
    GameInv /\ (\/ FireEnterPlaying
                \/ FireStepThreeDiscard
                \/ FireLastThreeDiscard
                \/ FireBotTurnOfHuman
                \/ FireWatchdogOnBot) => GameInv'
<1> USE DEF GameInv
<1>1. ASSUME GameInv, FireEnterPlaying \/ FireBotTurnOfHuman PROVE GameInv'
  <2>1. /\ UNCHANGED <<roundVars, control>>
        /\ phase = "Playing"
        /\ pending # None
        /\ ArmAfterPlaying(watchdog) \/ ArmAfterBotTurn
    BY <1>1, NoneAssumption DEF FireEnterPlaying, FireBotTurnOfHuman
  <2>2. /\ turn_seq' \in Nat /\ watchdog \in Nat \cup {None}
        /\ watchdog # None => watchdog < turn_seq'
        /\ current_player' \in Seat
    BY <1>1, <2>1 DEF TypeOK, RoundTypeOK, OneTimer, WatchdogDue, roundVars
  <2>3. /\ OneTimer'
        /\ pending' \in {None, "BotTurn"}
        /\ watchdog' \in Nat \cup {None}
    BY <2>1, <2>2, ArmedOnce
  <2>4. TypeOK' /\ TrickRotation' /\ RankingSoFar'
    BY <1>1, <2>1, <2>3 DEF TypeOK, RoundTypeOK, Action, TrickRotation, RankingSoFar,
                            InRound, roundVars, trick, result, discard
  <2>5. PhaseFacts'
    BY <2>1, <2>3, NoneAssumption DEF PhaseFacts, roundVars, result
  <2> QED
    BY <2>3, <2>4, <2>5
<1>2. ASSUME GameInv, FireStepThreeDiscard PROVE GameInv'
  <2>1. /\ phase = "ThreeDiscard" /\ combo_player = None /\ finished = {}
        /\ order \in Bijection(1..4, Seat)
        /\ discarded \in 0..2 /\ discarded' = discarded + 1
        /\ current_player' = order[discarded + 2]
        /\ UNCHANGED <<hand, finished, trick, finished_order, scores, result,
                       turn_seq, order, control, pending, watchdog>>
    <3>1. pending = "StepThreeDiscard" /\ DiscardThrees /\ UNCHANGED <<control, pending, watchdog>>
      BY <1>2 DEF FireStepThreeDiscard, driver
    <3>2. phase = "ThreeDiscard" /\ combo_player = None
      BY <1>2, <3>1 DEF OneTimer
    <3>3. finished = {} /\ order \in Bijection(1..4, Seat)
      BY <1>2, <3>1, <3>2 DEF PhaseFacts
    <3>4. discarded \in 0..2
      <4>1. discarded \in 0..3
        BY <1>2 DEF TypeOK, RoundTypeOK
      <4> QED
        BY <3>1, <4>1 DEF DiscardThrees
    <3> QED
      BY <3>1, <3>2, <3>3, <3>4 DEF DiscardThrees
  <2>2. current_player' \in Seat
    <3>1. order \in [1..4 -> Seat]
      BY <2>1 DEF Bijection, Injection
    <3>2. discarded + 2 \in 1..4
      BY <2>1
    <3> QED
      BY <2>1, <3>1, <3>2
  <2>3. TypeOK'
    <3>1. RoundTypeOK'
      <4>1. discarded' \in 0..3
        BY <2>1
      <4>2. RoundTypeOK
        BY <1>2 DEF TypeOK
      <4> QED
        BY <2>1, <2>2, <4>1, <4>2 DEF RoundTypeOK, trick, result
    <3> QED
      BY <1>2, <2>1, <3>1 DEF TypeOK
  <2>4. UNCHANGED <<phase, hand, finished, combo_player, table, passed, played,
                    finished_order, scores, turn_seq, order, pending, watchdog>>
    BY <2>1 DEF trick, result
  <2>5. TrickRotation'
    <3>1. combo_player' = None /\ table' = {} /\ passed' = {} /\ played' = <<>> /\ finished' = {}
      BY <1>2, <2>1, <2>4 DEF TrickRotation, InRound
    <3> QED
      BY <3>1, <2>2 DEF TrickRotation
  <2>6. RankingSoFar'
    <3>1. RankingSoFar
      BY <1>2
    <3> QED
      BY <2>4, <3>1, Zenon DEF RankingSoFar, InRound
  <2>7. OneTimer'
    <3>1. OneTimer
      BY <1>2
    <3> QED
      BY <2>4, <3>1, Zenon DEF OneTimer, WatchdogDue
  <2>8. PhaseFacts'
    <3>1. PhaseFacts
      BY <1>2
    <3> QED
      BY <2>4, <3>1, Zenon DEF PhaseFacts
  <2> QED
    BY <2>3, <2>5, <2>6, <2>7, <2>8
<1>3. ASSUME GameInv, FireLastThreeDiscard PROVE GameInv'
  <2>1. /\ phase = "ThreeDiscard" /\ combo_player = None /\ finished = {}
        /\ order \in Bijection(1..4, Seat)
        /\ phase' = "Playing"
        /\ current_player' = order[1]
        /\ turn_seq' = turn_seq + 1
        /\ order' = <<>>
        /\ discarded' = 0
        /\ UNCHANGED <<hand, finished, trick, finished_order, scores, total_scores,
                       round, game_winner, control>>
        /\ ArmAfterPlaying(watchdog)
    BY <1>3 DEF FireLastThreeDiscard, FinishDiscard, OneTimer, PhaseFacts
  <2>2. order[1] \in Seat
    BY <2>1 DEF Bijection, Injection
  <2>3. /\ turn_seq' \in Nat /\ watchdog \in Nat \cup {None}
        /\ watchdog # None => watchdog < turn_seq'
        /\ current_player' \in Seat
    BY <1>3, <2>1, <2>2 DEF TypeOK, RoundTypeOK, OneTimer
  <2>4. /\ OneTimer'
        /\ pending' \in {None, "BotTurn"}
        /\ watchdog' \in Nat \cup {None}
    BY <2>1, <2>3, ArmedOnce
  <2>5. TypeOK'
    <3>1. RoundTypeOK'
      <4>1. order' \in Seq(Seat) /\ discarded' \in 0..3
        BY <2>1
      <4>2. RoundTypeOK
        BY <1>3 DEF TypeOK
      <4> QED
        BY <2>1, <2>3, <4>1, <4>2 DEF RoundTypeOK, trick
    <3> QED
      BY <1>3, <2>1, <2>4, <3>1 DEF TypeOK, Action
  <2>6. TrickRotation' /\ RankingSoFar'
    BY <1>3, <2>1 DEF TrickRotation, RankingSoFar, InRound, trick
  <2>7. PhaseFacts'
    BY <2>1, <2>4, NoneAssumption DEF PhaseFacts
  <2> QED
    BY <2>4, <2>5, <2>6, <2>7
<1>4. ASSUME GameInv, FireWatchdogOnBot PROVE GameInv'
  <2>1. UNCHANGED <<roundVars, control, pending>> /\ watchdog' = None
    BY <1>4 DEF FireWatchdogOnBot
  <2> QED
    BY <1>4, <2>1, NoneAssumption
       DEF TypeOK, RoundTypeOK, TrickRotation, RankingSoFar, OneTimer,
           PhaseFacts, WatchdogDue, InRound, roundVars, trick, result, discard
<1> QED
  BY <1>1, <1>2, <1>3, <1>4

\* Every step keeps the invariant.
LEMMA NextKeepsInv == GameInv /\ [Next]_vars => GameInv'
<1> SUFFICES ASSUME GameInv, [Next]_vars
             PROVE  GameInv'
  OBVIOUS
<1>1. CASE StartGame
  BY <1>1, StartGameKeepsInv
<1>2. CASE StartNextRound
  BY <1>2, StartNextRoundKeepsInv
<1>3. CASE \E s \in Seat : Request(s)
  <2>1. PICK s \in Seat : Request(s)
    BY <1>3
  <2>2. CASE HumanPlay(s) \/ HumanPass(s)
    BY <2>2, HumanMovesKeepInv
  <2>3. CASE Disconnect(s) \/ Leave(s) \/ Rejoin(s) \/ ExpireRejoin(s)
    BY <2>3, SeatChangesKeepInv
  <2> QED
    BY <2>1, <2>2, <2>3 DEF Request
<1>4. CASE Drive
  <2>1. CASE FireBotPlay \/ FireBotPass
    BY <2>1, BotMovesKeepInv
  <2>2. CASE FireWatchdogPlay \/ FireWatchdogPass
    <3>1. 0 \in Seat
      BY DEF Seat
    <3> QED
      BY <2>2, <3>1, HumanMovesKeepInv
  <2>3. CASE \/ FireEnterPlaying
             \/ FireStepThreeDiscard
             \/ FireLastThreeDiscard
             \/ FireBotTurnOfHuman
             \/ FireWatchdogOnBot
    BY <2>3, DriverKeepsInv
  <2> QED
    BY <1>4, <2>1, <2>2, <2>3 DEF Drive
<1>5. CASE UNCHANGED vars
  BY <1>5 DEF vars, GameInv, TypeOK, RoundTypeOK, TrickRotation, RankingSoFar, OneTimer,
              PhaseFacts, WatchdogDue, InRound, roundVars, driver, trick, result, discard
<1> QED
  BY <1>1, <1>2, <1>3, <1>4, <1>5 DEF Next

-----------------------------------------------------------------------------
(* The theorems.                                                           *)

\* GameInv holds in every reachable state of every room.
THEOREM Invariance == Spec => []GameInv
<1>1. Init => GameInv
  BY InitEstablishesInv
<1>2. GameInv /\ [Next]_vars => GameInv'
  BY NextKeepsInv
<1> QED
  BY <1>1, <1>2, PTL DEF Spec

\* Every variable keeps its type: hands are sets of cards, turns are seats,
\* the pending action is one of PendingAction.
THEOREM TypeCorrect == Spec => []TypeOK
<1>1. GameInv => TypeOK
  BY DEF GameInv
<1> QED
  BY <1>1, Invariance, PTL

\* The turn goes around and nobody is skipped or asked twice in a trick.
THEOREM TurnsGoAround == Spec => []TrickRotation
<1>1. GameInv => TrickRotation
  BY DEF GameInv
<1> QED
  BY <1>1, Invariance, PTL

\* During a round the ranking lists the seats with empty hands, each once, and
\* the scores are those of the positions.
THEOREM RankingIsConsistent == Spec => []RankingSoFar
<1>1. GameInv => RankingSoFar
  BY DEF GameInv
<1> QED
  BY <1>1, Invariance, PTL

\* The driver never has two timers for one turn, nor an action its phase
\* cannot take.
THEOREM TimersDoNotCompete == Spec => []OneTimer
<1>1. GameInv => OneTimer
  BY DEF GameInv
<1> QED
  BY <1>1, Invariance, PTL

\* What the driver chooses for the seat on turn, for a bot or an idle human, is
\* a move the rules allow.
THEOREM DriverFollowsRules == Spec => []DriverMovesLegally
<1>1. GameInv => DriverMovesLegally
  <2> SUFFICES ASSUME GameInv, InRound
               PROVE  LET idle == IdleMove(hand[current_player], table)
                          bots == BotPlays(hand[current_player], table)
                      IN  /\ idle # {} => MayPlay(current_player, idle)
                          /\ \A cards \in bots : MayPlay(current_player, cards)
                          /\ idle = {} \/ bots = {} => MayPass(current_player)
    BY DEF DriverMovesLegally
  <2> DEFINE h    == hand[current_player]
             idle == IdleMove(h, table)
             bots == BotPlays(h, table)
  <2>1. /\ h \in SUBSET Card /\ h # {}
        /\ OnTurn(current_player)
        /\ combo_player = None => table = {}
        /\ combo_player # None => current_player # combo_player
    BY DEF GameInv, TypeOK, RoundTypeOK, RankingSoFar, TrickRotation, OnTurn
  <2>2. idle # {} => MayPlay(current_player, idle)
    BY <2>1, IdleMoveIsValid DEF MayPlay
  <2>3. ASSUME NEW cards \in bots
        PROVE  MayPlay(current_player, cards)
    BY <2>1, <2>3, BotPlaysAreValid, BotPlaysFromHand DEF MayPlay
  <2>4. idle = {} \/ bots = {} => table # {}
    BY <2>1, IdleMoveIsValid, BotLeads
  <2>5. idle = {} \/ bots = {} => MayPass(current_player)
    BY <2>1, <2>4 DEF MayPass
  <2> QED
    BY <2>2, <2>3, <2>5
<1> QED
  BY <1>1, Invariance, PTL
=============================================================================
