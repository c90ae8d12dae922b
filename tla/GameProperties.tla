--------------------------- MODULE GameProperties ---------------------------
(***************************************************************************)
(* What a room in play promises.                                           *)
(***************************************************************************)
EXTENDS Game

InRound == phase \in {"ThreeDiscard", "Playing"}

Action == {None, "EnterPlaying", "StepThreeDiscard", "BotTurn"}

RoundTypeOK ==
    /\ phase \in {"Lobby", "ThreeDiscard", "Playing", "GameOver"}
    /\ hand \in [Seat -> SUBSET Card]
    /\ finished \in SUBSET Seat
    /\ current_player \in Seat
    /\ table \in SUBSET Card
    /\ combo_player \in Seat \cup {None}
    /\ passed \in SUBSET Seat
    /\ played \in Seq(Seat)
    /\ finished_order \in Seq(Seat)
    /\ scores \in [Seat -> Int]
    /\ total_scores \in [Seat -> Int]
    /\ round \in Nat
    /\ turn_seq \in Nat
    /\ game_winner \in Seat \cup {None}
    /\ order \in Seq(Seat)
    /\ discarded \in 0..3

\* Every variable has its type.
TypeOK ==
    /\ RoundTypeOK
    /\ control \in [Seat -> {"human", "away", "bot"}]
    /\ pending \in Action
    /\ watchdog \in Nat \cup {None}

-----------------------------------------------------------------------------
(* Safety.                                                                 *)

\* How far seat t sits after seat s, clockwise.
Dist(s, t) == (t - s) % 4

\* The turn goes around: the seat on turn is still in the round, it is never
\* the one that owns the table, and the seats that passed are exactly those
\* still in between the owner and the seat on turn.  So nobody is skipped or
\* asked twice before a trick is resolved (apply_play, apply_pass,
\* process_one_bot_turn, skip_finished).
TrickRotation ==
    InRound =>
        /\ current_player \notin finished
        /\ combo_player = None => table = {} /\ passed = {} /\ played = <<>>
        /\ combo_player # None =>
              /\ table # {}
              /\ current_player # combo_player
              /\ passed = {s \in Seat \ finished :
                             Dist(combo_player, s) \in 1..Dist(combo_player, current_player) - 1}

\* During a round the ranking is the order in which hands ran empty: two seats
\* at most, each once, paid by position; a seat without cards is finished.
RankingSoFar ==
    InRound =>
        /\ Len(finished_order) < 3
        /\ IsInjective(finished_order)
        /\ Range(finished_order) = finished
        /\ finished = {s \in Seat : hand[s] = {}}
        /\ \A i \in DOMAIN finished_order : scores[finished_order[i]] = Points[i]
        /\ \A s \in Seat \ finished : scores[s] = 0

\* A pending action is one the phase can take, so fire_action never drops it;
\* and it never competes with the watchdog of the current turn, so drive_room
\* fires one timer at a time.
OneTimer ==
    /\ pending = "StepThreeDiscard" => phase = "ThreeDiscard" /\ combo_player = None
    /\ pending \in {"EnterPlaying", "BotTurn"} => phase = "Playing"
    /\ WatchdogDue => pending = None
    /\ watchdog # None => watchdog <= turn_seq

\* What is at rest outside a round: a lobby that was never dealt to, the order
\* of the three-discard while its steps are due, a full ranking in GameOver.
PhaseFacts ==
    /\ phase = "Lobby" =>
          /\ hand = [s \in Seat |-> {}]
          /\ finished = {} /\ finished_order = <<>>
          /\ scores = [s \in Seat |-> 0]
          /\ combo_player = None /\ table = {} /\ passed = {} /\ played = <<>>
          /\ pending = None /\ watchdog = None
    /\ phase = "ThreeDiscard" => order \in Bijection(1..4, Seat)
    /\ pending = "StepThreeDiscard" => finished = {}
    /\ phase = "GameOver" => Len(finished_order) >= 3 /\ pending = None

\* The inductive invariant of a room: no conjunct above is inductive alone.
GameInv == TypeOK /\ TrickRotation /\ RankingSoFar /\ OneTimer /\ PhaseFacts

\* The match is over with the first round that brings a seat to the winning
\* point, and the winner is the lowest such seat (check_match_winner).
MatchEndsAtTarget ==
    /\ game_winner = None => \A s \in Seat : total_scores[s] < WinningPoint
    /\ game_winner # None => /\ phase = "GameOver"
                             /\ total_scores[game_winner] >= WinningPoint
                             /\ \A s \in Seat : s < game_winner =>
                                    total_scores[s] < WinningPoint

\* What the driver chooses for the seat on turn is a move the rules allow.  One
\* they refuse would go wrong without a word: fire_watchdog would leave the idle
\* human on turn, and process_one_bot_turn would go on to the next seat with
\* nothing played.  A bot chooses its lead without asking validate_play: only
\* combo_strength keeps it from leading a bomb.
DriverMovesLegally ==
    InRound =>
        LET idle == IdleMove(hand[current_player], table)
            bots == BotPlays(hand[current_player], table)
        IN  /\ idle # {} => MayPlay(current_player, idle)
            /\ \A cards \in bots : MayPlay(current_player, cards)
            /\ idle = {} \/ bots = {} => MayPass(current_player)

-----------------------------------------------------------------------------
(* What a step may never do.                                               *)

RoundOver == phase # "GameOver" /\ phase' = "GameOver"

\* Totals and the round number change exactly when a round ends, by exactly
\* its scores: no path to GameOver bakes a round twice or not at all.
RoundBakedOnce ==
    [][/\ round' # round \/ total_scores' # total_scores => RoundOver
       /\ RoundOver => /\ round' = round + 1
                       /\ \A s \in Seat : total_scores'[s] = total_scores[s] + scores'[s]
      ]_vars

\* A round that ends with a play ranks all four seats, each once, and pays
\* 10, 5, 0 and -15; one that ends with a pass ended by the bomb on the table.
RoundRanking ==
    [][RoundOver =>
          IF hand' # hand
          THEN /\ finished_order' \in Bijection(1..4, Seat)
               /\ \A i \in 1..4 : scores'[finished_order'[i]] = Points[i]
          ELSE IsBomb(table) /\ finished_order'[1] = combo_player]_vars

\* turn_seq never goes back, and a step that moves cards, the trick or the
\* ranking changes it or the phase.  apply_human_move drops a move that
\* changes neither, and a watchdog of an earlier turn is told by it.
EveryMoveCounts ==
    [][/\ turn_seq' \in {turn_seq, turn_seq + 1}
       /\ turn_seq' = turn_seq /\ phase' = phase =>
              UNCHANGED <<hand, trick, finished_order, scores>>]_vars

\* What is left to do in a round: the cards in the hands and, once a trick is on,
\* the seats that have not passed in it.
Held == UNION {{s} \X hand[s] : s \in Seat}
Work == 5 * Cardinality(Held) + (IF table = {} THEN 0 ELSE Cardinality(Seat \ passed))

\* A round has finitely many moves: nothing in it brings Work up and a play or a
\* pass brings it down.  A pass that does not count, or one that is accepted
\* twice in a trick, would let the seats pass for ever, as a human may pass
\* whatever it holds (apply_pass, check_trick_complete).
MovesRunOut ==
    [][InRound /\ InRound' =>
          /\ Work' <= Work
          /\ turn_seq' # turn_seq /\ phase' = phase => Work' < Work]_vars

\* Something will act for the room: the next three-discard, the turn of a bot,
\* or the watchdog over the human on turn.
Armed ==
    /\ phase = "ThreeDiscard" => pending = "StepThreeDiscard"
    /\ phase = "Playing" => \/ pending # None
                            \/ ~IsBot(current_player) /\ WatchdogDue

\* No step disarms an armed room but these two: the human on turn drops or
\* leaves, or a client plays before the phase is Playing.
StaysArmed ==
    [][/\ Armed
       /\ ~(~IsBot(current_player) /\ control'[current_player] # "human")
       /\ ~(phase = "ThreeDiscard" /\ combo_player' # combo_player)
       => Armed']_vars

-----------------------------------------------------------------------------
(* Refinement.                                                             *)

\* The round without its cards, timers and humans.  Those who have passed, are
\* finished or own the table are not asked.
Around == INSTANCE TurnOrder WITH
    stage   <- IF ~InRound THEN "over"
               ELSE IF pending = "StepThreeDiscard" THEN "dealt" ELSE "playing",
    ranking <- finished_order,
    owner   <- IF InRound THEN combo_player ELSE None,
    waiting <- IF InRound THEN Seat \ (finished \cup passed \cup {combo_player}) ELSE {},
    turn    <- IF InRound THEN current_player ELSE None

\* Every room goes around the table as TurnOrder says, whoever moves for a seat:
\* skip_finished, which knows of finished seats only, never asks one that
\* passed or owns the table, a trick ends exactly when nobody is left to ask, and
\* who won it leads (apply_play, apply_pass, check_trick_complete, resolve_trick).
GoesAround == Around!Spec

-----------------------------------------------------------------------------
(* Liveness.                                                               *)

\* With clients that stay and wait for the phase, the driver alone brings
\* every round to its end, whatever the humans do or leave undone.
RoundEnds == InRound ~> phase = "GameOver"

-----------------------------------------------------------------------------
(* What the documentation says and the code does not keep.                 *)

\* rooms.rs, module comment: "No room can be stranded."  Here: while a human
\* is in the room and the round is on, something can still act for the seat on
\* turn, be it its own human.
NoRoomStranded ==
    phase = "Playing" /\ Driven =>
        \/ pending # None
        \/ WatchdogDue
        \/ ~IsBot(current_player)
=============================================================================
