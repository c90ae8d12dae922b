------------------------------- MODULE Round -------------------------------
(***************************************************************************)
(* The rules of a round at the table: GameState and TrickState             *)
(* (game/state.rs) and what one play, one pass, one three-discard or one   *)
(* deal does to them (game/engine.rs, game/rules.rs).  The operators below *)
(* are the state changes; who takes them, and when, is module Game.        *)
(***************************************************************************)
EXTENDS Cards, Sequences

CONSTANTS None,          \* no seat, no action, no timer: Rust's Option::None
          Deals,         \* the shuffles considered: functions from seats to hands
          WinningPoint   \* GameState::winning_point

Seat == 0..3

ASSUME NoneAssumption ==
    /\ None \notin Nat
    /\ None \notin {"EnterPlaying", "StepThreeDiscard", "BotTurn"}

\* set_room_settings accepts 1..9999.
ASSUME WinningPointAssumption == WinningPoint \in 1..9999

\* No deal gives two seats one card, and every seat has a card that is not a
\* 3: with 13 cards and four 3s in the deck it always does.
ASSUME DealsAssumption ==
    \A deal \in Deals :
        /\ deal \in [Seat -> SUBSET Card]
        /\ \A s \in Seat : \E c \in deal[s] : Rank(c) # Three
        /\ \A s, t \in Seat : s # t => deal[s] \cap deal[t] = {}

VARIABLES
    phase,           \* GamePhase
    hand,            \* players[i].hand
    finished,        \* the seats with players[i].finished set
    current_player,
    table,           \* trick.cards; its combo_type is DetectCombo(table)
    combo_player,    \* trick.combo_player
    passed,          \* trick.passed, a set: a seat passes once between plays
    played,          \* trick.played
    finished_order,
    scores,
    total_scores,
    round,
    turn_seq,
    game_winner,
    order,           \* three_discard.order, <<>> when three_discard is None
    discarded        \* how many seats of order have discarded

trick   == <<table, combo_player, passed, played>>
result  == <<phase, total_scores, round, game_winner>>
discard == <<order, discarded>>
roundVars == <<hand, finished, current_player, finished_order, scores, turn_seq,
               trick, result, discard>>

NextSeat(s) == (s + 1) % 4

\* Mutant: one finished seat is skipped, a second one next to it is not.
SkipOneFinished(s, fin) == IF s \in fin THEN NextSeat(s) ELSE s

\* skip_finished from seat s: the first seat from s on that is not finished.
SkipFinished(s, fin) ==
    IF Seat \subseteq fin THEN s
    ELSE LET away == {d \in 0..3 : (s + d) % 4 \notin fin}
         IN  (s + Min(away)) % 4

-----------------------------------------------------------------------------
(* Scoring.                                                                *)

Points == <<10, 5, 0, -15>>

\* Mutant: positions counted from zero.
ScoreNextPosition(sc, p, position) == [sc EXCEPT ![p] = Points[position + 1]]

\* score_player: seat p finished in this position.
ScorePlayer(sc, p, position) == [sc EXCEPT ![p] = Points[position]]

\* Mutant: the target has to be exceeded.
MatchWinnerAbove(totals) ==
    LET reached == {s \in Seat : totals[s] > WinningPoint}
    IN  IF game_winner # None THEN game_winner
        ELSE IF reached = {} THEN None
        ELSE Min(reached)

\* check_match_winner: the first seat at the winning point, kept once set.
MatchWinner(totals) ==
    LET reached == {s \in Seat : totals[s] >= WinningPoint}
    IN  IF game_winner # None THEN game_winner
        ELSE IF reached = {} THEN None
        ELSE Min(reached)

\* Mutant: the totals grow by the scores the round had before its last seat.
BakeRoundEarly(sc) ==
    LET totals == [s \in Seat |-> total_scores[s] + scores[s]]
    IN  /\ scores' = sc
        /\ total_scores' = totals
        /\ phase' = "GameOver"
        /\ round' = round + 1
        /\ game_winner' = MatchWinner(totals)

\* What finalize_game and maybe_end_game_by_bomb do last: the round's scores
\* go into the totals and the round is counted.
BakeRound(sc) ==
    LET totals == [s \in Seat |-> total_scores[s] + sc[s]]
    IN  /\ scores' = sc
        /\ total_scores' = totals
        /\ phase' = "GameOver"
        /\ round' = round + 1
        /\ game_winner' = MatchWinner(totals)

\* Mutant: the last seat is paid but not ranked.
FinalizeGameUnranked(fo, fin, sc) ==
    /\ finished_order' = fo
    /\ finished' = fin
    /\ BakeRound([sc EXCEPT ![Min(Seat \ fin)] = Points[4]])

\* finalize_game, with three seats in fo: the one left is last.
FinalizeGame(fo, fin, sc) ==
    LET last == Min(Seat \ fin)
    IN  /\ finished_order' = Append(fo, last)
        /\ finished' = fin
        /\ BakeRound([sc EXCEPT ![last] = Points[4]])

\* rest lists the seats of S by number.
IsAscending(rest, S) ==
    /\ Range(rest) = S
    /\ \A i, j \in DOMAIN rest : i < j => rest[i] < rest[j]

\* maybe_end_game_by_bomb, the trick complete with a bomb on it: the seat that
\* was pushed last into `played` is the bombed one.
EndGameByBomb ==
    LET victim == IF played = <<>> THEN None ELSE played[Len(played)]
        winner == combo_player
    IN  /\ \E rest \in [1..2 -> Seat] \cup [1..3 -> Seat] :
             /\ IsAscending(rest, Seat \ {winner, victim})
             /\ finished_order' = <<winner>> \o rest
                                  \o (IF victim = None THEN <<>> ELSE <<victim>>)
        /\ finished' = Seat
        /\ BakeRound([s \in Seat |-> IF s = victim THEN Points[4]
                                     ELSE IF s = winner THEN Points[1] ELSE 0])

-----------------------------------------------------------------------------
(* Tricks.                                                                 *)

\* Mutant: the passes of one trick count in the next.
NewTrickKeepsPasses == /\ table' = {}
                       /\ combo_player' = None
                       /\ passed' = passed
                       /\ played' = <<>>

\* TrickState::new
NewTrick == /\ table' = {}
            /\ combo_player' = None
            /\ passed' = {}
            /\ played' = <<>>

\* Mutant: seats that are finished are waited for.
TrickCompleteByPasses(out) == Seat \ {combo_player} \subseteq out

\* check_trick_complete: everyone else is finished or has passed.
TrickComplete(out) == Seat \ {combo_player} \subseteq finished \cup out

\* Mutant: the turn moves on untold.
AdvanceUntold(fin) ==
    /\ current_player' = SkipFinished(NextSeat(current_player), fin)
    /\ UNCHANGED turn_seq

\* The turn goes to the next seat still in the round.
Advance(fin) ==
    /\ current_player' = SkipFinished(NextSeat(current_player), fin)
    /\ turn_seq' = turn_seq + 1

\* Mutant: the lead goes on from the winner.
ResolveTrickNext ==
    /\ NewTrick
    /\ current_player' = SkipFinished(NextSeat(combo_player), finished)
    /\ turn_seq' = turn_seq + 1

\* resolve_trick: the winner leads, or the next seat after it still in.
ResolveTrick ==
    /\ NewTrick
    /\ current_player' = SkipFinished(combo_player, finished)
    /\ turn_seq' = turn_seq + 1

\* Mutant: the owner of the table is recorded even if there is none.
RecordAnyOwner ==
    IF combo_player \in Range(played) \cup passed THEN played ELSE Append(played, combo_player)

\* The owner of the table that is beaten joins `played`, once.
RecordOwner ==
    IF combo_player \in {None} \cup Range(played) \cup passed
    THEN played ELSE Append(played, combo_player)

\* apply_play (and a bot's play) once the cards are accepted.  `parked` is
\* where current_player stays when this play ends the round.  The play clears
\* `passed`, so it completes a trick only if three other seats are finished;
\* the round would be over before that (RankingSoFar), hence no such case.
PlayCards(p, cards, parked) ==
    LET out == cards = hand[p]
        fin == IF out THEN finished \cup {p} ELSE finished
        fo  == IF out THEN Append(finished_order, p) ELSE finished_order
        sc  == IF out THEN ScorePlayer(scores, p, Len(fo)) ELSE scores
    IN  /\ hand' = [hand EXCEPT ![p] = @ \ cards]
        /\ table' = cards
        /\ combo_player' = p
        /\ passed' = {}
        /\ played' = RecordOwner
        /\ UNCHANGED discard
        /\ \/ /\ Len(fo) >= 3
              /\ FinalizeGame(fo, fin, sc)
              /\ current_player' = parked
              /\ UNCHANGED turn_seq
           \/ /\ Len(fo) < 3
              /\ Advance(fin)
              /\ finished_order' = fo
              /\ finished' = fin
              /\ scores' = sc
              /\ UNCHANGED result

\* apply_pass (and a bot's pass): the last pass of a trick ends the round when
\* a bomb lies on the table and otherwise hands the lead to the winner.
Pass(p) ==
    /\ UNCHANGED <<hand, discard>>
    /\ \/ /\ TrickComplete(passed \cup {p})
          /\ IsBomb(table)
          /\ EndGameByBomb
          /\ NewTrick
          /\ UNCHANGED <<current_player, turn_seq>>
       \/ /\ TrickComplete(passed \cup {p})
          /\ ~IsBomb(table)
          /\ ResolveTrick
          /\ UNCHANGED <<finished, finished_order, scores, result>>
       \/ /\ ~TrickComplete(passed \cup {p})
          /\ passed' = passed \cup {p}
          /\ Advance(finished)
          /\ UNCHANGED <<table, combo_player, played, finished, finished_order,
                         scores, result>>

\* When the engine takes a move from seat p at all.  It asks for the turn, not
\* for the phase.
OnTurn(p) == current_player = p /\ Len(finished_order) < 3

MayPlay(p, cards) ==
    /\ OnTurn(p)
    /\ cards \subseteq hand[p]
    /\ ValidPlay(cards, table)

\* Mutant: the seat that has the lead may pass it on.
MayPassTheLead(p) == OnTurn(p) /\ combo_player # p

MayPass(p) == OnTurn(p) /\ combo_player \notin {None, p}

-----------------------------------------------------------------------------
(* Dealing.                                                                *)

\* deal_cards_guarded: a deal that gives one seat all four 2s is redealt.
GuardedDeals ==
    {deal \in Deals : \A s \in Seat :
                          Cardinality({c \in deal[s] : Rank(c) = Two}) < 4}

\* start_three_discard: most 3s first, then the highest suit of them, then the
\* lower seat (the sort is stable).
DiscardsBefore(deal, s, t) ==
    LET threes(u) == {c \in deal[u] : Rank(c) = Three}
        n(u)      == Cardinality(threes(u))
        suit(u)   == IF threes(u) = {} THEN 0 ELSE Suit(Max(threes(u)))
    IN  \/ n(s) > n(t)
        \/ n(s) = n(t) /\ suit(s) > suit(t)
        \/ n(s) = n(t) /\ suit(s) = suit(t) /\ s < t

\* deal_and_start_discard: the 3s leave every hand and the seats are put in
\* the order in which they show them.
DealAndStartDiscard ==
    \E deal \in GuardedDeals, seats \in Bijection(1..4, Seat) :
        /\ \A i, j \in 1..4 : i < j => DiscardsBefore(deal, seats[i], seats[j])
        /\ hand' = [s \in Seat |-> {c \in deal[s] : Rank(c) # Three}]
        /\ order' = seats
        /\ discarded' = 0
        /\ phase' = "ThreeDiscard"
        /\ current_player' = seats[1]
        /\ UNCHANGED <<finished, trick, finished_order, scores, total_scores,
                       round, turn_seq, game_winner>>

\* process_three_discard for the next seat of the order, but not the last.
DiscardThrees ==
    /\ discarded < 3
    /\ discarded' = discarded + 1
    /\ current_player' = order[discarded + 2]
    /\ UNCHANGED <<hand, finished, trick, finished_order, scores, result,
                   turn_seq, order>>

\* process_three_discard for the last seat: the first of the order leads.
FinishDiscard ==
    /\ discarded = 3
    /\ phase' = "Playing"
    /\ current_player' = order[1]
    /\ turn_seq' = turn_seq + 1
    /\ order' = <<>>
    /\ discarded' = 0
    /\ UNCHANGED <<hand, finished, trick, finished_order, scores, total_scores,
                   round, game_winner>>

\* start_next_round: the totals stay, the rest is reset, and the first of the
\* round before leads with no three-discard.
DealNextRound ==
    \E deal \in GuardedDeals :
        /\ hand' = deal
        /\ phase' = "Playing"
        /\ current_player' = finished_order[1]
        /\ turn_seq' = turn_seq + 1
        /\ finished' = {}
        /\ finished_order' = <<>>
        /\ scores' = [s \in Seat |-> 0]
        /\ NewTrick
        /\ order' = <<>>
        /\ discarded' = 0
        /\ UNCHANGED <<total_scores, round, game_winner>>

\* A seated room before its first game.
RoundInit ==
    /\ phase = "Lobby"
    /\ hand = [s \in Seat |-> {}]
    /\ finished = {}
    /\ current_player = 0
    /\ table = {} /\ combo_player = None /\ passed = {} /\ played = <<>>
    /\ finished_order = <<>>
    /\ scores = [s \in Seat |-> 0]
    /\ total_scores = [s \in Seat |-> 0]
    /\ round = 1
    /\ turn_seq = 0
    /\ game_winner = None
    /\ order = <<>>
    /\ discarded = 0
=============================================================================
