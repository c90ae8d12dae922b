----------------------------- MODULE TurnOrder ------------------------------
(***************************************************************************)
(* How a round goes around the table, for whoever does not see the cards:  *)
(* in each trick all seats that are still in are asked, clockwise, once    *)
(* after each play; when nobody is left to be asked the owner of the table *)
(* leads again, or, when the trick was won by a bomb, has won the round.   *)
(***************************************************************************)
EXTENDS Integers, Sequences

CONSTANT None

VARIABLES
    stage,     \* "over", "dealt" while the first lead is sought, or "playing"
    ranking,   \* the seats whose hands ran empty, in that order
    owner,     \* the seat whose cards lie on the table, or None
    waiting,   \* the seats still to be asked in this trick
    turn       \* the one that is asked now, None when the round is over

vars == <<stage, ranking, owner, waiting, turn>>

Seat == 0..3

Ranked(seats) == {seats[i] : i \in 1..Len(seats)}

\* The first seat of S, clockwise from seat s on.
First(s, S) == CHOOSE t \in S : \A u \in S : (t - s) % 4 <= (u - s) % 4

Init == stage = "over" /\ ranking = <<>> /\ owner = None /\ waiting = {} /\ turn = None

\* Everybody may be asked.  The winner of the last round leads.
Deal ==
    /\ stage = "over"
    /\ \/ ranking = <<>> /\ stage' = "dealt" /\ turn' \in Seat
       \/ ranking # <<>> /\ stage' = "playing" /\ turn' = ranking[1]
    /\ ranking' = <<>> /\ owner' = None /\ waiting' = Seat

\* Before anybody has played the 3s decide who leads.
ShowThrees ==
    /\ stage = "dealt" /\ stage' \in {"dealt", "playing"}
    /\ turn' \in Seat
    /\ UNCHANGED <<ranking, owner, waiting>>

Over == stage' = "over" /\ owner' = None /\ waiting' = {} /\ turn' = None

\* The seat on turn plays, perhaps its last cards: everybody else who is still
\* in is asked again.  With the third empty hand the round is over.
Play ==
    /\ stage # "over"
    /\ \E ranked \in {ranking, Append(ranking, turn)} :
          \/ /\ Len(ranked) < 3
             /\ stage' = "playing" /\ ranking' = ranked
             /\ owner' = turn
             /\ waiting' = Seat \ (Ranked(ranked) \cup {turn})
             /\ turn' = First(turn, waiting')
          \/ /\ Len(ranked) = 3
             /\ \E last \in Seat \ Ranked(ranked) : ranking' = Append(ranked, last)
             /\ Over

\* The seat on turn passes and is not asked again; the next one is.
Pass ==
    /\ owner # None /\ waiting # {turn}
    /\ waiting' = waiting \ {turn}
    /\ turn' = First(turn, waiting')
    /\ UNCHANGED <<stage, ranking, owner>>

\* The last one who was to be asked passes: the owner leads, or who is still in
\* after it.
WinTrick ==
    /\ owner # None /\ waiting = {turn}
    /\ owner' = None
    /\ waiting' = Seat \ Ranked(ranking)
    /\ turn' = First(owner, waiting')
    /\ UNCHANGED <<stage, ranking>>

\* ... or has won the round.
WinRound ==
    /\ owner # None /\ waiting = {turn}
    /\ Over
    /\ Ranked(ranking') = Seat /\ ranking'[1] = owner

Next == Deal \/ ShowThrees \/ Play \/ Pass \/ WinTrick \/ WinRound

Spec == Init /\ [][Next]_vars
=============================================================================
