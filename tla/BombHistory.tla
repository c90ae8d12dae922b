----------------------------- MODULE BombHistory -----------------------------
(***************************************************************************)
(* Game with what the documentation of maybe_end_game_by_bomb needs and    *)
(* the code does not keep: who held the single 2 and who bombed it, in the *)
(* order of the bombs.  The history variables only watch.                  *)
(***************************************************************************)
EXTENDS GameProperties

VARIABLES holder,   \* the seat whose single 2 the trick's first bomb beat
          bombers   \* the seats that bombed in this trick, first to last

historyVars == <<vars, holder, bombers>>

BombLands == combo_player' # None /\ hand' # hand /\ IsBomb(table')

HistoryInit == Init /\ holder = None /\ bombers = <<>>

HistoryNext ==
    /\ Next
    /\ \/ /\ BombLands
          /\ holder' = IF bombers = <<>> THEN combo_player ELSE holder
          /\ bombers' = Append(bombers, combo_player')
       \/ /\ combo_player' = None
          /\ holder' = None
          /\ bombers' = <<>>
       \/ /\ combo_player' # None /\ ~BombLands
          /\ UNCHANGED <<holder, bombers>>

HistorySpec == HistoryInit /\ [][HistoryNext]_historyVars

\* "the single-2 holder, or the FIRST bomber if the bomb was countered"
BombedSeat == IF Len(bombers) = 1 THEN holder ELSE bombers[1]

\* rules.rs, maybe_end_game_by_bomb: the bombed player is 4th with -15.  The
\* code takes the seat that was pushed last into trick.played, which never
\* lists a seat twice: one that played earlier in the trick is not pushed
\* again when its 2 is bombed.
BombHitsBombedSeat ==
    [][RoundOver /\ hand' = hand =>
          finished_order'[4] = BombedSeat /\ scores'[BombedSeat] = Points[4]
      ]_historyVars
=============================================================================
