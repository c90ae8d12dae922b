------------------------------- MODULE Cards -------------------------------
(***************************************************************************)
(* The cards, the combinations they form and the moves the server accepts  *)
(* or makes for a seat: card.rs, combo.rs, rules::validate_play,           *)
(* rules::idle_auto_move and bot.rs.                                       *)
(*                                                                         *)
(* A card is the number 4 * rank_index + suit_index, so the numeric order  *)
(* of cards is the order of sort_cards (rank first, then suit) and a hand, *)
(* which the server always keeps sorted, is a set of cards.  The cards of  *)
(* one play are a set as well: plays name distinct cards of the hand.      *)
(***************************************************************************)
EXTENDS Integers, FiniteSets, FiniteSetsExt

Card == 0..51

Rank(c) == c \div 4
Suit(c) == c % 4

Three == 0    \* rank_index of the 3s, removed by the three-discard
Two   == 12   \* rank_index of the 2s, the highest rank

Ranks(cards) == {Rank(c) : c \in cards}

\* The ranks that occur exactly n times among the cards.
RanksHeld(cards, n) == {r \in Ranks(cards) : Cardinality({c \in cards : Rank(c) = r}) = n}

SameRank(cards) == Cardinality(Ranks(cards)) = 1
SameSuit(cards) == Cardinality({Suit(c) : c \in cards}) = 1

\* Distinct consecutive ranks, all of them 3..10 or exactly J-Q-K.
IsStraight(cards) ==
    LET ranks == Ranks(cards)
        n     == Cardinality(cards)
    IN  /\ n >= 3
        /\ Cardinality(ranks) = n
        /\ Max(ranks) - Min(ranks) = n - 1
        /\ ranks \subseteq 0..7 \/ ranks = 8..10

-----------------------------------------------------------------------------

NoCombo == "none"

\* detect_combo: what a set of cards is, if it is a combination at all.
DetectCombo(cards) ==
    LET n == Cardinality(cards)
    IN  CASE n = 1 -> "Single"
          [] n = 2 /\ SameRank(cards) -> "Pair"
          [] n = 3 /\ SameRank(cards) -> "Triple"
          [] n = 4 /\ SameRank(cards) -> "Bomb"
          [] n = 5 /\ RanksHeld(cards, 4) # {} -> "FourKind"
          [] n = 5 /\ RanksHeld(cards, 3) # {} /\ RanksHeld(cards, 2) # {} -> "FullHouse"
          [] n \in 3..5 /\ SameSuit(cards) /\ IsStraight(cards) -> "Straight"
          [] OTHER -> NoCombo

\* compare_combos orders two combos of one type by this number: the rank that
\* occurs most (the highest of a straight), then the pair or the kicker.
ComboValue(cards) ==
    CASE DetectCombo(cards) = "FullHouse" ->
            13 * Max(RanksHeld(cards, 3)) + Max(RanksHeld(cards, 2))
      [] DetectCombo(cards) = "FourKind" ->
            13 * Max(RanksHeld(cards, 4)) + Max(RanksHeld(cards, 1))
      [] OTHER -> 13 * Max(Ranks(cards))

IsBomb(cards) == DetectCombo(cards) = "Bomb"

IsSingleTwo(cards) == DetectCombo(cards) = "Single" /\ Ranks(cards) = {Two}

\* validate_play: the cards may go on the table; table = {} opens a trick.  A
\* bomb never leads; it answers a single 2 or a lower bomb, and only a higher
\* bomb answers it.
ValidPlay(cards, table) ==
    /\ DetectCombo(cards) # NoCombo
    /\ \/ table = {} /\ ~IsBomb(cards)
       \/ IsBomb(cards) /\ table # {} /\ IsSingleTwo(table)
       \/ /\ table # {}
          /\ DetectCombo(cards) = DetectCombo(table)
          /\ Cardinality(cards) = Cardinality(table)
          /\ ComboValue(cards) > ComboValue(table)

-----------------------------------------------------------------------------

\* idle_auto_move: the lowest single the table allows, or {} to pass.
IdleMove(hand, table) ==
    LET singles == {c \in hand : ValidPlay({c}, table)}
    IN  IF singles = {} THEN {} ELSE {Min(singles)}

\* Mutant: a bomb counts no more than its rank.
ComboStrengthOfBombLow(cards) ==
    LET low  == 10 * Min(Ranks(cards))
        high == 10 * Max(Ranks(cards))
        kind == DetectCombo(cards)
    IN  CASE kind = "Single"    -> low + 900
          [] kind = "Pair"      -> low + 2
          [] kind = "Triple"    -> low + 3
          [] kind = "Straight"  -> high + Cardinality(cards)
          [] kind = "FullHouse" -> low + 50
          [] kind = "FourKind"  -> low + 100
          [] kind = "Bomb"      -> low

\* combo_strength: the bots' ranking of combos, lowest played first.
ComboStrength(cards) ==
    LET low  == 10 * Min(Ranks(cards))
        high == 10 * Max(Ranks(cards))
        kind == DetectCombo(cards)
    IN  CASE kind = "Single"    -> low + 900
          [] kind = "Pair"      -> low + 2
          [] kind = "Triple"    -> low + 3
          [] kind = "Straight"  -> high + Cardinality(cards)
          [] kind = "FullHouse" -> low + 50
          [] kind = "FourKind"  -> low + 100
          [] kind = "Bomb"      -> low + 9000

\* find_valid_combos: every combination the hand holds.
FindValidCombos(hand) ==
    {cards \in SUBSET hand : Cardinality(cards) \in 1..5 /\ DetectCombo(cards) # NoCombo}

\* bot_play: the weakest combos the bot may put down, {} if it has to pass.  Of
\* several equally weak ones the code takes the first it enumerated; here any.
\* A free play is not filtered by validate_play.
BotPlays(hand, table) ==
    LET usable == {cards \in FindValidCombos(hand) :
                     table = {} \/ ValidPlay(cards, table)}
    IN  {cards \in usable : \A other \in usable :
                                ComboStrength(cards) <= ComboStrength(other)}
=============================================================================
