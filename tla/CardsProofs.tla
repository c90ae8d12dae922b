----------------------------- MODULE CardsProofs -----------------------------
(***************************************************************************)
(* Lemmas about the combinations of Cards: a bot that opens a trick always *)
(* has a combo to play, since combo_strength ranks every combo of its hand *)
(* by a number, and what the driver chooses is legal.                      *)
(***************************************************************************)
EXTENDS Cards, FiniteSetTheorems, WellFoundedInduction, TLAPS

\* Every non-empty set of numbers has a least member.
LEMMA LeastNat ==
    ASSUME NEW S \in SUBSET Nat, S # {}
    PROVE  \E x \in S : \A y \in S : x <= y
<1>1. PICK x \in S : \A y \in S : <<y, x>> \notin OpToRel(<, Nat)
  BY NatLessThanWellFounded, WFMin
<1>2. \A y \in S : ~(y < x)
  BY <1>1 DEF OpToRel
<1> QED
  BY <1>2

\* Min and Max of a non-empty set of ranks are members of it.
LEMMA MinMaxRank ==
    ASSUME NEW S \in SUBSET (0..12), S # {}
    PROVE  Min(S) \in S /\ Max(S) \in S
<1>1. PICK x \in S : \A y \in S : x <= y
  <2>1. S \in SUBSET Nat
    OBVIOUS
  <2> QED
    BY <2>1, LeastNat
<1>2. PICK z \in S : \A y \in S : z >= y
  <2> DEFINE T == {12 - y : y \in S}
  <2>1. T \in SUBSET Nat /\ T # {}
    OBVIOUS
  <2>2. PICK m \in T : \A t \in T : m <= t
    BY <2>1, LeastNat
  <2>3. PICK z \in S : m = 12 - z
    BY <2>2
  <2>4. \A y \in S : 12 - z <= 12 - y
    BY <2>2, <2>3
  <2> QED
    BY <2>3, <2>4
<1> QED
  BY <1>1, <1>2 DEF Min, Max

LEMMA RankOfCard == \A c \in Card : Rank(c) \in 0..12
<1>1. \A c \in 0..51 : c \div 4 \in 0..12
  OBVIOUS
<1> QED
  BY <1>1 DEF Rank, Card

\* combo_strength is a number for every combination.
LEMMA StrengthIsNat ==
    ASSUME NEW cards \in SUBSET Card, cards # {}, Cardinality(cards) \in 1..5,
           DetectCombo(cards) # NoCombo
    PROVE  ComboStrength(cards) \in Nat
<1>1. Ranks(cards) \in SUBSET (0..12) /\ Ranks(cards) # {}
  BY RankOfCard DEF Ranks
<1>2. PICK lo, hi : lo = Min(Ranks(cards)) /\ hi = Max(Ranks(cards))
  OBVIOUS
<1>3. lo \in 0..12 /\ hi \in 0..12
  BY <1>1, <1>2, MinMaxRank
<1>4. DetectCombo(cards) \in {"Single", "Pair", "Triple", "Bomb", "FourKind",
                              "FullHouse", "Straight"}
  BY SMT DEF DetectCombo, NoCombo
<1>5. PICK kind, n : kind = DetectCombo(cards) /\ n = Cardinality(cards)
  OBVIOUS
<1>6. ComboStrength(cards) =
        CASE kind = "Single"    -> 10 * lo + 900
          [] kind = "Pair"      -> 10 * lo + 2
          [] kind = "Triple"    -> 10 * lo + 3
          [] kind = "Straight"  -> 10 * hi + n
          [] kind = "FullHouse" -> 10 * lo + 50
          [] kind = "FourKind"  -> 10 * lo + 100
          [] kind = "Bomb"      -> 10 * lo + 9000
  BY <1>2, <1>5 DEF ComboStrength
<1> QED
  BY <1>3, <1>4, <1>5, <1>6

\* A bot with cards never has to pass on an open table (bot_free_play).
LEMMA BotLeads ==
    ASSUME NEW h \in SUBSET Card, h # {}
    PROVE  BotPlays(h, {}) # {}
<1> DEFINE usable == FindValidCombos(h)
           strengths == {ComboStrength(cards) : cards \in usable}
<1>1. PICK c \in h : TRUE
  OBVIOUS
<1>2. Cardinality({c}) = 1
  BY FS_Singleton
<1>3. DetectCombo({c}) = "Single"
  BY <1>2 DEF DetectCombo
<1>4. {c} \in usable
  BY <1>1, <1>2, <1>3 DEF FindValidCombos, NoCombo
<1>5. \A cards \in usable : ComboStrength(cards) \in Nat
  <2> TAKE cards \in usable
  <2>1. cards \in SUBSET Card /\ Cardinality(cards) \in 1..5 /\ DetectCombo(cards) # NoCombo
    BY DEF FindValidCombos
  <2>2. cards # {}
    BY <2>1, FS_EmptySet
  <2> QED
    BY <2>1, <2>2, StrengthIsNat
<1> HIDE DEF usable
<1>6. PICK m \in strengths : \A t \in strengths : m <= t
  <2>1. strengths \in SUBSET Nat /\ strengths # {}
    BY <1>4, <1>5
  <2> QED
    BY <2>1, LeastNat
<1>7. PICK cards \in usable : m = ComboStrength(cards)
  BY <1>6
<1>8. \A other \in usable : ComboStrength(cards) <= ComboStrength(other)
  BY <1>6, <1>7
<1> QED
  BY <1>7, <1>8 DEF BotPlays, usable

\* What a bot puts down are cards of its hand, at least one.
LEMMA BotPlaysFromHand ==
    ASSUME NEW h, NEW tbl, NEW cards \in BotPlays(h, tbl)
    PROVE  cards \subseteq h /\ cards # {}
<1>1. cards \subseteq h /\ Cardinality(cards) \in 1..5
  BY DEF BotPlays, FindValidCombos
<1> QED
  BY <1>1, FS_EmptySet

\* A card by itself is a combination, and may open a trick.
LEMMA SingleCard ==
    ASSUME NEW c
    PROVE  /\ Cardinality({c}) = 1
           /\ DetectCombo({c}) = "Single"
           /\ ValidPlay({c}, {})
<1>1. Cardinality({c}) = 1
  BY FS_Singleton
<1>2. DetectCombo({c}) = "Single"
  BY <1>1 DEF DetectCombo
<1> QED
  BY <1>1, <1>2 DEF ValidPlay, IsBomb, NoCombo

\* idle_auto_move finds a legal single of the hand, and it passes no open table.
LEMMA IdleMoveIsValid ==
    ASSUME NEW h \in SUBSET Card, h # {}, NEW tbl
    PROVE  /\ IdleMove(h, tbl) # {} => /\ IdleMove(h, tbl) \subseteq h
                                       /\ ValidPlay(IdleMove(h, tbl), tbl)
           /\ IdleMove(h, tbl) = {} => tbl # {}
<1> DEFINE singles == {c \in h : ValidPlay({c}, tbl)}
<1>1. singles \in SUBSET Nat
  <2>1. h \in SUBSET Nat /\ singles \subseteq h
    BY DEF Card
  <2> QED
    BY <2>1
<1>2. CASE singles = {}
  <2>1. PICK c \in h : TRUE
    OBVIOUS
  <2>2. ~ValidPlay({c}, tbl)
    BY <1>2
  <2>3. tbl # {}
    BY <2>2, SingleCard
  <2> QED
    BY <1>2, <2>3 DEF IdleMove
<1>3. CASE singles # {}
  <2> HIDE DEF singles
  <2>1. PICK x \in singles : \A y \in singles : x <= y
    BY <1>1, <1>3, LeastNat
  <2>2. Min(singles) \in singles
    BY <2>1 DEF Min
  <2>3. IdleMove(h, tbl) = {Min(singles)}
    BY <1>3 DEF IdleMove, singles
  <2> QED
    BY <2>2, <2>3 DEF singles
<1> QED
  BY <1>2, <1>3

\* Whatever a bot puts down is a legal play: with a bomb in its hand it also
\* holds a single, which combo_strength ranks lower, so it leads no bomb.
LEMMA BotPlaysAreValid ==
    ASSUME NEW h \in SUBSET Card, NEW tbl, NEW cards \in BotPlays(h, tbl)
    PROVE  ValidPlay(cards, tbl)
<1>1. /\ cards \in FindValidCombos(h)
      /\ tbl = {} \/ ValidPlay(cards, tbl)
      /\ \A other \in FindValidCombos(h) :
            tbl = {} => ComboStrength(cards) <= ComboStrength(other)
  BY DEF BotPlays
<1>2. /\ cards \in SUBSET Card /\ cards \subseteq h
      /\ Cardinality(cards) \in 1..5
      /\ DetectCombo(cards) # NoCombo
  BY <1>1 DEF FindValidCombos
<1>3. PICK c \in cards : TRUE
  BY <1>2, FS_EmptySet
<1>4. {c} \in FindValidCombos(h)
  <2>1. {c} \in SUBSET h /\ 1 \in 1..5
    BY <1>2, <1>3
  <2>2. Cardinality({c}) = 1 /\ DetectCombo({c}) = "Single"
    BY SingleCard
  <2> QED
    BY <2>1, <2>2 DEF FindValidCombos, NoCombo
<1>5. ComboStrength({c}) <= 1020
  <2>1. Ranks({c}) = {Rank(c)}
    BY DEF Ranks
  <2>2. Rank(c) \in 0..12
    BY <1>2, <1>3, RankOfCard
  <2>3. Min({Rank(c)}) = Rank(c)
    <3>1. Min({Rank(c)}) \in {Rank(c)}
      BY <2>2, MinMaxRank
    <3> QED
      BY <3>1
  <2>4. DetectCombo({c}) = "Single"
    BY SingleCard
  <2>5. ComboStrength({c}) = 10 * Rank(c) + 900
    BY <2>1, <2>3, <2>4 DEF ComboStrength
  <2> QED
    BY <2>2, <2>5
<1>6. IsBomb(cards) => ComboStrength(cards) >= 9000
  <2>1. SUFFICES ASSUME DetectCombo(cards) = "Bomb"
                 PROVE  ComboStrength(cards) >= 9000
    BY DEF IsBomb
  <2>2. Ranks(cards) \in SUBSET (0..12) /\ Ranks(cards) # {}
    BY <1>2, <1>3, RankOfCard DEF Ranks
  <2>3. PICK lo : lo = Min(Ranks(cards))
    OBVIOUS
  <2>4. lo \in 0..12
    BY <2>2, <2>3, MinMaxRank
  <2>5. ComboStrength(cards) = 10 * lo + 9000
    BY <2>1, <2>3 DEF ComboStrength
  <2> QED
    BY <2>4, <2>5
<1>7. tbl = {} => ~IsBomb(cards)
  <2>1. ComboStrength(cards) \in Nat /\ ComboStrength({c}) \in Nat
    <3>1. /\ {c} \in SUBSET Card /\ {c} # {}
          /\ Cardinality({c}) \in 1..5 /\ DetectCombo({c}) # NoCombo
      BY <1>2, <1>4 DEF FindValidCombos
    <3> QED
      BY <1>2, <1>3, <3>1, StrengthIsNat
  <2>2. tbl = {} => ComboStrength(cards) <= ComboStrength({c})
    BY <1>1, <1>4
  <2> QED
    BY <1>5, <1>6, <2>1, <2>2
<1> QED
  BY <1>1, <1>2, <1>7 DEF ValidPlay
=============================================================================
