------------------------------- MODULE MCGame -------------------------------
(***************************************************************************)
(* Small rooms for TLC: who sits where and which deals the shuffle yields. *)
(***************************************************************************)
EXTENDS GameProperties, TLC

\* The card of rank index r (3 = 0 ... King = 10, Ace = 11, 2 = 12) and suit.
C(r, suit) == 4 * r + suit

Four(r) == {C(r, suit) : suit \in 0..3}

Deal(h0, h1, h2, h3) == (0 :> h0) @@ (1 :> h1) @@ (2 :> h2) @@ (3 :> h3)

\* Pairs and a straight; the 3s are held by two seats, and two seats
\* show none.
MixedDeal ==
    Deal({C(0, 0), C(4, 0), C(4, 1)},
         {C(0, 1), C(0, 2), C(5, 0), C(5, 1)},
         {C(2, 3), C(3, 3), C(4, 3)},
         {C(6, 1), C(12, 2)})

\* Two bombs and a 2 to throw them at.  The seat with the 2 has a lower card
\* to play in the same trick.
BombDeal ==
    Deal({C(1, 0), C(12, 0)},
         Four(10) \cup {C(2, 1)},
         Four(11),
         {C(4, 3)})

\* A bomb that is its seat's whole hand, after the 2 of a seat with one card.
LastBombDeal ==
    Deal({C(12, 0)},
         Four(10),
         {C(3, 2), C(7, 1)},
         {C(0, 1), C(4, 3), C(5, 3)})

\* Four 2s in one hand: never dealt.
RedealtDeal ==
    Deal(Four(12), {C(1, 1)}, {C(2, 1)}, {C(3, 1)})

\* Few cards, for many rounds.
ShortDeal ==
    Deal({C(1, 0)}, {C(0, 1), C(2, 1)}, {C(3, 2), C(3, 3)}, {C(4, 3)})

OtherShortDeal ==
    Deal({C(6, 0), C(6, 1)}, {C(5, 1)}, {C(0, 2), C(4, 2)}, {C(0, 3), C(8, 3)})

MCMixed   == {MixedDeal, RedealtDeal}
MCBombs   == {BombDeal, LastBombDeal}
MCMany    == {MixedDeal, BombDeal, LastBombDeal}
MCShort   == {ShortDeal, OtherShortDeal}
MCRounds  == {MixedDeal, LastBombDeal, ShortDeal}

MCHumans    == {0, 2}
MCAllHumans == Seat
MCNobody    == {}
MCHost      == {0}
MCStale     == {3}
=============================================================================
