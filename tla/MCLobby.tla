------------------------------- MODULE MCLobby ------------------------------
(***************************************************************************)
(* A few sockets on one pod or two, for TLC.                               *)
(***************************************************************************)
EXTENDS LobbyProperties

CONSTANTS c1, c2, c3, t1, t2, t3, t4, a, b

\* Everybody in one process.
OnePod == [c \in Socket |-> a]

\* The last socket is on another pod.
TwoPods == [c \in Socket |-> IF c = c3 THEN b ELSE a]

\* Tokens and the sockets of one pod are interchangeable.
Alike == Permutations(Token) \cup Permutations({c1, c2})
=============================================================================
