------------------------------- MODULE MCPods -------------------------------
(***************************************************************************)
(* A few sockets on two processes, for TLC.                                *)
(***************************************************************************)
EXTENDS PodsProperties

CONSTANTS c1, c2, c3, t1, t2, t3, a, b

\* One socket on the first process, the others on the second.
TwoPods == [c \in Socket |-> IF c = c1 THEN a ELSE b]

\* One who comes says that it is ready, once; or everybody anything.
OneIsReady == {<<c3, TRUE>>}
AnyReady   == Socket \X BOOLEAN
=============================================================================
