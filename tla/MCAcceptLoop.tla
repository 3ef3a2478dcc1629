---------------------------- MODULE MCAcceptLoop ----------------------------
(* Small instances of AcceptLoop for TLC.                                  *)
EXTENDS AcceptLoop

CONSTANTS c1, c2, c3, c4

ThreeConns == {c1, c2, c3}
FourConns == {c1, c2, c3, c4}
=============================================================================
