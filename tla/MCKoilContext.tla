---------------------------- MODULE MCKoilContext ----------------------------
(* Small instances of KoilContext for TLC.                                 *)
EXTENDS KoilContext

CONSTANTS k1, k2, o1, o2, m1, f1
=============================================================================
