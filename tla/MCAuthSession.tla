--------------------------- MODULE MCAuthSession ---------------------------
(***************************************************************************)
(* Instances of AuthSession for TLC.  There are as many tokens as requests:*)
(* a request draws at most one.                                            *)
(***************************************************************************)
EXTENDS AuthSession

CONSTANTS r1, r2, r3, t1, t2, t3, u1
=============================================================================
