--------------------------- MODULE MCRateLimiter ---------------------------
(***************************************************************************)
(* Instances of RateLimiter for TLC: each client may make Quota requests   *)
(* per window.                                                             *)
(***************************************************************************)
EXTENDS RateLimiter

CONSTANTS key, Quota

MCLimit == [b \in Bucket |-> Quota]
=============================================================================
