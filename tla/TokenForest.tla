---------------------------- MODULE TokenForest ----------------------------
(***************************************************************************)
(* What the refresh-token store promises, with every request an instant:   *)
(* tokens form a forest, one tree per login.  A token is planted by a      *)
(* login, spent by a rotation that plants its child in the same instant,   *)
(* or cut by a logout.  Two rotations that overlap may both give a token a *)
(* child; the second one is a fork.                                        *)
(***************************************************************************)
CONSTANTS Token, None

VARIABLES
  state,   \* of each token: "absent", "live" or "revoked"
  parent   \* the token it was rotated from, None for the token of a login

vars == <<state, parent>>

Init ==
  /\ state = [t \in Token |-> "absent"]
  /\ parent = [t \in Token |-> None]

Plant(t) ==
  /\ state[t] = "absent"
  /\ state' = [state EXCEPT ![t] = "live"]
  /\ UNCHANGED parent

\* Rotate spends a live token; Fork is the same of one already revoked.
Rotate(t, u) ==
  /\ state[t] = "live" /\ state[u] = "absent"
  /\ state' = [state EXCEPT ![t] = "revoked", ![u] = "live"]
  /\ parent' = [parent EXCEPT ![u] = t]

Fork(t, u) ==
  /\ state[t] = "revoked" /\ state[u] = "absent"
  /\ state' = [state EXCEPT ![u] = "live"]
  /\ parent' = [parent EXCEPT ![u] = t]

Cut(t) ==
  /\ state[t] = "live"
  /\ state' = [state EXCEPT ![t] = "revoked"]
  /\ UNCHANGED parent

Next ==
  \E t \in Token : Plant(t) \/ Cut(t) \/ \E u \in Token : Rotate(t, u) \/ Fork(t, u)

Spec == Init /\ [][Next]_vars
=============================================================================
