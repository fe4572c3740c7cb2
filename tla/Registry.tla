------------------------------ MODULE Registry ------------------------------
(***************************************************************************)
(* What registration promises, with every request an instant: an address   *)
(* gets at most one account, an account comes with its organization, and   *)
(* an organization gets the first candidate slug of its name that is free. *)
(***************************************************************************)
EXTENDS Naturals

CONSTANTS
  Address,    \* e-mail addresses, in lower case
  Name,       \* names of organizations
  Slug,       \* their URL-safe forms, with and without a suffix
  MaxSuffix,  \* the last suffix tried
  Candidate,  \* of each name: the slugs to try, in order
  None        \* no account

VARIABLES
  slugs,   \* the slugs of the organizations
  home     \* the slug of the organization of each account

vars == <<slugs, home>>

Init ==
  /\ slugs = {}
  /\ home = [a \in Address |-> None]

FirstFree(n, i) ==
  /\ Candidate[n][i] \notin slugs
  /\ \A j \in 0 .. MaxSuffix : j < i => Candidate[n][j] \in slugs

Register(a, n, i) ==
  /\ home[a] = None
  /\ FirstFree(n, i)
  /\ slugs' = slugs \cup {Candidate[n][i]}
  /\ home' = [home EXCEPT ![a] = Candidate[n][i]]

Create(n, i) ==
  /\ FirstFree(n, i)
  /\ slugs' = slugs \cup {Candidate[n][i]}
  /\ UNCHANGED home

Next == \E n \in Name, i \in 0 .. MaxSuffix :
          Create(n, i) \/ \E a \in Address : Register(a, n, i)

Spec == Init /\ [][Next]_vars
=============================================================================
