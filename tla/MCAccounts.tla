----------------------------- MODULE MCAccounts -----------------------------
(***************************************************************************)
(* Instances of Accounts for TLC: names whose candidates overlap ("Acme"   *)
(* with a suffix, and "Acme 1"), and one address in two spellings.         *)
(***************************************************************************)
EXTENDS Accounts, TLC

CONSTANTS r1, r2, r3

Spellings == {"Ann@x", "ann@x", "bob@x"}
LowerCase == ("Ann@x" :> "ann@x") @@ ("ann@x" :> "ann@x") @@ ("bob@x" :> "bob@x")

Names == {"Acme", "Acme 1"}
SlugTexts == {"acme", "acme-1", "acme-2", "acme-3", "acme-1-1", "acme-1-2", "acme-1-3"}
Candidates ==
  ("Acme" :> [i \in 0 .. 3 |-> <<"acme", "acme-1", "acme-2", "acme-3">>[i + 1]])
  @@ ("Acme 1" :> [i \in 0 .. 3 |-> <<"acme-1", "acme-1-1", "acme-1-2", "acme-1-3">>[i + 1]])

Calls ==
  {[op |-> "register", email |-> "Ann@x", name |-> "Acme"],
   [op |-> "register", email |-> "ann@x", name |-> "Acme"],
   [op |-> "register", email |-> "bob@x", name |-> "Acme"],
   [op |-> "create", email |-> "bob@x", name |-> "Acme 1"]}
=============================================================================
