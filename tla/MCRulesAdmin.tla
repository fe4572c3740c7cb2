---------------------------- MODULE MCRulesAdmin ----------------------------
(***************************************************************************)
(* Instance of RulesAdmin for TLC: administrators of two organizations on  *)
(* one rule that exists, of the first or global, and one that is created.  *)
(***************************************************************************)
EXTENDS RulesAdmin

CONSTANTS orgA, orgB, global, none, absent, impact, active, old, new

Set(i, a) == [f \in Field |-> IF f = impact THEN i ELSE a]
Ask(op, id, org, set) == [op |-> op, id |-> id, org |-> org, set |-> set]

MCCall == {
  Ask("update", 1, orgA, Set(new, old)),   \* the page sends every field
  Ask("update", 1, orgB, Set(none, new)),
  Ask("update", 2, orgA, Set(none, new)),
  Ask("delete", 1, orgA, Set(none, none)),
  Ask("create", 2, orgA, Set(new, old))}

MCTable == {[id \in RuleId |-> IF id = 2 THEN absent
                               ELSE [owner |-> o, val |-> Set(old, old)]] : o \in {orgA, global}}
=============================================================================
