---------------------------- MODULE FraudEngine ----------------------------
(***************************************************************************)
(* The fraud rule engine (app/services/fraud_service.py): pure operators   *)
(* from a table of rules and the signals of one request to a risk score,   *)
(* a decision and a per-rule breakdown.  No state is kept here; the        *)
(* verification pipeline and the rule administration are built on it.      *)
(*                                                                         *)
(* A rule's (rule_type, rule_name) pair is abstracted to its kind: the     *)
(* five pairs the engine knows how to trigger, and "other" for every pair  *)
(* it silently ignores (custom rules, and the geo stub, which is always    *)
(* False).                                                                 *)
(***************************************************************************)
EXTENDS Integers, FiniteSets

CONSTANTS
  RuleId,   \* identifiers of the rows of fraud_rules
  Org,      \* organizations
  Global    \* the owner of a rule whose organization_id is NULL

ASSUME RuleAssumption == IsFiniteSet(RuleId) /\ Global \notin Org

Kind == {"disposable_email", "invalid_pan_format", "phone_reused",
         "blacklisted_device", "high_velocity", "other"}

MaxImpact == 100   \* the schema's upper bound on score_impact
MaxScore  == 100   \* the upper clamp of a total score

Decision == {"APPROVED", "REVIEW", "REJECT"}

\* A row of fraud_rules.  A deleted row is one that is never active again.
Rule == [owner     : Org \cup {Global},
         kind      : Kind,
         impact    : 0 .. MaxImpact,
         active    : BOOLEAN,
         threshold : Int]

\* What the engine is told about one request: two facts about the payload,
\* three read from Redis, and whether the payload has an IP address at all.
Signals == [disposable  : BOOLEAN,
            badPan      : BOOLEAN,
            phoneSeen   : BOOLEAN,
            blacklisted : BOOLEAN,
            hasIp       : BOOLEAN,
            ipCount     : Nat]

---------------------------------------------------------------------------
MakeDecision(score) ==
  CASE score <= 30                 -> "APPROVED"
    [] score > 30 /\ score <= 60   -> "REVIEW"
    [] score > 60                  -> "REJECT"

\* Mutant: no tenant filter.
AllActiveRules(rules, org) == {id \in RuleId : rules[id].active}

\* get_active_rules: the active rules that are global or the organization's.
ActiveRules(rules, org) ==
  {id \in RuleId : rules[id].active /\ rules[id].owner \in {Global, org}}

Triggered(rule, s) ==
  \/ rule.kind = "disposable_email"   /\ s.disposable
  \/ rule.kind = "invalid_pan_format" /\ s.badPan
  \/ rule.kind = "phone_reused"       /\ s.phoneSeen
  \/ rule.kind = "blacklisted_device" /\ s.blacklisted
  \/ rule.kind = "high_velocity"      /\ s.hasIp /\ s.ipCount >= rule.threshold

\* The rules that fire for an organization's request.
Fired(rules, org, s) ==
  {id \in ActiveRules(rules, org) : Triggered(rules[id], s)}

\* The sum of the impacts of a set of rules.  Impacts are never negative, so
\* the sum counts the pairs <<rule, point>>; stated as a cardinality it has
\* the library's theorems on finite sets.
Points(rules, S) ==
  Cardinality({p \in S \X (1 .. MaxImpact) : p[2] <= rules[p[1]].impact})

\* Mutant: no upper clamp.
ClampBelow(n) == IF n < 0 THEN 0 ELSE n

Clamp(n) == IF n < 0 THEN 0 ELSE IF n > MaxScore THEN MaxScore ELSE n

Score(rules, S) == Clamp(Points(rules, S))

\* simulate: the same evaluation with the signals Redis would have given
\* left at their defaults.
DrySignals(s) ==
  [s EXCEPT !.phoneSeen = FALSE, !.blacklisted = FALSE, !.ipCount = 0]

SimulatedScore(rules, org, s) == Score(rules, Fired(rules, org, DrySignals(s)))
=============================================================================
