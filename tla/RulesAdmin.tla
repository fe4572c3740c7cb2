----------------------------- MODULE RulesAdmin -----------------------------
(***************************************************************************)
(* The endpoints under /api/v1/fraud/rules: rules are created, updated and *)
(* deleted in transactions that read the row without a lock, test its      *)
(* owner, and write it later.                                              *)
(*                                                                         *)
(* SQLAlchemy's flush writes the attributes whose new value differs from   *)
(* the one loaded, and nothing when none does.  The UPDATE or DELETE waits *)
(* for the row lock and then works on the row as last committed.           *)
(***************************************************************************)
EXTENDS FiniteSets

CONSTANTS
  Req,       \* HTTP requests
  RuleId,    \* rows fraud_rules may ever have
  Org,       \* organizations
  Global,    \* the owner of a rule whose organization_id is NULL
  Field,     \* what an update may set: score_impact, is_active, ...
  Value,     \* the values of a field
  None,      \* no request; a field an update does not mention
  Absent,    \* no row
  Call,      \* the calls clients make, a subset of CallType
  Table      \* the contents fraud_rules may have at the start

Owner == Org \cup {Global}

\* A row: who owns it and the values of its fields.
Rule == [owner : Owner, val : [Field -> Value]]

\* PUT or DELETE of a rule, or POST of a new one, by a user of an organization.
CallType == [op  : {"create", "update", "delete"},
             id  : RuleId,
             org : Org,
             set : [Field -> Value \cup {None}]]

ASSUME RulesAssumption ==
  /\ Global \notin Org /\ None \notin Req \cup Value /\ Absent \notin Rule
  /\ Call \subseteq CallType
  /\ \A c \in Call : c.op = "create" => c.set \in [Field -> Value]
  /\ Table \subseteq [RuleId -> Rule \cup {Absent}]

VARIABLES
  pc,        \* where each request is
  call,      \* what its client asks
  loaded,    \* the row its SELECT returned, Absent before that
  changes,   \* the fields its UPDATE has written with their values, uncommitted
  shown,     \* the row its answer shows, Absent when none
  outcome,   \* the HTTP status its client got
  rules,     \* the committed fraud_rules
  holder,    \* the transaction that holds the lock of each row
  versions   \* history: the contents of the rule since each request read it

vars == <<pc, call, loaded, changes, shown, outcome, rules, holder, versions>>

PC == {"new", "read", "insert", "update", "delete", "refresh", "commit", "done"}

IdOf(r) == call[r].id

\* What a flush writes: some fields with their values.
Writes == UNION {[F -> Value] : F \in SUBSET Field}
Nothing == [f \in {} |-> None]

Init ==
  /\ pc = [r \in Req |-> "new"]
  /\ call \in [Req -> Call]
  /\ \A r, s \in Req :
       call[r].op = "create" /\ call[s].op = "create" /\ IdOf(r) = IdOf(s) => r = s
  /\ loaded = [r \in Req |-> Absent]
  /\ changes = [r \in Req |-> Nothing]
  /\ shown = [r \in Req |-> Absent]
  /\ outcome = [r \in Req |-> "none"]
  /\ rules \in Table
  /\ \A r \in Req : call[r].op = "create" => rules[IdOf(r)] = Absent
  /\ holder = [i \in RuleId |-> None]
  /\ versions = [r \in Req |-> {}]

Goto(r, from, to) == pc[r] = from /\ pc' = [pc EXCEPT ![r] = to]

\* Mutant: the failed transaction stays open.
RollbackLeaky(r, status) ==
  /\ pc' = [pc EXCEPT ![r] = "done"]
  /\ shown' = [shown EXCEPT ![r] = Absent]
  /\ outcome' = [outcome EXCEPT ![r] = status]
  /\ UNCHANGED <<call, loaded, changes, rules, holder, versions>>

\* get_db on an exception.
Rollback(r, status) ==
  /\ pc' = [pc EXCEPT ![r] = "done"]
  /\ shown' = [shown EXCEPT ![r] = Absent]
  /\ outcome' = [outcome EXCEPT ![r] = status]
  /\ holder' = [i \in RuleId |-> IF holder[i] = r THEN None ELSE holder[i]]
  /\ UNCHANGED <<call, loaded, changes, rules, versions>>

Receive(r) ==
  /\ Goto(r, "new", IF call[r].op = "create" THEN "insert" ELSE "read")
  /\ UNCHANGED <<call, loaded, changes, shown, outcome, rules, holder, versions>>

---------------------------------------------------------------------------
\* Mutant: any organization may change any rule.
AnyoneMayChange(op, rule, org) == rule # Absent

\* The tests after the SELECT: an organization updates its own rules and the
\* global ones, and deletes its own.
MayChange(op, rule, org) ==
  /\ rule # Absent
  /\ rule.owner = org \/ (op = "update" /\ rule.owner = Global)

NotFound(r) ==
  LET rule == rules[IdOf(r)]
  IN  /\ pc[r] = "read"
      /\ ~MayChange(call[r].op, rule, call[r].org)
      /\ Rollback(r, "404")

ReadRule(r) ==
  LET rule == rules[IdOf(r)]
  IN  /\ Goto(r, "read", call[r].op)
      /\ MayChange(call[r].op, rule, call[r].org)
      /\ loaded' = [loaded EXCEPT ![r] = rule]
      /\ versions' = [versions EXCEPT ![r] = {rule}]
      /\ UNCHANGED <<call, changes, shown, outcome, rules, holder>>

\* Mutant: every attribute of the object is written back.
DirtyAll(r) ==
  [f \in Field |-> IF call[r].set[f] = None THEN loaded[r].val[f] ELSE call[r].set[f]]

\* The attributes set to something else than what was loaded.
Dirty(r) ==
  [f \in {g \in Field : call[r].set[g] \notin {None, loaded[r].val[g]}} |-> call[r].set[f]]

\* A row with the fields of w in place of its own.
With(row, w) ==
  [row EXCEPT !.val = [f \in Field |-> IF f \in DOMAIN w THEN w[f] ELSE row.val[f]]]

\* The row as transaction r sees it, its own writes included.
Seen(r) ==
  IF rules[IdOf(r)] = Absent THEN Absent ELSE With(rules[IdOf(r)], changes[r])

\* The flush of update_rule.  Nothing to write takes no lock.
SkipUpdate(r) ==
  /\ Goto(r, "update", "refresh")
  /\ Dirty(r) = Nothing
  /\ UNCHANGED <<call, loaded, changes, shown, outcome, rules, holder, versions>>

WriteUpdate(r) ==
  /\ Goto(r, "update", "refresh")
  /\ Dirty(r) # Nothing /\ holder[IdOf(r)] = None /\ rules[IdOf(r)] # Absent
  /\ holder' = [holder EXCEPT ![IdOf(r)] = r]
  /\ changes' = [changes EXCEPT ![r] = Dirty(r)]
  /\ UNCHANGED <<call, loaded, shown, outcome, rules, versions>>

\* StaleDataError: the UPDATE found no row.
UpdateGone(r) ==
  /\ pc[r] = "update"
  /\ Dirty(r) # Nothing /\ holder[IdOf(r)] = None /\ rules[IdOf(r)] = Absent
  /\ Rollback(r, "500")

\* Mutant: the answer is built from the object as loaded and set.
RefreshFromMemory(r) ==
  /\ Goto(r, "refresh", "commit")
  /\ shown' = [shown EXCEPT ![r] = With(loaded[r], Dirty(r))]
  /\ UNCHANGED <<call, loaded, changes, outcome, rules, holder, versions>>

\* db.refresh: the answer shows the row, not what was asked for.
Refresh(r) ==
  /\ Seen(r) # Absent
  /\ Goto(r, "refresh", "commit")
  /\ shown' = [shown EXCEPT ![r] = Seen(r)]
  /\ UNCHANGED <<call, loaded, changes, outcome, rules, holder, versions>>

\* InvalidRequestError: nothing was written and the row is gone.
RefreshGone(r) ==
  /\ pc[r] = "refresh" /\ Seen(r) = Absent
  /\ Rollback(r, "500")

\* A DELETE that finds no row any more only warns.
WriteDelete(r) ==
  /\ holder[IdOf(r)] = None
  /\ Goto(r, "delete", "commit")
  /\ holder' = [holder EXCEPT ![IdOf(r)] = IF rules[IdOf(r)] = Absent THEN None ELSE r]
  /\ UNCHANGED <<call, loaded, changes, shown, outcome, rules, versions>>

\* create_rule draws a fresh identifier and shows the row it inserted.
InsertRule(r) ==
  /\ Goto(r, "insert", "commit")
  /\ shown' = [shown EXCEPT ![r] = [owner |-> call[r].org, val |-> call[r].set]]
  /\ UNCHANGED <<call, loaded, changes, outcome, rules, holder, versions>>

---------------------------------------------------------------------------
\* What the row is once r commits.
Result(r) ==
  CASE call[r].op = "create" -> shown[r]
    [] call[r].op = "update" -> Seen(r)
    [] call[r].op = "delete" -> Absent

\* get_db on success; the answer may be lost.
Commit(r) ==
  LET row == Result(r)
  IN  /\ Goto(r, "commit", "done")
      /\ rules' = [rules EXCEPT ![IdOf(r)] = row]
      /\ versions' = [s \in Req |->
           IF loaded[s] # Absent /\ IdOf(s) = IdOf(r) /\ (pc[s] # "done")
             THEN versions[s] \cup {row} ELSE versions[s]]
      /\ holder' = [i \in RuleId |-> IF holder[i] = r THEN None ELSE holder[i]]
      /\ \E status \in {"2xx", "500"} : outcome' = [outcome EXCEPT ![r] = status]
      /\ UNCHANGED <<call, loaded, changes, shown>>

Fail(r) == pc[r] \notin {"new", "done"} /\ Rollback(r, "500")

Step(r) ==
  \/ NotFound(r) \/ ReadRule(r) \/ SkipUpdate(r) \/ WriteUpdate(r) \/ UpdateGone(r)
  \/ Refresh(r) \/ RefreshGone(r) \/ WriteDelete(r) \/ InsertRule(r) \/ Commit(r)

Next == \E r \in Req : Receive(r) \/ Step(r) \/ Fail(r)

\* The steps that wait for the row lock.
Wait(r) == WriteUpdate(r) \/ UpdateGone(r) \/ WriteDelete(r)

\* As in VerificationPipeline: awaits end, row locks are served in turn.
Fairness == \A r \in Req : WF_vars(Step(r)) /\ SF_vars(Wait(r))

Spec == Init /\ [][Next]_vars /\ Fairness

---------------------------------------------------------------------------
TypeOK ==
  /\ pc \in [Req -> PC]
  /\ call \in [Req -> Call]
  /\ loaded \in [Req -> Rule \cup {Absent}]
  /\ changes \in [Req -> Writes]
  /\ shown \in [Req -> Rule \cup {Absent}]
  /\ outcome \in [Req -> {"none", "2xx", "404", "500"}]
  /\ rules \in [RuleId -> Rule \cup {Absent}]
  /\ holder \in [RuleId -> Req \cup {None}]
  /\ versions \in [Req -> SUBSET (Rule \cup {Absent})]

\* What call c may make of a row: an update touches only the fields it mentions,
\* of a rule of its organization or a global one, and brings nothing back.
Asked(c, old, new) ==
  \/ /\ c.op = "create" /\ old = Absent
     /\ new = [owner |-> c.org, val |-> c.set]
  \/ c.op = "delete" /\ new = Absent /\ old.owner = c.org
  \/ /\ c.op = "update" /\ old # Absent /\ new # Absent
     /\ new.owner = old.owner /\ old.owner \in {c.org, Global}
     /\ \A f \in Field : new.val[f] \in {old.val[f], c.set[f]}

\* However updates and deletions of one rule overlap, a commit changes what its
\* own request asked for and nothing else: concurrent updates of different
\* fields both survive, and an update never revives a deleted rule.  This is what
\* update_rule allows: that any organization may change a global rule is against
\* the docstring of its endpoint, which OrgScopedOnly states.
ChangesAreAsked ==
  [][\A i \in RuleId : rules'[i] # rules[i] =>
       \E r \in Req : /\ pc[r] = "commit" /\ pc'[r] = "done" /\ IdOf(r) = i
                      /\ Asked(call[r], rules[i], rules'[i])]_vars

\* A 200 of an update is true: the row it shows was in force at an instant of
\* the request, and so was each value it asked for, though perhaps no longer
\* at its end: a value equal to the one loaded is not written.
UpdatesAreTrue ==
  \A r \in Req : call[r].op = "update" /\ outcome[r] = "2xx" =>
    /\ shown[r] \in versions[r]
    /\ \A f \in Field : call[r].set[f] # None =>
         \E row \in versions[r] \ {Absent} : row.val[f] = call[r].set[f]

\* Every request is answered: no wait for a row lock lasts for ever.
Answered == \A r \in Req : pc[r] \in {"read", "insert"} ~> pc[r] = "done"

---------------------------------------------------------------------------
\* Claim of the repository that the code does not keep.

\* fraud.py:53: "Update an existing fraud rule (org-scoped only)."  A commit
\* changes a rule only if it is one of the caller's organization.
OrgScopedOnly ==
  [][\A r \in Req :
       /\ pc[r] = "commit" /\ pc'[r] = "done"
       /\ rules[IdOf(r)] # Absent /\ rules'[IdOf(r)] # rules[IdOf(r)]
       => rules[IdOf(r)].owner = call[r].org]_vars
=============================================================================
