--------------------- MODULE VerificationPipelineProofs ---------------------
(***************************************************************************)
(* Safety of the verification pipeline for any requests, keys, payloads    *)
(* and rules.  The inductive invariant IInv says, next to the types, who   *)
(* holds each row lock, what each open transaction has written, and which  *)
(* requests each Redis counter has counted.                                *)
(***************************************************************************)
EXTENDS VerificationPipeline, FiniteSetTheorems, TLAPS

---------------------------------------------------------------------------
(***************************************************************************)
(* What the rule engine's operators return, for every table of rules.      *)
(***************************************************************************)
\* The pairs that Points counts.
PointPairs(table, S) ==
  {p \in S \X (1 .. MaxImpact) : p[2] <= table[p[1]].impact}

\* The points of any set of rules are finitely many.
LEMMA PointPairsFinite ==
  ASSUME NEW table, NEW S \in SUBSET RuleId
  PROVE  IsFiniteSet(PointPairs(table, S))
<1>1. IsFiniteSet(S)
  BY RuleAssumption, FS_Subset
<1>2. IsFiniteSet(1 .. MaxImpact)
  <2>1. 1 \in Int /\ MaxImpact \in Int
    BY DEF MaxImpact
  <2> QED
    BY <2>1, FS_Interval
<1>3. IsFiniteSet(S \X (1 .. MaxImpact))
  BY <1>1, <1>2, FS_Product
<1>4. PointPairs(table, S) \subseteq S \X (1 .. MaxImpact)
  BY DEF PointPairs
<1> QED
  BY <1>3, <1>4, FS_Subset

\* The sum of impacts is a natural number.
LEMMA PointsType ==
  ASSUME NEW table, NEW S \in SUBSET RuleId
  PROVE  Points(table, S) \in Nat
BY PointPairsFinite, FS_CardinalityType DEF Points, PointPairs

\* make_decision is defined for every score, and evaluate_rules keeps the
\* score within the bounds its result column and response schema state.
LEMMA ScoreType ==
  ASSUME NEW table, NEW S \in SUBSET RuleId
  PROVE  Score(table, S) \in 0 .. MaxScore
BY PointsType DEF Score, Clamp, MaxScore

\* Every score has a decision.
LEMMA DecisionType ==
  ASSUME NEW score \in 0 .. MaxScore
  PROVE  MakeDecision(score) \in Decision
BY DEF MakeDecision, Decision, MaxScore

\* Rules that fire are rules.
LEMMA FiredSubset ==
  ASSUME NEW table, NEW org, NEW s
  PROVE  Fired(table, org, s) \in SUBSET RuleId
BY DEF Fired, ActiveRules

\* A set of rules never scores higher than a larger one.
LEMMA ScoreMonotone ==
  ASSUME NEW table, NEW S \in SUBSET RuleId, NEW T \in SUBSET RuleId, S \subseteq T
  PROVE  Score(table, S) <= Score(table, T)
<1>1. PointPairs(table, S) \subseteq PointPairs(table, T)
  BY DEF PointPairs
<1>2. Points(table, S) <= Points(table, T)
  BY <1>1, PointPairsFinite, FS_Subset DEF Points, PointPairs
<1> QED
  BY <1>2, PointsType DEF Score, Clamp, MaxScore

\* A higher score never has a milder decision.
LEMMA DecisionMonotone ==
  ASSUME NEW m \in 0 .. MaxScore, NEW n \in 0 .. MaxScore, m <= n
  PROVE  /\ MakeDecision(n) = "APPROVED" => MakeDecision(m) = "APPROVED"
         /\ MakeDecision(m) = "REJECT" => MakeDecision(n) = "REJECT"
BY DEF MakeDecision, MaxScore

\* simulate never rates a payload riskier than submit would with the same
\* rules: the Redis signals it leaves out can only fire more rules.  Who is
\* rejected in the dry run is rejected, and only who is approved in it can be.
THEOREM SimulationIsLowerBound ==
  ASSUME NEW table \in [RuleId -> Rule], NEW org \in Org, NEW s \in Signals
  PROVE  LET dry  == SimulatedScore(table, org, s)
             real == Score(table, Fired(table, org, s))
         IN  /\ dry <= real
             /\ MakeDecision(dry) = "REJECT" => MakeDecision(real) = "REJECT"
             /\ MakeDecision(real) = "APPROVED" => MakeDecision(dry) = "APPROVED"
<1>1. ASSUME NEW id \in RuleId, Triggered(table[id], DrySignals(s))
      PROVE  Triggered(table[id], s)
  BY <1>1 DEF Triggered, DrySignals, Signals, Rule
<1>2. Fired(table, org, DrySignals(s)) \subseteq Fired(table, org, s)
  BY <1>1 DEF Fired, ActiveRules
<1>3. SimulatedScore(table, org, s) <= Score(table, Fired(table, org, s))
  BY <1>2, FiredSubset, ScoreMonotone DEF SimulatedScore
<1>4. /\ SimulatedScore(table, org, s) \in 0 .. MaxScore
      /\ Score(table, Fired(table, org, s)) \in 0 .. MaxScore
  BY FiredSubset, ScoreType DEF SimulatedScore
<1> QED
  BY <1>3, <1>4, DecisionMonotone

\* No organization can change the score of another: two tables that agree on
\* the global rules and on those of one organization, whatever else they hold,
\* fire the same rules for it with the same score (get_active_rules' filter).
THEOREM TenantIsolation ==
  ASSUME NEW table \in [RuleId -> Rule], NEW other \in [RuleId -> Rule],
         NEW org \in Org, NEW s \in Signals,
         \A id \in RuleId :
           table[id].owner \in {Global, org} \/ other[id].owner \in {Global, org}
           => table[id] = other[id]
  PROVE  /\ Fired(table, org, s) = Fired(other, org, s)
         /\ Score(table, Fired(table, org, s)) = Score(other, Fired(other, org, s))
<1> DEFINE S == Fired(table, org, s)
<1>1. S = Fired(other, org, s)
  BY DEF Fired, ActiveRules
<1>2. \A id \in S : table[id] = other[id]
  BY DEF Fired, ActiveRules
<1>3. PointPairs(table, S) = PointPairs(other, S)
  BY <1>2 DEF PointPairs
<1>4. Score(table, S) = Score(other, S)
  BY <1>3 DEF Score, Points, PointPairs
<1> QED
  BY <1>1, <1>4

---------------------------------------------------------------------------
(***************************************************************************)
(* The inductive invariant of the pipeline.                                *)
(***************************************************************************)

\* A row as the last step of submit writes it.
Complete(r, row) ==
  /\ row.status = "completed"
  /\ row.decision = MakeDecision(row.score)
  /\ row.decision \in Decision

Counted(r) == \A c \in CountersOf(call[r]) : r \in hits[c] \cup gone[c]

BeforeInsert == {"new", "auth", "touch", "query", "insert"}
Submitting   == {"insert", "phone", "device", "ip", "decide", "count", "dispatch"}
Checked      == {"device", "ip", "decide", "count", "dispatch", "commit"}

\* A request past the UPDATE of last_used_at holds the row lock of its key;
\* a revocation past its UPDATE holds it too.
LockInv ==
  /\ \A r \in Req : pc[r] \in Locked => holder[KeyOf(r)] = r
  /\ \A k \in Key : revoking[k] = "locked" => holder[k] = Admin

\* What the open transactions have written.
DraftInv ==
  \A r \in Req :
    /\ pc[r] \in Submitting => call[r].op = "submit"
    /\ pc[r] = "query" => call[r].op = "read"
    /\ pc[r] \in BeforeInsert => draft[r] = NoRow
    /\ pc[r] \in {"count", "dispatch"} => Complete(r, draft[r])
    /\ pc[r] = "commit" => IF call[r].op = "submit" THEN Complete(r, draft[r])
                                                    ELSE draft[r] = NoRow

\* What has been committed, and what clients have been told.
LedgerInv ==
  \A r \in Req :
    /\ Committed(r) => /\ pc[r] = "done" /\ outcome[r] \in {"2xx", "500"}
                       /\ call[r].op = "submit" /\ Complete(r, ledger[r])
    /\ pc[r] # "done" => outcome[r] = "none"
    /\ outcome[r] = "2xx" /\ call[r].op = "submit" => Committed(r)

\* A request is counted from its MULTI/EXEC on.
CountInv ==
  /\ \A r \in Req :
       /\ Committed(r) \/ pc[r] \in {"dispatch", "commit"}
       /\ call[r].op = "submit"
       => Counted(r)
  /\ \A m \in audit : Counted(m.id)

\* Requests that have checked their phone, or recorded what they then saw,
\* and that the phone's counter would still count.
Past(r) ==
  /\ call[r].op = "submit" /\ call[r].phone # None
  /\ pc[r] \in Checked \/ Committed(r)
  /\ r \notin gone[call[r].phone]

SeenInv ==
  \A r, s \in Req :
    /\ Past(r) /\ Past(s)
    /\ KeyOf(r) = KeyOf(s) /\ call[r].phone = call[s].phone
    /\ ~view[r].phoneSeen /\ ~view[s].phoneSeen
    => r = s

\* The same of the IP counter: the requests of a key that saw fewer than n.
PastIp(r, k, i) ==
  /\ call[r].op = "submit" /\ KeyOf(r) = k /\ call[r].ip = i
  /\ pc[r] \in {"decide", "count", "dispatch", "commit"} \/ Committed(r)
  /\ r \notin gone[i]

SawFewer(k, i, n) == {r \in Req : PastIp(r, k, i) /\ view[r].ipCount < n}

VelocityInv ==
  \A k \in Key, i \in Ip, n \in Nat : Cardinality(SawFewer(k, i, n)) <= n

\* Only the organization's and the global rules fire, and rules keep their
\* owner.
OwnerInv ==
  \A r \in Req : \A id \in draft[r].fired \cup ledger[r].fired :
    rules[id].owner \in {Global, OrgOf(r)}

\* An audit message is sent once its decision is final.
AuditInv ==
  \A m \in audit :
    /\ pc[m.id] \in {"commit", "done"}
    /\ pc[m.id] = "commit" => m.decision = draft[m.id].decision
    /\ Committed(m.id) => m.decision = ledger[m.id].decision

IInv == /\ TypeOK /\ LockInv /\ DraftInv /\ LedgerInv /\ CountInv
        /\ SeenInv /\ VelocityInv /\ OwnerInv /\ AuditInv

---------------------------------------------------------------------------
\* The rows and views that actions write have their types.
LEMMA ConstantTypes ==
  /\ NoRow \in Row /\ BlankRow("processing") \in Row
  /\ EmptyView \in View
BY DEF NoRow, BlankRow, Row, EmptyView, View, Decision, MaxScore

\* What a call carries has its type.
LEMMA CallTypes ==
  ASSUME NEW r \in Req, call \in [Req -> Call]
  PROVE  /\ call[r] \in CallType /\ KeyOf(r) \in Key /\ OrgOf(r) \in Org
         /\ CountersOf(call[r]) \subseteq Counter
<1>1. call[r] \in CallType
  BY PipelineAssumption
<1>2. KeyOf(r) \in Key
  BY <1>1 DEF KeyOf, CallType
<1>3. OrgOf(r) \in Org
  BY <1>2, PipelineAssumption DEF OrgOf
<1>4. call[r].phone \in Phone \cup {None} /\ call[r].ip \in Ip \cup {None}
  BY <1>1 DEF CallType
<1> QED
  BY <1>1, <1>2, <1>3, <1>4 DEF CountersOf, Counter

\* The verdict of Decide is a complete row, whatever fired.
LEMMA JudgeComplete ==
  ASSUME NEW r \in Req, NEW table, NEW c, NEW v
  PROVE  Judge(table, c, v) \in Row /\ Complete(r, Judge(table, c, v))
<1> DEFINE fired == Fired(table, KeyOrg[c.key], SignalsOf(c, v))
<1>1. fired \in SUBSET RuleId
  BY FiredSubset
<1>2. Score(table, fired) \in 0 .. MaxScore
  BY <1>1, ScoreType
<1>3. MakeDecision(Score(table, fired)) \in Decision
  BY <1>2, DecisionType
<1> QED
  BY <1>1, <1>2, <1>3 DEF Judge, Verdict, Row, Complete

\* A Redis counter is a number: finitely many requests increment it.
LEMMA HitsType ==
  ASSUME hits \in [Counter -> SUBSET Req], NEW c \in Counter
  PROVE  Cardinality(hits[c]) \in Nat
BY PipelineAssumption, FS_Subset, FS_CardinalityType

---------------------------------------------------------------------------
\* Every step keeps the types.
LEMMA TypeStep ==
  TypeOK /\ DraftInv /\ [Next]_vars => TypeOK'
<1> SUFFICES ASSUME TypeOK, DraftInv, [Next]_vars
             PROVE  TypeOK'
  OBVIOUS
<1> USE ConstantTypes DEF TypeOK, dbVars, redisVars, PC
<1>1. CASE UNCHANGED vars
  BY <1>1 DEF vars
<1>2. ASSUME NEW r \in Req, Receive(r) PROVE TypeOK'
  BY <1>2 DEF Receive, Goto
<1>3. ASSUME NEW r \in Req, RejectKey(r) PROVE TypeOK'
  BY <1>3 DEF RejectKey, Rollback
<1>4. ASSUME NEW r \in Req, LookupKey(r) PROVE TypeOK'
  <2>1. orgActive[OrgOf(r)] \in BOOLEAN
    BY CallTypes
  <2>2. view' \in [Req -> View]
    BY <1>4, <2>1 DEF LookupKey, View
  <2> QED
    BY <1>4, <2>2 DEF LookupKey, Goto
<1>5. ASSUME NEW r \in Req, TouchKey(r) PROVE TypeOK'
  <2>1. KeyOf(r) \in Key
    BY CallTypes
  <2> QED
    BY <1>5, <2>1 DEF TouchKey, Goto
<1>6. ASSUME NEW r \in Req, RejectOrg(r) PROVE TypeOK'
  BY <1>6 DEF RejectOrg, Rollback
<1>7. ASSUME NEW r \in Req, Query(r) PROVE TypeOK'
  BY <1>7 DEF Query, Goto
<1>8. ASSUME NEW r \in Req, InsertRequest(r) PROVE TypeOK'
  BY <1>8 DEF InsertRequest, Goto
<1>9. ASSUME NEW r \in Req, CheckPhoneSeen(r) PROVE TypeOK'
  <2>1. view' \in [Req -> View]
    BY <1>9 DEF CheckPhoneSeen, View
  <2> QED
    BY <1>9, <2>1 DEF CheckPhoneSeen, Goto
<1>10. ASSUME NEW r \in Req, CheckDeviceBlacklisted(r) PROVE TypeOK'
  <2> DEFINE listed == call[r].device \in blacklist
  <2>1. view' = [view EXCEPT ![r].listed = listed]
    BY <1>10 DEF CheckDeviceBlacklisted
  <2>2. listed \in BOOLEAN
    OBVIOUS
  <2> HIDE DEF listed
  <2>3. view' \in [Req -> View]
    BY <2>1, <2>2 DEF View
  <2> QED
    BY <1>10, <2>3 DEF CheckDeviceBlacklisted, Goto
<1>11. ASSUME NEW r \in Req, GetIpVelocity(r) PROVE TypeOK'
  <2>1. call[r].ip # None => Cardinality(hits[call[r].ip]) \in Nat
    <3>1. call[r].ip \in Ip \cup {None}
      BY CallTypes DEF CallType
    <3> QED
      BY <3>1, HitsType DEF Counter
  <2>2. view' \in [Req -> View]
    BY <1>11, <2>1 DEF GetIpVelocity, View
  <2> QED
    BY <1>11, <2>2 DEF GetIpVelocity, Goto
<1>12. ASSUME NEW r \in Req, Decide(r) PROVE TypeOK'
  BY <1>12, JudgeComplete DEF Decide, Goto
<1>13. ASSUME NEW r \in Req, UpdateRedisCounters(r) PROVE TypeOK'
  BY <1>13 DEF UpdateRedisCounters, Goto
<1>14. ASSUME NEW r \in Req, DispatchAudit(r) PROVE TypeOK'
  <2>1. draft[r].decision \in Decision
    BY <1>14 DEF DispatchAudit, Goto, DraftInv, Complete
  <2> QED
    BY <1>14, <2>1 DEF DispatchAudit, Goto
<1>15. ASSUME NEW r \in Req, Commit(r) PROVE TypeOK'
  <2>1. KeyOf(r) \in Key
    BY CallTypes
  <2> QED
    BY <1>15, <2>1 DEF Commit, Goto
<1>16. ASSUME NEW r \in Req, Fail(r) PROVE TypeOK'
  BY <1>16 DEF Fail, Rollback
<1>17. ASSUME NEW k \in Key, CreateKey(k) PROVE TypeOK'
  BY <1>17 DEF CreateKey
<1>18. ASSUME NEW k \in Key, RevokeRead(k) PROVE TypeOK'
  BY <1>18 DEF RevokeRead
<1>19. ASSUME NEW k \in Key, RevokeUpdate(k) PROVE TypeOK'
  BY <1>19 DEF RevokeUpdate
<1>20. ASSUME NEW k \in Key, RevokeCommit(k) PROVE TypeOK'
  BY <1>20 DEF RevokeCommit
<1>21. ASSUME NEW k \in Key, RevokeFail(k) PROVE TypeOK'
  BY <1>21 DEF RevokeFail
<1>22. ASSUME NEW o \in Org, DeactivateOrg(o) PROVE TypeOK'
  BY <1>22 DEF DeactivateOrg
<1>23. ASSUME NEW id \in RuleId, ChangeRule(id) PROVE TypeOK'
  BY <1>23 DEF ChangeRule
<1>24. ASSUME NEW d \in Device, BlacklistDevice(d) PROVE TypeOK'
  BY <1>24 DEF BlacklistDevice
<1>25. ASSUME NEW c \in Counter, Expire(c) PROVE TypeOK'
  BY <1>25 DEF Expire
<1> QED
  BY <1>1, <1>2, <1>3, <1>4, <1>5, <1>6, <1>7, <1>8, <1>9, <1>10, <1>11, <1>12,
     <1>13, <1>14, <1>15, <1>16, <1>17, <1>18, <1>19, <1>20, <1>21, <1>22, <1>23,
     <1>24, <1>25
  DEF Next, Step

---------------------------------------------------------------------------
\* Row locks: a request acquires its key's lock before it is past the UPDATE,
\* and nobody but its holder releases it.
LEMMA LockStep ==
  TypeOK /\ LockInv /\ [Next]_vars => LockInv'
<1> SUFFICES ASSUME TypeOK, LockInv, [Next]_vars
             PROVE  LockInv'
  OBVIOUS
<1> USE PipelineAssumption, CallTypes DEF TypeOK, LockInv, Locked, PC, KeyOf, dbVars, redisVars
<1>1. CASE UNCHANGED vars
  BY <1>1 DEF vars
<1>2. ASSUME NEW r \in Req, Receive(r) PROVE LockInv'
  BY <1>2 DEF Receive, Goto
<1>3. ASSUME NEW r \in Req, RejectKey(r) PROVE LockInv'
  BY <1>3 DEF RejectKey, Rollback
<1>4. ASSUME NEW r \in Req, LookupKey(r) PROVE LockInv'
  BY <1>4 DEF LookupKey, Goto
<1>5. ASSUME NEW r \in Req, TouchKey(r) PROVE LockInv'
  BY <1>5 DEF TouchKey, Goto
<1>6. ASSUME NEW r \in Req, RejectOrg(r) PROVE LockInv'
  BY <1>6 DEF RejectOrg, Rollback
<1>7. ASSUME NEW r \in Req, Query(r) PROVE LockInv'
  BY <1>7 DEF Query, Goto
<1>8. ASSUME NEW r \in Req, InsertRequest(r) PROVE LockInv'
  BY <1>8 DEF InsertRequest, Goto
<1>9. ASSUME NEW r \in Req, CheckPhoneSeen(r) PROVE LockInv'
  BY <1>9 DEF CheckPhoneSeen, Goto
<1>10. ASSUME NEW r \in Req, CheckDeviceBlacklisted(r) PROVE LockInv'
  BY <1>10 DEF CheckDeviceBlacklisted, Goto
<1>11. ASSUME NEW r \in Req, GetIpVelocity(r) PROVE LockInv'
  BY <1>11 DEF GetIpVelocity, Goto
<1>12. ASSUME NEW r \in Req, Decide(r) PROVE LockInv'
  BY <1>12 DEF Decide, Goto
<1>13. ASSUME NEW r \in Req, UpdateRedisCounters(r) PROVE LockInv'
  BY <1>13 DEF UpdateRedisCounters, Goto
<1>14. ASSUME NEW r \in Req, DispatchAudit(r) PROVE LockInv'
  BY <1>14 DEF DispatchAudit, Goto
<1>15. ASSUME NEW r \in Req, Commit(r) PROVE LockInv'
  <2>1. pc[r] \in Locked /\ KeyOf(r) \in Key
    BY <1>15, CallTypes DEF Commit, Goto
  <2>2. holder[KeyOf(r)] = r
    BY <2>1
  <2>3. ASSUME NEW s \in Req, pc'[s] \in Locked PROVE holder'[KeyOf(s)] = s
    BY <1>15, <2>2, <2>3 DEF Commit, Goto
  <2>4. ASSUME NEW k \in Key, revoking'[k] = "locked" PROVE holder'[k] = Admin
    BY <1>15, <2>2, <2>4 DEF Commit
  <2> QED
    BY <1>15, <2>3, <2>4 DEF Commit
<1>16. ASSUME NEW r \in Req, Fail(r) PROVE LockInv'
  BY <1>16 DEF Fail, Rollback
<1>17. ASSUME NEW k \in Key, CreateKey(k) PROVE LockInv'
  BY <1>17 DEF CreateKey
<1>18. ASSUME NEW k \in Key, RevokeRead(k) PROVE LockInv'
  BY <1>18 DEF RevokeRead
<1>19. ASSUME NEW k \in Key, RevokeUpdate(k) PROVE LockInv'
  BY <1>19 DEF RevokeUpdate
<1>20. ASSUME NEW k \in Key, RevokeCommit(k) PROVE LockInv'
  BY <1>20 DEF RevokeCommit
<1>21. ASSUME NEW k \in Key, RevokeFail(k) PROVE LockInv'
  BY <1>21 DEF RevokeFail
<1>22. ASSUME NEW o \in Org, DeactivateOrg(o) PROVE LockInv'
  BY <1>22 DEF DeactivateOrg
<1>23. ASSUME NEW id \in RuleId, ChangeRule(id) PROVE LockInv'
  BY <1>23 DEF ChangeRule
<1>24. ASSUME NEW d \in Device, BlacklistDevice(d) PROVE LockInv'
  BY <1>24 DEF BlacklistDevice
<1>25. ASSUME NEW c \in Counter, Expire(c) PROVE LockInv'
  BY <1>25 DEF Expire
<1> QED
  BY <1>1, <1>2, <1>3, <1>4, <1>5, <1>6, <1>7, <1>8, <1>9, <1>10, <1>11, <1>12,
     <1>13, <1>14, <1>15, <1>16, <1>17, <1>18, <1>19, <1>20, <1>21, <1>22, <1>23,
     <1>24, <1>25
  DEF Next, Step

\* Drafts: nothing is written before the INSERT, a complete row after Decide.
LEMMA DraftStep ==
  TypeOK /\ DraftInv /\ [Next]_vars => DraftInv'
<1> SUFFICES ASSUME TypeOK, DraftInv, [Next]_vars
             PROVE  DraftInv'
  OBVIOUS
<1> USE ConstantTypes DEF TypeOK, DraftInv, BeforeInsert, Submitting, dbVars, redisVars, PC
<1>1. CASE UNCHANGED vars
  BY <1>1 DEF vars
<1>2. ASSUME NEW r \in Req, Receive(r) PROVE DraftInv'
  BY <1>2 DEF Receive, Goto
<1>3. ASSUME NEW r \in Req, RejectKey(r) PROVE DraftInv'
  BY <1>3 DEF RejectKey, Rollback
<1>4. ASSUME NEW r \in Req, LookupKey(r) PROVE DraftInv'
  BY <1>4 DEF LookupKey, Goto
<1>5. ASSUME NEW r \in Req, TouchKey(r) PROVE DraftInv'
  <2>1. call[r].op \in {"submit", "read"}
    BY CallTypes DEF CallType
  <2> QED
    BY <1>5, <2>1 DEF TouchKey, Goto
<1>6. ASSUME NEW r \in Req, RejectOrg(r) PROVE DraftInv'
  BY <1>6 DEF RejectOrg, Rollback
<1>7. ASSUME NEW r \in Req, Query(r) PROVE DraftInv'
  BY <1>7 DEF Query, Goto
<1>8. ASSUME NEW r \in Req, InsertRequest(r) PROVE DraftInv'
  BY <1>8 DEF InsertRequest, Goto
<1>9. ASSUME NEW r \in Req, CheckPhoneSeen(r) PROVE DraftInv'
  BY <1>9 DEF CheckPhoneSeen, Goto
<1>10. ASSUME NEW r \in Req, CheckDeviceBlacklisted(r) PROVE DraftInv'
  BY <1>10 DEF CheckDeviceBlacklisted, Goto
<1>11. ASSUME NEW r \in Req, GetIpVelocity(r) PROVE DraftInv'
  BY <1>11 DEF GetIpVelocity, Goto
<1>12. ASSUME NEW r \in Req, Decide(r) PROVE DraftInv'
  <2>1. Complete(r, Judge(rules, call[r], view[r]))
    BY JudgeComplete
  <2> QED
    BY <1>12, <2>1 DEF Decide, Goto, Complete
<1>13. ASSUME NEW r \in Req, UpdateRedisCounters(r) PROVE DraftInv'
  BY <1>13 DEF UpdateRedisCounters, Goto
<1>14. ASSUME NEW r \in Req, DispatchAudit(r) PROVE DraftInv'
  BY <1>14 DEF DispatchAudit, Goto
<1>15. ASSUME NEW r \in Req, Commit(r) PROVE DraftInv'
  BY <1>15 DEF Commit, Goto
<1>16. ASSUME NEW r \in Req, Fail(r) PROVE DraftInv'
  BY <1>16 DEF Fail, Rollback
<1>17. ASSUME NEW k \in Key, CreateKey(k) PROVE DraftInv'
  BY <1>17 DEF CreateKey
<1>18. ASSUME NEW k \in Key, RevokeRead(k) PROVE DraftInv'
  BY <1>18 DEF RevokeRead
<1>19. ASSUME NEW k \in Key, RevokeUpdate(k) PROVE DraftInv'
  BY <1>19 DEF RevokeUpdate
<1>20. ASSUME NEW k \in Key, RevokeCommit(k) PROVE DraftInv'
  BY <1>20 DEF RevokeCommit
<1>21. ASSUME NEW k \in Key, RevokeFail(k) PROVE DraftInv'
  BY <1>21 DEF RevokeFail
<1>22. ASSUME NEW o \in Org, DeactivateOrg(o) PROVE DraftInv'
  BY <1>22 DEF DeactivateOrg
<1>23. ASSUME NEW id \in RuleId, ChangeRule(id) PROVE DraftInv'
  BY <1>23 DEF ChangeRule
<1>24. ASSUME NEW d \in Device, BlacklistDevice(d) PROVE DraftInv'
  BY <1>24 DEF BlacklistDevice
<1>25. ASSUME NEW c \in Counter, Expire(c) PROVE DraftInv'
  BY <1>25 DEF Expire
<1> QED
  BY <1>1, <1>2, <1>3, <1>4, <1>5, <1>6, <1>7, <1>8, <1>9, <1>10, <1>11, <1>12,
     <1>13, <1>14, <1>15, <1>16, <1>17, <1>18, <1>19, <1>20, <1>21, <1>22, <1>23,
     <1>24, <1>25
  DEF Next, Step

\* The ledger: only Commit writes it, at the end of a complete submission.
LEMMA LedgerStep ==
  TypeOK /\ DraftInv /\ LedgerInv /\ [Next]_vars => LedgerInv'
<1> SUFFICES ASSUME TypeOK, DraftInv, LedgerInv, [Next]_vars
             PROVE  LedgerInv'
  OBVIOUS
<1> USE DEF TypeOK, LedgerInv, Committed, dbVars, redisVars, PC
<1>1. CASE UNCHANGED vars
  BY <1>1 DEF vars
<1>2. ASSUME NEW r \in Req, Receive(r) PROVE LedgerInv'
  BY <1>2 DEF Receive, Goto
<1>3. ASSUME NEW r \in Req, RejectKey(r) PROVE LedgerInv'
  BY <1>3 DEF RejectKey, Rollback
<1>4. ASSUME NEW r \in Req, LookupKey(r) PROVE LedgerInv'
  BY <1>4 DEF LookupKey, Goto
<1>5. ASSUME NEW r \in Req, TouchKey(r) PROVE LedgerInv'
  BY <1>5 DEF TouchKey, Goto
<1>6. ASSUME NEW r \in Req, RejectOrg(r) PROVE LedgerInv'
  BY <1>6 DEF RejectOrg, Rollback
<1>7. ASSUME NEW r \in Req, Query(r) PROVE LedgerInv'
  BY <1>7 DEF Query, Goto
<1>8. ASSUME NEW r \in Req, InsertRequest(r) PROVE LedgerInv'
  BY <1>8 DEF InsertRequest, Goto
<1>9. ASSUME NEW r \in Req, CheckPhoneSeen(r) PROVE LedgerInv'
  BY <1>9 DEF CheckPhoneSeen, Goto
<1>10. ASSUME NEW r \in Req, CheckDeviceBlacklisted(r) PROVE LedgerInv'
  BY <1>10 DEF CheckDeviceBlacklisted, Goto
<1>11. ASSUME NEW r \in Req, GetIpVelocity(r) PROVE LedgerInv'
  BY <1>11 DEF GetIpVelocity, Goto
<1>12. ASSUME NEW r \in Req, Decide(r) PROVE LedgerInv'
  BY <1>12 DEF Decide, Goto
<1>13. ASSUME NEW r \in Req, UpdateRedisCounters(r) PROVE LedgerInv'
  BY <1>13 DEF UpdateRedisCounters, Goto
<1>14. ASSUME NEW r \in Req, DispatchAudit(r) PROVE LedgerInv'
  BY <1>14 DEF DispatchAudit, Goto
<1>15. ASSUME NEW r \in Req, Commit(r) PROVE LedgerInv'
  <2>1. call[r].op \in {"submit", "read"}
    BY CallTypes DEF CallType
  <2>2. call[r].op = "submit" => Complete(r, draft[r]) /\ draft[r] # NoRow
    BY <1>15 DEF Commit, Goto, DraftInv, Complete, NoRow, BlankRow
  <2>3. call[r].op = "read" => draft[r] = NoRow
    BY <1>15 DEF Commit, Goto, DraftInv
  <2> QED
    BY <1>15, <2>1, <2>2, <2>3 DEF Commit, Goto, Complete
<1>16. ASSUME NEW r \in Req, Fail(r) PROVE LedgerInv'
  BY <1>16 DEF Fail, Rollback
<1>17. ASSUME NEW k \in Key, CreateKey(k) PROVE LedgerInv'
  BY <1>17 DEF CreateKey
<1>18. ASSUME NEW k \in Key, RevokeRead(k) PROVE LedgerInv'
  BY <1>18 DEF RevokeRead
<1>19. ASSUME NEW k \in Key, RevokeUpdate(k) PROVE LedgerInv'
  BY <1>19 DEF RevokeUpdate
<1>20. ASSUME NEW k \in Key, RevokeCommit(k) PROVE LedgerInv'
  BY <1>20 DEF RevokeCommit
<1>21. ASSUME NEW k \in Key, RevokeFail(k) PROVE LedgerInv'
  BY <1>21 DEF RevokeFail
<1>22. ASSUME NEW o \in Org, DeactivateOrg(o) PROVE LedgerInv'
  BY <1>22 DEF DeactivateOrg
<1>23. ASSUME NEW id \in RuleId, ChangeRule(id) PROVE LedgerInv'
  BY <1>23 DEF ChangeRule
<1>24. ASSUME NEW d \in Device, BlacklistDevice(d) PROVE LedgerInv'
  BY <1>24 DEF BlacklistDevice
<1>25. ASSUME NEW c \in Counter, Expire(c) PROVE LedgerInv'
  BY <1>25 DEF Expire
<1> QED
  BY <1>1, <1>2, <1>3, <1>4, <1>5, <1>6, <1>7, <1>8, <1>9, <1>10, <1>11, <1>12,
     <1>13, <1>14, <1>15, <1>16, <1>17, <1>18, <1>19, <1>20, <1>21, <1>22, <1>23,
     <1>24, <1>25
  DEF Next, Step

\* Counters: the MULTI/EXEC comes before the audit message and before COMMIT,
\* and an expiry remembers what it drops.
LEMMA CountStep ==
  TypeOK /\ DraftInv /\ LedgerInv /\ CountInv /\ [Next]_vars => CountInv'
<1> SUFFICES ASSUME TypeOK, DraftInv, LedgerInv, CountInv, [Next]_vars
             PROVE  CountInv'
  OBVIOUS
<1> USE CallTypes DEF TypeOK, CountInv, Counted, Committed, dbVars, redisVars, PC
<1>1. CASE UNCHANGED vars
  BY <1>1 DEF vars
<1>2. ASSUME NEW r \in Req, Receive(r) PROVE CountInv'
  BY <1>2 DEF Receive, Goto
<1>3. ASSUME NEW r \in Req, RejectKey(r) PROVE CountInv'
  BY <1>3 DEF RejectKey, Rollback
<1>4. ASSUME NEW r \in Req, LookupKey(r) PROVE CountInv'
  BY <1>4 DEF LookupKey, Goto
<1>5. ASSUME NEW r \in Req, TouchKey(r) PROVE CountInv'
  BY <1>5 DEF TouchKey, Goto
<1>6. ASSUME NEW r \in Req, RejectOrg(r) PROVE CountInv'
  BY <1>6 DEF RejectOrg, Rollback
<1>7. ASSUME NEW r \in Req, Query(r) PROVE CountInv'
  BY <1>7 DEF Query, Goto, DraftInv
<1>8. ASSUME NEW r \in Req, InsertRequest(r) PROVE CountInv'
  BY <1>8 DEF InsertRequest, Goto
<1>9. ASSUME NEW r \in Req, CheckPhoneSeen(r) PROVE CountInv'
  BY <1>9 DEF CheckPhoneSeen, Goto
<1>10. ASSUME NEW r \in Req, CheckDeviceBlacklisted(r) PROVE CountInv'
  BY <1>10 DEF CheckDeviceBlacklisted, Goto
<1>11. ASSUME NEW r \in Req, GetIpVelocity(r) PROVE CountInv'
  BY <1>11 DEF GetIpVelocity, Goto
<1>12. ASSUME NEW r \in Req, Decide(r) PROVE CountInv'
  BY <1>12 DEF Decide, Goto
<1>13. ASSUME NEW r \in Req, UpdateRedisCounters(r) PROVE CountInv'
  BY <1>13 DEF UpdateRedisCounters, Goto
<1>14. ASSUME NEW r \in Req, DispatchAudit(r) PROVE CountInv'
  <2>1. call[r].op = "submit"
    BY <1>14 DEF DispatchAudit, Goto, DraftInv, Submitting
  <2>2. \A c \in CountersOf(call[r]) : r \in hits[c] \cup gone[c]
    BY <1>14, <2>1 DEF DispatchAudit, Goto
  <2>3. \A m \in audit' : m \in audit \/ m.id = r
    BY <1>14 DEF DispatchAudit
  <2> QED
    BY <1>14, <2>2, <2>3 DEF DispatchAudit, Goto
<1>15. ASSUME NEW r \in Req, Commit(r) PROVE CountInv'
  <2>1. call[r].op = "submit" \/ draft[r] = NoRow
    BY <1>15 DEF Commit, Goto, DraftInv
  <2> QED
    BY <1>15, <2>1 DEF Commit, Goto
<1>16. ASSUME NEW r \in Req, Fail(r) PROVE CountInv'
  BY <1>16 DEF Fail, Rollback
<1>17. ASSUME NEW k \in Key, CreateKey(k) PROVE CountInv'
  BY <1>17 DEF CreateKey
<1>18. ASSUME NEW k \in Key, RevokeRead(k) PROVE CountInv'
  BY <1>18 DEF RevokeRead
<1>19. ASSUME NEW k \in Key, RevokeUpdate(k) PROVE CountInv'
  BY <1>19 DEF RevokeUpdate
<1>20. ASSUME NEW k \in Key, RevokeCommit(k) PROVE CountInv'
  BY <1>20 DEF RevokeCommit
<1>21. ASSUME NEW k \in Key, RevokeFail(k) PROVE CountInv'
  BY <1>21 DEF RevokeFail
<1>22. ASSUME NEW o \in Org, DeactivateOrg(o) PROVE CountInv'
  BY <1>22 DEF DeactivateOrg
<1>23. ASSUME NEW id \in RuleId, ChangeRule(id) PROVE CountInv'
  BY <1>23 DEF ChangeRule
<1>24. ASSUME NEW d \in Device, BlacklistDevice(d) PROVE CountInv'
  BY <1>24 DEF BlacklistDevice
<1>25. ASSUME NEW c \in Counter, Expire(c) PROVE CountInv'
  BY <1>25 DEF Expire
<1> QED
  BY <1>1, <1>2, <1>3, <1>4, <1>5, <1>6, <1>7, <1>8, <1>9, <1>10, <1>11, <1>12,
     <1>13, <1>14, <1>15, <1>16, <1>17, <1>18, <1>19, <1>20, <1>21, <1>22, <1>23,
     <1>24, <1>25
  DEF Next, Step

\* Phone reuse: while a request is past its phone check no other request of
\* its key is, and those of its key that are recorded were counted before.
LEMMA SeenStep ==
  TypeOK /\ LockInv /\ DraftInv /\ LedgerInv /\ CountInv /\ SeenInv /\ [Next]_vars => SeenInv'
<1> SUFFICES ASSUME TypeOK, LockInv, DraftInv, LedgerInv, CountInv, SeenInv, [Next]_vars
             PROVE  SeenInv'
  OBVIOUS
<1> USE DEF TypeOK, SeenInv, Past, Committed, KeyOf, Checked, dbVars, redisVars, PC
<1>1. CASE UNCHANGED vars
  BY <1>1 DEF vars
<1>2. ASSUME NEW r \in Req, Receive(r) PROVE SeenInv'
  BY <1>2 DEF Receive, Goto
<1>3. ASSUME NEW r \in Req, RejectKey(r) PROVE SeenInv'
  <2>1. ledger[r] = NoRow
    BY <1>3 DEF RejectKey, LedgerInv
  <2>2. ASSUME NEW q \in Req, Past(q)' PROVE Past(q) /\ view'[q] = view[q]
    BY <1>3, <2>1, <2>2 DEF RejectKey, Rollback
  <2> QED
    BY <1>3, <2>2 DEF RejectKey
<1>4. ASSUME NEW r \in Req, LookupKey(r) PROVE SeenInv'
  BY <1>4 DEF LookupKey, Goto
<1>5. ASSUME NEW r \in Req, TouchKey(r) PROVE SeenInv'
  BY <1>5 DEF TouchKey, Goto
<1>6. ASSUME NEW r \in Req, RejectOrg(r) PROVE SeenInv'
  <2>1. ledger[r] = NoRow
    BY <1>6 DEF RejectOrg, LedgerInv
  <2>2. ASSUME NEW q \in Req, Past(q)' PROVE Past(q) /\ view'[q] = view[q]
    BY <1>6, <2>1, <2>2 DEF RejectOrg, Rollback
  <2> QED
    BY <1>6, <2>2 DEF RejectOrg
<1>7. ASSUME NEW r \in Req, Query(r) PROVE SeenInv'
  BY <1>7 DEF Query, Goto, DraftInv
<1>8. ASSUME NEW r \in Req, InsertRequest(r) PROVE SeenInv'
  BY <1>8 DEF InsertRequest, Goto
<1>9. ASSUME NEW r \in Req, CheckPhoneSeen(r) PROVE SeenInv'
  <2>1. pc[r] = "phone" /\ pc' = [pc EXCEPT ![r] = "device"]
    BY <1>9 DEF CheckPhoneSeen, Goto
  <2>2. ASSUME NEW q \in Req, q # r, Past(q)' PROVE Past(q) /\ view'[q] = view[q]
    BY <1>9, <2>1, <2>2 DEF CheckPhoneSeen
  <2>3. ASSUME call[r].phone # None, ~view'[r].phoneSeen
        PROVE  hits[call[r].phone] = {}
    BY <1>9, <2>3 DEF CheckPhoneSeen, View
  <2>4. ASSUME NEW q \in Req, q # r, Past(q)', KeyOf(q) = KeyOf(r),
               call[q].phone = call[r].phone, ~view'[r].phoneSeen
        PROVE  FALSE
    <3>1. pc[q] \notin Checked
      BY <2>1, <2>4 DEF LockInv, Locked
    <3>2. Committed(q)
      BY <2>2, <2>4, <3>1
    <3>3. call[q].phone \in CountersOf(call[q])
      BY <2>2, <2>4 DEF CountersOf
    <3>4. q \in hits[call[q].phone] \cup gone[call[q].phone]
      BY <2>2, <2>4, <3>2, <3>3 DEF CountInv, Counted
    <3> QED
      BY <2>2, <2>3, <2>4, <3>4
  <2>5. call' = call
    BY <1>9 DEF CheckPhoneSeen
  <2> QED
    BY <2>2, <2>4, <2>5
<1>10. ASSUME NEW r \in Req, CheckDeviceBlacklisted(r) PROVE SeenInv'
  BY <1>10 DEF CheckDeviceBlacklisted, Goto
<1>11. ASSUME NEW r \in Req, GetIpVelocity(r) PROVE SeenInv'
  BY <1>11 DEF GetIpVelocity, Goto
<1>12. ASSUME NEW r \in Req, Decide(r) PROVE SeenInv'
  BY <1>12 DEF Decide, Goto
<1>13. ASSUME NEW r \in Req, UpdateRedisCounters(r) PROVE SeenInv'
  BY <1>13 DEF UpdateRedisCounters, Goto
<1>14. ASSUME NEW r \in Req, DispatchAudit(r) PROVE SeenInv'
  BY <1>14 DEF DispatchAudit, Goto
<1>15. ASSUME NEW r \in Req, Commit(r) PROVE SeenInv'
  BY <1>15 DEF Commit, Goto
<1>16. ASSUME NEW r \in Req, Fail(r) PROVE SeenInv'
  <2>1. ledger[r] = NoRow
    BY <1>16 DEF Fail, LedgerInv
  <2>2. ASSUME NEW q \in Req, Past(q)' PROVE Past(q) /\ view'[q] = view[q]
    BY <1>16, <2>1, <2>2 DEF Fail, Rollback
  <2> QED
    BY <1>16, <2>2 DEF Fail
<1>17. ASSUME NEW k \in Key, CreateKey(k) PROVE SeenInv'
  BY <1>17 DEF CreateKey
<1>18. ASSUME NEW k \in Key, RevokeRead(k) PROVE SeenInv'
  BY <1>18 DEF RevokeRead
<1>19. ASSUME NEW k \in Key, RevokeUpdate(k) PROVE SeenInv'
  BY <1>19 DEF RevokeUpdate
<1>20. ASSUME NEW k \in Key, RevokeCommit(k) PROVE SeenInv'
  BY <1>20 DEF RevokeCommit
<1>21. ASSUME NEW k \in Key, RevokeFail(k) PROVE SeenInv'
  BY <1>21 DEF RevokeFail
<1>22. ASSUME NEW o \in Org, DeactivateOrg(o) PROVE SeenInv'
  BY <1>22 DEF DeactivateOrg
<1>23. ASSUME NEW id \in RuleId, ChangeRule(id) PROVE SeenInv'
  BY <1>23 DEF ChangeRule
<1>24. ASSUME NEW d \in Device, BlacklistDevice(d) PROVE SeenInv'
  BY <1>24 DEF BlacklistDevice
<1>25. ASSUME NEW c \in Counter, Expire(c) PROVE SeenInv'
  BY <1>25 DEF Expire
<1> QED
  BY <1>1, <1>2, <1>3, <1>4, <1>5, <1>6, <1>7, <1>8, <1>9, <1>10, <1>11, <1>12,
     <1>13, <1>14, <1>15, <1>16, <1>17, <1>18, <1>19, <1>20, <1>21, <1>22, <1>23,
     <1>24, <1>25
  DEF Next, Step

---------------------------------------------------------------------------
\* Velocity: no step but GetIpVelocity adds to the requests of a key that saw
\* fewer than n.
LEMMA SawFewerShrinks ==
  ASSUME TypeOK, LockInv, DraftInv, LedgerInv, CountInv, [Next]_vars,
         NEW k0 \in Key, NEW i0 \in Ip, NEW n0 \in Nat,
         \A r \in Req : ~GetIpVelocity(r)
  PROVE  SawFewer(k0, i0, n0)' \subseteq SawFewer(k0, i0, n0)
<1> DEFINE Goal == SawFewer(k0, i0, n0)' \subseteq SawFewer(k0, i0, n0)
<1> SUFFICES Goal
  OBVIOUS
<1> USE DEF TypeOK, SawFewer, PastIp, Committed, KeyOf, dbVars, redisVars, PC
<1>1. CASE UNCHANGED vars
  BY <1>1 DEF vars
<1>2. ASSUME NEW r \in Req, Receive(r) PROVE Goal
  BY <1>2 DEF Receive, Goto
<1>3. ASSUME NEW r \in Req, RejectKey(r) PROVE Goal
  <2>1. ledger[r] = NoRow
    BY <1>3 DEF RejectKey, LedgerInv
  <2> QED
    BY <1>3, <2>1 DEF RejectKey, Rollback
<1>4. ASSUME NEW r \in Req, LookupKey(r) PROVE Goal
  BY <1>4 DEF LookupKey, Goto
<1>5. ASSUME NEW r \in Req, TouchKey(r) PROVE Goal
  BY <1>5 DEF TouchKey, Goto
<1>6. ASSUME NEW r \in Req, RejectOrg(r) PROVE Goal
  <2>1. ledger[r] = NoRow
    BY <1>6 DEF RejectOrg, LedgerInv
  <2> QED
    BY <1>6, <2>1 DEF RejectOrg, Rollback
<1>7. ASSUME NEW r \in Req, Query(r) PROVE Goal
  BY <1>7 DEF Query, Goto, DraftInv
<1>8. ASSUME NEW r \in Req, InsertRequest(r) PROVE Goal
  BY <1>8 DEF InsertRequest, Goto
<1>9. ASSUME NEW r \in Req, CheckPhoneSeen(r) PROVE Goal
  BY <1>9 DEF CheckPhoneSeen, Goto
<1>10. ASSUME NEW r \in Req, CheckDeviceBlacklisted(r) PROVE Goal
  BY <1>10 DEF CheckDeviceBlacklisted, Goto
<1>11. ASSUME NEW r \in Req, GetIpVelocity(r) PROVE Goal
  BY <1>11
<1>12. ASSUME NEW r \in Req, Decide(r) PROVE Goal
  BY <1>12 DEF Decide, Goto
<1>13. ASSUME NEW r \in Req, UpdateRedisCounters(r) PROVE Goal
  BY <1>13 DEF UpdateRedisCounters, Goto
<1>14. ASSUME NEW r \in Req, DispatchAudit(r) PROVE Goal
  BY <1>14 DEF DispatchAudit, Goto
<1>15. ASSUME NEW r \in Req, Commit(r) PROVE Goal
  BY <1>15 DEF Commit, Goto
<1>16. ASSUME NEW r \in Req, Fail(r) PROVE Goal
  <2>1. ledger[r] = NoRow
    BY <1>16 DEF Fail, LedgerInv
  <2> QED
    BY <1>16, <2>1 DEF Fail, Rollback
<1>17. ASSUME NEW k \in Key, CreateKey(k) PROVE Goal
  BY <1>17 DEF CreateKey
<1>18. ASSUME NEW k \in Key, RevokeRead(k) PROVE Goal
  BY <1>18 DEF RevokeRead
<1>19. ASSUME NEW k \in Key, RevokeUpdate(k) PROVE Goal
  BY <1>19 DEF RevokeUpdate
<1>20. ASSUME NEW k \in Key, RevokeCommit(k) PROVE Goal
  BY <1>20 DEF RevokeCommit
<1>21. ASSUME NEW k \in Key, RevokeFail(k) PROVE Goal
  BY <1>21 DEF RevokeFail
<1>22. ASSUME NEW o \in Org, DeactivateOrg(o) PROVE Goal
  BY <1>22 DEF DeactivateOrg
<1>23. ASSUME NEW id \in RuleId, ChangeRule(id) PROVE Goal
  BY <1>23 DEF ChangeRule
<1>24. ASSUME NEW d \in Device, BlacklistDevice(d) PROVE Goal
  BY <1>24 DEF BlacklistDevice
<1>25. ASSUME NEW c \in Counter, Expire(c) PROVE Goal
  BY <1>25 DEF Expire
<1> QED
  BY <1>1, <1>2, <1>3, <1>4, <1>5, <1>6, <1>7, <1>8, <1>9, <1>10, <1>11, <1>12,
     <1>13, <1>14, <1>15, <1>16, <1>17, <1>18, <1>19, <1>20, <1>21, <1>22, <1>23,
     <1>24, <1>25
  DEF Next, Step

\* GetIpVelocity adds one, and what it read counts all the others.
LEMMA VelocityRead ==
  ASSUME TypeOK, LockInv, LedgerInv, CountInv, VelocityInv,
         NEW r \in Req, GetIpVelocity(r),
         NEW k \in Key, NEW i \in Ip, NEW n \in Nat
  PROVE  Cardinality(SawFewer(k, i, n)') <= n
<1> USE DEF TypeOK
<1> DEFINE S == SawFewer(k, i, n)
<1>1. IsFiniteSet(S) /\ S \subseteq Req
  BY PipelineAssumption, FS_Subset DEF SawFewer
<1>2. Cardinality(S) \in Nat /\ Cardinality(S) <= n
  BY <1>1, FS_CardinalityType DEF VelocityInv
<1>3. pc[r] = "ip" /\ pc' = [pc EXCEPT ![r] = "decide"]
  BY DEF GetIpVelocity, Goto
<1>4. ASSUME NEW q \in S' PROVE q \in S \cup {r}
  BY <1>3, <1>4 DEF SawFewer, PastIp, GetIpVelocity, Committed, redisVars, KeyOf
<1>5. CASE r \notin S'
  <2>1. S' \subseteq S
    BY <1>4, <1>5
  <2> QED
    BY <1>1, <1>2, <2>1, FS_Subset, FS_CardinalityType
<1>6. CASE r \in S'
  <2>1. KeyOf(r) = k /\ call[r].ip = i /\ i # None /\ view'[r].ipCount < n
    BY <1>6, PipelineAssumption
    DEF SawFewer, PastIp, GetIpVelocity, KeyOf, Counter
  <2>2. view'[r].ipCount = Cardinality(hits[i])
    BY <2>1 DEF GetIpVelocity, View
  <2>3. ASSUME NEW q \in S, q # r PROVE q \in hits[i]
    <3>1. /\ call[q].op = "submit" /\ KeyOf(q) = k /\ call[q].ip = i
          /\ q \in Req /\ q \notin gone[i]
      BY <2>3 DEF SawFewer, PastIp
    <3>2. pc[q] \notin {"decide", "count", "dispatch", "commit"}
      BY <1>3, <2>1, <2>3, <3>1 DEF LockInv, Locked, PC
    <3>3. Committed(q)
      BY <2>3, <3>2 DEF SawFewer, PastIp
    <3>4. i \in CountersOf(call[q])
      BY <2>1, <3>1 DEF CountersOf
    <3> QED
      BY <3>1, <3>3, <3>4 DEF CountInv, Counted
  <2>4. r \notin S
    BY <1>3 DEF SawFewer, PastIp, Committed, LedgerInv
  <2>5. S \subseteq hits[i] /\ hits[i] \in SUBSET Req
    BY <2>3, <2>4 DEF Counter
  <2>6. Cardinality(S) <= Cardinality(hits[i]) /\ Cardinality(hits[i]) \in Nat
    BY <2>5, PipelineAssumption, FS_Subset, FS_CardinalityType
  <2>7. IsFiniteSet(S \cup {r}) /\ Cardinality(S \cup {r}) = Cardinality(S) + 1
    BY <1>1, <2>4, FS_AddElement
  <2>8. Cardinality(S') <= Cardinality(S \cup {r}) /\ Cardinality(S') \in Nat
    BY <1>4, <2>7, FS_Subset, FS_CardinalityType
  <2> QED
    BY <1>2, <2>1, <2>2, <2>6, <2>7, <2>8
<1> QED
  BY <1>5, <1>6

\* Velocity: an INCR adds one to what later requests read.
LEMMA VelocityStep ==
  TypeOK /\ LockInv /\ DraftInv /\ LedgerInv /\ CountInv /\ VelocityInv
    /\ [Next]_vars => VelocityInv'
<1> SUFFICES ASSUME TypeOK, LockInv, DraftInv, LedgerInv, CountInv, VelocityInv,
                    [Next]_vars,
                    NEW k \in Key, NEW i \in Ip, NEW n \in Nat
             PROVE  Cardinality(SawFewer(k, i, n)') <= n
  BY DEF VelocityInv
<1>1. CASE \E r \in Req : GetIpVelocity(r)
  BY <1>1, VelocityRead
<1>2. CASE \A r \in Req : ~GetIpVelocity(r)
  <2>1. SawFewer(k, i, n)' \subseteq SawFewer(k, i, n)
    BY <1>2, SawFewerShrinks
  <2>2. IsFiniteSet(SawFewer(k, i, n))
    BY PipelineAssumption, FS_Subset DEF SawFewer
  <2> QED
    BY <2>1, <2>2, FS_Subset, FS_CardinalityType DEF VelocityInv
<1> QED
  BY <1>1, <1>2

\* Tenancy: the rules that fired for a request are its organization's.
LEMMA OwnerStep ==
  TypeOK /\ OwnerInv /\ [Next]_vars => OwnerInv'
<1> SUFFICES ASSUME TypeOK, OwnerInv, [Next]_vars
             PROVE  OwnerInv'
  OBVIOUS
<1> USE DEF TypeOK, OwnerInv, OrgOf, KeyOf, dbVars, redisVars
<1>1. CASE UNCHANGED vars
  BY <1>1 DEF vars
<1>2. ASSUME NEW r \in Req, Receive(r) PROVE OwnerInv'
  BY <1>2 DEF Receive, Goto
<1>3. ASSUME NEW r \in Req, RejectKey(r) PROVE OwnerInv'
  <2>1. draft'[r].fired = {} /\ \A q \in Req : q # r => draft'[q] = draft[q]
    BY <1>3 DEF RejectKey, Rollback, NoRow, BlankRow
  <2>2. \A q \in Req : ledger'[q] = ledger[q]
    BY <1>3 DEF RejectKey
  <2> QED
    BY <1>3, <2>1, <2>2 DEF RejectKey
<1>4. ASSUME NEW r \in Req, LookupKey(r) PROVE OwnerInv'
  BY <1>4 DEF LookupKey, Goto
<1>5. ASSUME NEW r \in Req, TouchKey(r) PROVE OwnerInv'
  BY <1>5 DEF TouchKey, Goto
<1>6. ASSUME NEW r \in Req, RejectOrg(r) PROVE OwnerInv'
  <2>1. draft'[r].fired = {} /\ \A q \in Req : q # r => draft'[q] = draft[q]
    BY <1>6 DEF RejectOrg, Rollback, NoRow, BlankRow
  <2>2. \A q \in Req : ledger'[q] = ledger[q]
    BY <1>6 DEF RejectOrg
  <2> QED
    BY <1>6, <2>1, <2>2 DEF RejectOrg
<1>7. ASSUME NEW r \in Req, Query(r) PROVE OwnerInv'
  BY <1>7 DEF Query, Goto
<1>8. ASSUME NEW r \in Req, InsertRequest(r) PROVE OwnerInv'
  <2>1. draft'[r].fired = {} /\ \A q \in Req : q # r => draft'[q] = draft[q]
    BY <1>8 DEF InsertRequest, Goto, NoRow, BlankRow
  <2>2. \A q \in Req : ledger'[q] = ledger[q]
    BY <1>8 DEF InsertRequest
  <2> QED
    BY <1>8, <2>1, <2>2 DEF InsertRequest
<1>9. ASSUME NEW r \in Req, CheckPhoneSeen(r) PROVE OwnerInv'
  BY <1>9 DEF CheckPhoneSeen, Goto
<1>10. ASSUME NEW r \in Req, CheckDeviceBlacklisted(r) PROVE OwnerInv'
  BY <1>10 DEF CheckDeviceBlacklisted, Goto
<1>11. ASSUME NEW r \in Req, GetIpVelocity(r) PROVE OwnerInv'
  BY <1>11 DEF GetIpVelocity, Goto
<1>12. ASSUME NEW r \in Req, Decide(r) PROVE OwnerInv'
  <2>1. \A id \in Judge(rules, call[r], view[r]).fired :
          rules[id].owner \in {Global, OrgOf(r)}
    BY DEF Judge, Verdict, Fired, ActiveRules
  <2> QED
    BY <1>12, <2>1 DEF Decide
<1>13. ASSUME NEW r \in Req, UpdateRedisCounters(r) PROVE OwnerInv'
  BY <1>13 DEF UpdateRedisCounters, Goto
<1>14. ASSUME NEW r \in Req, DispatchAudit(r) PROVE OwnerInv'
  BY <1>14 DEF DispatchAudit, Goto
<1>15. ASSUME NEW r \in Req, Commit(r) PROVE OwnerInv'
  <2>1. draft'[r].fired = {} /\ \A q \in Req : q # r => draft'[q] = draft[q]
    BY <1>15 DEF Commit, Goto, NoRow, BlankRow
  <2>2. \A q \in Req : ledger'[q] = ledger[q] \/ (q = r /\ ledger'[q] = draft[q])
    BY <1>15 DEF Commit
  <2> QED
    BY <1>15, <2>1, <2>2 DEF Commit
<1>16. ASSUME NEW r \in Req, Fail(r) PROVE OwnerInv'
  <2>1. draft'[r].fired = {} /\ \A q \in Req : q # r => draft'[q] = draft[q]
    BY <1>16 DEF Fail, Rollback, NoRow, BlankRow
  <2>2. \A q \in Req : ledger'[q] = ledger[q]
    BY <1>16 DEF Fail
  <2> QED
    BY <1>16, <2>1, <2>2 DEF Fail
<1>17. ASSUME NEW k \in Key, CreateKey(k) PROVE OwnerInv'
  BY <1>17 DEF CreateKey
<1>18. ASSUME NEW k \in Key, RevokeRead(k) PROVE OwnerInv'
  BY <1>18 DEF RevokeRead
<1>19. ASSUME NEW k \in Key, RevokeUpdate(k) PROVE OwnerInv'
  BY <1>19 DEF RevokeUpdate
<1>20. ASSUME NEW k \in Key, RevokeCommit(k) PROVE OwnerInv'
  BY <1>20 DEF RevokeCommit
<1>21. ASSUME NEW k \in Key, RevokeFail(k) PROVE OwnerInv'
  BY <1>21 DEF RevokeFail
<1>22. ASSUME NEW o \in Org, DeactivateOrg(o) PROVE OwnerInv'
  BY <1>22 DEF DeactivateOrg
<1>23. ASSUME NEW id \in RuleId, ChangeRule(id) PROVE OwnerInv'
  <2>1. \A i \in RuleId : rules'[i].owner = rules[i].owner
    BY <1>23 DEF ChangeRule
  <2>2. \A r \in Req : draft[r].fired \cup ledger[r].fired \subseteq RuleId
    BY DEF Row
  <2> QED
    BY <1>23, <2>1, <2>2 DEF ChangeRule
<1>24. ASSUME NEW d \in Device, BlacklistDevice(d) PROVE OwnerInv'
  BY <1>24 DEF BlacklistDevice
<1>25. ASSUME NEW c \in Counter, Expire(c) PROVE OwnerInv'
  BY <1>25 DEF Expire
<1> QED
  BY <1>1, <1>2, <1>3, <1>4, <1>5, <1>6, <1>7, <1>8, <1>9, <1>10, <1>11, <1>12,
     <1>13, <1>14, <1>15, <1>16, <1>17, <1>18, <1>19, <1>20, <1>21, <1>22, <1>23,
     <1>24, <1>25
  DEF Next, Step

\* Audit: the message carries the decision of the draft that is committed.
LEMMA AuditStep ==
  TypeOK /\ LedgerInv /\ AuditInv /\ [Next]_vars => AuditInv'
<1> SUFFICES ASSUME TypeOK, LedgerInv, AuditInv, [Next]_vars
             PROVE  AuditInv'
  OBVIOUS
<1> USE DEF TypeOK, AuditInv, LedgerInv, Committed, dbVars, redisVars, PC
<1>1. CASE UNCHANGED vars
  BY <1>1 DEF vars
<1>2. ASSUME NEW r \in Req, Receive(r) PROVE AuditInv'
  BY <1>2 DEF Receive, Goto
<1>3. ASSUME NEW r \in Req, RejectKey(r) PROVE AuditInv'
  BY <1>3 DEF RejectKey, Rollback
<1>4. ASSUME NEW r \in Req, LookupKey(r) PROVE AuditInv'
  BY <1>4 DEF LookupKey, Goto
<1>5. ASSUME NEW r \in Req, TouchKey(r) PROVE AuditInv'
  BY <1>5 DEF TouchKey, Goto
<1>6. ASSUME NEW r \in Req, RejectOrg(r) PROVE AuditInv'
  BY <1>6 DEF RejectOrg, Rollback
<1>7. ASSUME NEW r \in Req, Query(r) PROVE AuditInv'
  BY <1>7 DEF Query, Goto
<1>8. ASSUME NEW r \in Req, InsertRequest(r) PROVE AuditInv'
  BY <1>8 DEF InsertRequest, Goto
<1>9. ASSUME NEW r \in Req, CheckPhoneSeen(r) PROVE AuditInv'
  BY <1>9 DEF CheckPhoneSeen, Goto
<1>10. ASSUME NEW r \in Req, CheckDeviceBlacklisted(r) PROVE AuditInv'
  BY <1>10 DEF CheckDeviceBlacklisted, Goto
<1>11. ASSUME NEW r \in Req, GetIpVelocity(r) PROVE AuditInv'
  BY <1>11 DEF GetIpVelocity, Goto
<1>12. ASSUME NEW r \in Req, Decide(r) PROVE AuditInv'
  BY <1>12 DEF Decide, Goto
<1>13. ASSUME NEW r \in Req, UpdateRedisCounters(r) PROVE AuditInv'
  BY <1>13 DEF UpdateRedisCounters, Goto
<1>14. ASSUME NEW r \in Req, DispatchAudit(r) PROVE AuditInv'
  BY <1>14 DEF DispatchAudit, Goto
<1>15. ASSUME NEW r \in Req, Commit(r) PROVE AuditInv'
  BY <1>15 DEF Commit, Goto
<1>16. ASSUME NEW r \in Req, Fail(r) PROVE AuditInv'
  BY <1>16 DEF Fail, Rollback
<1>17. ASSUME NEW k \in Key, CreateKey(k) PROVE AuditInv'
  BY <1>17 DEF CreateKey
<1>18. ASSUME NEW k \in Key, RevokeRead(k) PROVE AuditInv'
  BY <1>18 DEF RevokeRead
<1>19. ASSUME NEW k \in Key, RevokeUpdate(k) PROVE AuditInv'
  BY <1>19 DEF RevokeUpdate
<1>20. ASSUME NEW k \in Key, RevokeCommit(k) PROVE AuditInv'
  BY <1>20 DEF RevokeCommit
<1>21. ASSUME NEW k \in Key, RevokeFail(k) PROVE AuditInv'
  BY <1>21 DEF RevokeFail
<1>22. ASSUME NEW o \in Org, DeactivateOrg(o) PROVE AuditInv'
  BY <1>22 DEF DeactivateOrg
<1>23. ASSUME NEW id \in RuleId, ChangeRule(id) PROVE AuditInv'
  BY <1>23 DEF ChangeRule
<1>24. ASSUME NEW d \in Device, BlacklistDevice(d) PROVE AuditInv'
  BY <1>24 DEF BlacklistDevice
<1>25. ASSUME NEW c \in Counter, Expire(c) PROVE AuditInv'
  BY <1>25 DEF Expire
<1> QED
  BY <1>1, <1>2, <1>3, <1>4, <1>5, <1>6, <1>7, <1>8, <1>9, <1>10, <1>11, <1>12,
     <1>13, <1>14, <1>15, <1>16, <1>17, <1>18, <1>19, <1>20, <1>21, <1>22, <1>23,
     <1>24, <1>25
  DEF Next, Step

---------------------------------------------------------------------------
\* The invariant holds before any request.
LEMMA InitIInv == Init => IInv
<1> SUFFICES ASSUME Init PROVE IInv
  OBVIOUS
<1> USE DEF Init
<1>1. TypeOK
  BY ConstantTypes DEF TypeOK, PC
<1>2. LockInv
  BY DEF LockInv, Locked, PC
<1>3. DraftInv
  BY DEF DraftInv, Submitting, BeforeInsert
<1>4. LedgerInv
  BY DEF LedgerInv, Committed
<1>5. CountInv /\ AuditInv
  BY DEF CountInv, AuditInv, Committed
<1>6. SeenInv
  BY DEF SeenInv, Past, Checked, Committed
<1>7. VelocityInv
  <2>1. ASSUME NEW k \in Key, NEW i \in Ip, NEW n \in Nat
        PROVE  Cardinality(SawFewer(k, i, n)) <= n
    <3>1. SawFewer(k, i, n) = {}
      BY DEF SawFewer, PastIp, Committed
    <3> QED
      BY <3>1, FS_EmptySet
  <2> QED
    BY <2>1 DEF VelocityInv
<1>8. OwnerInv
  BY DEF OwnerInv, NoRow, BlankRow
<1> QED
  BY <1>1, <1>2, <1>3, <1>4, <1>5, <1>6, <1>7, <1>8 DEF IInv

\* Every step keeps the invariant.
LEMMA StepIInv == IInv /\ [Next]_vars => IInv'
BY TypeStep, LockStep, DraftStep, LedgerStep, CountStep, SeenStep, VelocityStep,
   OwnerStep, AuditStep
DEF IInv

\* Every reachable state satisfies the inductive invariant.
THEOREM Inductive == Spec => []IInv
BY InitIInv, StepIInv, PTL DEF Spec

---------------------------------------------------------------------------
\* Every variable keeps its type, for any set of requests and any payloads.
THEOREM TypeCorrect == Spec => []TypeOK
<1>1. IInv => TypeOK
  BY DEF IInv
<1> QED
  BY <1>1, Inductive, PTL

\* The row lock of update_last_used serialises the verifications of a key.
THEOREM KeyExclusionHolds == Spec => []KeyExclusion
<1>1. IInv => KeyExclusion
  <2> SUFFICES ASSUME IInv PROVE KeyExclusion
    OBVIOUS
  <2>1. \A r \in Req : KeyOf(r) \in Key
    BY CallTypes DEF IInv, TypeOK
  <2> QED
    BY <2>1, PipelineAssumption DEF IInv, LockInv, KeyExclusion
<1> QED
  BY <1>1, Inductive, PTL

\* A reader never sees a verification without its result.
THEOREM NoPendingSeenHolds == Spec => []NoPendingSeen
<1>1. IInv => NoPendingSeen
  BY DEF IInv, LedgerInv, NoPendingSeen, VerificationDetail, Complete
<1> QED
  BY <1>1, Inductive, PTL

\* No rule of another organization ever contributes to a recorded score.
THEOREM OwnRulesOnlyHolds == Spec => []OwnRulesOnly
<1>1. IInv => OwnRulesOnly
  BY DEF IInv, OwnerInv, OwnRulesOnly
<1> QED
  BY <1>1, Inductive, PTL

\* What the client is told about a recording is true, whatever fails.
THEOREM AnswerMatchesLedgerHolds == Spec => []AnswerMatchesLedger
<1>1. IInv => AnswerMatchesLedger
  BY DEF IInv, LedgerInv, AnswerMatchesLedger
<1> QED
  BY <1>1, Inductive, PTL

\* Nothing is recorded or announced before it is counted.
THEOREM RecordedIsCountedHolds == Spec => []RecordedIsCounted
<1>1. IInv => RecordedIsCounted
  BY DEF IInv, LedgerInv, CountInv, Counted, RecordedIsCounted
<1> QED
  BY <1>1, Inductive, PTL

\* Audit messages about recorded verifications carry their decision.
THEOREM AuditAgreesHolds == Spec => []AuditAgrees
<1>1. IInv => AuditAgrees
  BY DEF IInv, AuditInv, AuditAgrees
<1> QED
  BY <1>1, Inductive, PTL

\* Within a key, the phone check misses no reuse it should have counted.
THEOREM ReuseSeenPerKeyHolds == Spec => []ReuseSeenPerKey
<1>1. IInv => ReuseSeenPerKey
  <2> SUFFICES ASSUME IInv, NEW k \in Key, NEW p \in Phone,
                      NEW r \in Remembered(k, p), NEW s \in Remembered(k, p),
                      ~view[r].phoneSeen, ~view[s].phoneSeen
               PROVE  r = s
    BY DEF ReuseSeenPerKey
  <2>1. ASSUME NEW q \in Remembered(k, p)
        PROVE  /\ q \in Req /\ Past(q) /\ KeyOf(q) = k /\ call[q].phone = p
    <3>1. /\ q \in Req /\ Committed(q) /\ KeyOf(q) = k /\ q \notin gone[p]
          /\ p \in CountersOf(call[q])
      BY DEF Remembered
    <3>2. call[q].op = "submit"
      BY <3>1 DEF IInv, LedgerInv
    <3>3. call[q].ip \in Ip \cup {None}
      BY <3>1, CallTypes DEF IInv, TypeOK, CallType
    <3>4. call[q].phone = p /\ p # None
      BY <3>1, <3>3, PipelineAssumption DEF CountersOf, Counter
    <3> QED
      BY <3>1, <3>2, <3>4 DEF Past
  <2> QED
    BY <2>1 DEF IInv, SeenInv
<1> QED
  BY <1>1, Inductive, PTL

\* Within a key, every threshold on the IP counter is kept exactly.
THEOREM VelocityCapHolds == Spec => []VelocityCap
<1>1. IInv => VelocityCap
  <2> SUFFICES ASSUME IInv, NEW k \in Key, NEW i \in Ip,
                      NEW n \in 0 .. Cardinality(Req)
               PROVE  Cardinality({r \in Remembered(k, i) : view[r].ipCount < n}) <= n
    BY DEF VelocityCap
  <2>1. ASSUME NEW q \in Remembered(k, i) PROVE q \in Req /\ PastIp(q, k, i)
    <3>1. /\ q \in Req /\ Committed(q) /\ KeyOf(q) = k /\ q \notin gone[i]
          /\ i \in CountersOf(call[q])
      BY DEF Remembered
    <3>2. call[q].op = "submit"
      BY <3>1 DEF IInv, LedgerInv
    <3>3. call[q].phone \in Phone \cup {None}
      BY <3>1, CallTypes DEF IInv, TypeOK, CallType
    <3>4. call[q].ip = i
      BY <3>1, <3>3, PipelineAssumption DEF CountersOf, Counter
    <3> QED
      BY <3>1, <3>2, <3>4 DEF PastIp
  <2>2. {r \in Remembered(k, i) : view[r].ipCount < n} \subseteq SawFewer(k, i, n)
    BY <2>1 DEF SawFewer
  <2>3. IsFiniteSet(SawFewer(k, i, n)) /\ n \in Nat
    BY PipelineAssumption, FS_Subset DEF SawFewer
  <2>4. Cardinality(SawFewer(k, i, n)) <= n
    BY <2>3 DEF IInv, VelocityInv
  <2> QED
    BY <2>2, <2>3, <2>4, FS_Subset, FS_CardinalityType
<1> QED
  BY <1>1, Inductive, PTL

\* A revocation commits only when no request of its key holds the row lock.
THEOREM RevocationDrainsHolds == Spec => RevocationDrains
<1>1. IInv /\ [Next]_vars =>
        [\A k \in Key : keyState[k] # "revoked" /\ keyState'[k] = "revoked" =>
           \A r \in Req : KeyOf(r) = k => pc[r] \notin Locked]_vars
  <2> SUFFICES ASSUME IInv, Next,
                      NEW k \in Key, keyState[k] # "revoked", keyState'[k] = "revoked",
                      NEW r \in Req, KeyOf(r) = k, pc[r] \in Locked
               PROVE  FALSE
    OBVIOUS
  <2>1. RevokeCommit(k)
    BY DEF Next, Step, Receive, RejectKey, LookupKey, TouchKey, RejectOrg, Query,
       InsertRequest, CheckPhoneSeen, CheckDeviceBlacklisted, GetIpVelocity, Decide,
       UpdateRedisCounters, DispatchAudit, Commit, Fail, CreateKey, RevokeRead,
       RevokeUpdate, RevokeCommit, RevokeFail, DeactivateOrg, ChangeRule,
       BlacklistDevice, Expire, dbVars, IInv, TypeOK
  <2>2. holder[k] = Admin /\ holder[k] = r
    BY <2>1 DEF RevokeCommit, IInv, LockInv
  <2> QED
    BY <2>2, PipelineAssumption
<1> QED
  BY <1>1, Inductive, PTL DEF Spec, RevocationDrains

---------------------------------------------------------------------------
\* What LateRequestsRefused needs at every later state of request r.
Shut(r) ==
  \/ pc[r] \in {"new", "auth"} /\ Closed(r)
  \/ pc[r] = "touch" /\ ~view[r].orgOk
  \/ pc[r] = "done" /\ ~Committed(r)

\* Once closed out, a request can only be refused or fail.
LEMMA ShutStep ==
  ASSUME IInv, [Next]_vars, NEW q \in Req, Shut(q)
  PROVE  Shut(q)'
<1> SUFFICES Shut(q)'
  OBVIOUS
<1> USE DEF IInv, TypeOK, Shut, Closed, Committed, KeyOf, OrgOf, dbVars, redisVars
<1>1. CASE UNCHANGED vars
  BY <1>1 DEF vars
<1>2. ASSUME NEW r \in Req, Receive(r) PROVE Shut(q)'
  BY <1>2 DEF Receive, Goto
<1>3. ASSUME NEW r \in Req, RejectKey(r) PROVE Shut(q)'
  BY <1>3 DEF RejectKey, Rollback, LedgerInv
<1>4. ASSUME NEW r \in Req, LookupKey(r) PROVE Shut(q)'
  BY <1>4 DEF LookupKey, Goto
<1>5. ASSUME NEW r \in Req, TouchKey(r) PROVE Shut(q)'
  BY <1>5 DEF TouchKey, Goto
<1>6. ASSUME NEW r \in Req, RejectOrg(r) PROVE Shut(q)'
  BY <1>6 DEF RejectOrg, Rollback, LedgerInv
<1>7. ASSUME NEW r \in Req, Query(r) PROVE Shut(q)'
  BY <1>7 DEF Query, Goto
<1>8. ASSUME NEW r \in Req, InsertRequest(r) PROVE Shut(q)'
  BY <1>8 DEF InsertRequest, Goto
<1>9. ASSUME NEW r \in Req, CheckPhoneSeen(r) PROVE Shut(q)'
  BY <1>9 DEF CheckPhoneSeen, Goto
<1>10. ASSUME NEW r \in Req, CheckDeviceBlacklisted(r) PROVE Shut(q)'
  BY <1>10 DEF CheckDeviceBlacklisted, Goto
<1>11. ASSUME NEW r \in Req, GetIpVelocity(r) PROVE Shut(q)'
  BY <1>11 DEF GetIpVelocity, Goto
<1>12. ASSUME NEW r \in Req, Decide(r) PROVE Shut(q)'
  BY <1>12 DEF Decide, Goto
<1>13. ASSUME NEW r \in Req, UpdateRedisCounters(r) PROVE Shut(q)'
  BY <1>13 DEF UpdateRedisCounters, Goto
<1>14. ASSUME NEW r \in Req, DispatchAudit(r) PROVE Shut(q)'
  BY <1>14 DEF DispatchAudit, Goto
<1>15. ASSUME NEW r \in Req, Commit(r) PROVE Shut(q)'
  BY <1>15 DEF Commit, Goto
<1>16. ASSUME NEW r \in Req, Fail(r) PROVE Shut(q)'
  BY <1>16 DEF Fail, Rollback, LedgerInv
<1>17. ASSUME NEW k \in Key, CreateKey(k) PROVE Shut(q)'
  BY <1>17 DEF CreateKey
<1>18. ASSUME NEW k \in Key, RevokeRead(k) PROVE Shut(q)'
  BY <1>18 DEF RevokeRead
<1>19. ASSUME NEW k \in Key, RevokeUpdate(k) PROVE Shut(q)'
  BY <1>19 DEF RevokeUpdate
<1>20. ASSUME NEW k \in Key, RevokeCommit(k) PROVE Shut(q)'
  BY <1>20 DEF RevokeCommit
<1>21. ASSUME NEW k \in Key, RevokeFail(k) PROVE Shut(q)'
  BY <1>21 DEF RevokeFail
<1>22. ASSUME NEW o \in Org, DeactivateOrg(o) PROVE Shut(q)'
  BY <1>22 DEF DeactivateOrg
<1>23. ASSUME NEW id \in RuleId, ChangeRule(id) PROVE Shut(q)'
  BY <1>23 DEF ChangeRule
<1>24. ASSUME NEW d \in Device, BlacklistDevice(d) PROVE Shut(q)'
  BY <1>24 DEF BlacklistDevice
<1>25. ASSUME NEW c \in Counter, Expire(c) PROVE Shut(q)'
  BY <1>25 DEF Expire
<1> QED
  BY <1>1, <1>2, <1>3, <1>4, <1>5, <1>6, <1>7, <1>8, <1>9, <1>10, <1>11, <1>12,
     <1>13, <1>14, <1>15, <1>16, <1>17, <1>18, <1>19, <1>20, <1>21, <1>22, <1>23,
     <1>24, <1>25
  DEF Next, Step

\* A request not authenticated before the revocation of its key, or the
\* deactivation of its organization, records nothing for ever after.
THEOREM LateRequestsRefusedHolds == Spec => LateRequestsRefused
<1> SUFFICES ASSUME NEW r \in Req
             PROVE  Spec => [](pc[r] \in {"new", "auth"} /\ Closed(r) => []~Committed(r))
  BY DEF LateRequestsRefused
<1>1. pc[r] \in {"new", "auth"} /\ Closed(r) => Shut(r)
  BY DEF Shut
<1>2. IInv /\ Shut(r) /\ [Next]_vars => Shut(r)'
  BY ShutStep
<1>3. IInv /\ Shut(r) => ~Committed(r)
  BY DEF Shut, IInv, LedgerInv
<1> QED
  BY <1>1, <1>2, <1>3, Inductive, PTL DEF Spec

---------------------------------------------------------------------------
(***************************************************************************)
(* The refinement of VerificationLog.  A request is recorded with what it  *)
(* read several steps before, so the proof carries the truth of a sight    *)
(* from the read to the COMMIT.                                            *)
(***************************************************************************)

\* Counted: from the MULTI/EXEC on, whatever the end.
After == {"dispatch", "commit", "done"}

\* Past the read of the IP counter.
Weighed == {"decide", "count", "dispatch", "commit"}

\* Of those that carry one phone or address, the other requests counted so far.
OthersCounted(r, q) == q # r /\ pc[q] \in After

SamePhone(r) == {q \in Req : OthersCounted(r, q) /\ call[q].phone = call[r].phone}
SameIp(r)    == {q \in Req : OthersCounted(r, q) /\ call[q].ip = call[r].ip}

\* The verifications recorded with r's key that counter c still counts.
RecordedBefore(r, c) ==
  {q \in Req : /\ Committed(q) /\ KeyOf(q) = KeyOf(r)
               /\ c \in {call[q].phone, call[q].ip} /\ q \notin gone[c]}

\* A counter holds requests that carry its value, and that were counted.
HitsInv ==
  \A c \in Counter : \A q \in hits[c] :
    pc[q] \in After /\ c \in CountersOf(call[q])

\* Whatever a request was told, some other request had done.
SightInv ==
  \A r \in Req :
    /\ view[r].phoneSeen => call[r].phone # None /\ SamePhone(r) # {}
    /\ view[r].ipCount <= Cardinality(SameIp(r))

\* Whatever its key had recorded, a request was told of.
EarlierInv ==
  \A r \in Req, c \in Counter : call[r].op = "submit" =>
    /\ pc[r] \in Checked /\ call[r].phone = c /\ RecordedBefore(r, c) # {}
       => view[r].phoneSeen
    /\ pc[r] \in Weighed /\ call[r].ip = c
       => Cardinality(RecordedBefore(r, c)) <= view[r].ipCount

\* The draft of these is the verdict on their view.
Judged(r) ==
  \/ pc[r] \in {"count", "dispatch"}
  \/ pc[r] = "commit" /\ call[r].op = "submit"

JudgeInv ==
  \A r \in Req : Judged(r) => draft[r] \in Judgements(call[r], view[r])

LogInv == HitsInv /\ SightInv /\ EarlierInv /\ JudgeInv

\* What a step may do to request q: end it without a trace, read a counter for
\* it, judge it, or leave what it has read and written alone.
Own(q) ==
  \/ view'[q] = EmptyView /\ pc'[q] = "done"
  \/ CheckPhoneSeen(q) \/ GetIpVelocity(q) \/ Decide(q)
  \/ /\ view'[q].phoneSeen = view[q].phoneSeen /\ view'[q].ipCount = view[q].ipCount
     /\ pc'[q] \in Checked /\ call[q].op = "submit" => pc[q] \in Checked
     /\ pc'[q] \in Weighed /\ call[q].op = "submit" => pc[q] \in Weighed
     /\ Judged(q)' => Judged(q) /\ draft'[q] = draft[q] /\ view'[q] = view[q]

\* And what it may do to what others see of q: counted, q stays so, and only
\* its own steps record it or count it.
Frame(q) ==
  /\ call' = call
  /\ Own(q)
  /\ pc[q] \in After => pc'[q] \in After
  /\ Committed(q)' => Committed(q) \/ Commit(q)
  /\ \A c \in Counter :
       /\ q \in gone[c] => q \in gone'[c]
       /\ q \in hits'[c] =>
            \/ q \in hits[c]
            \/ UpdateRedisCounters(q) /\ c \in CountersOf(call[q])

\* Every step of the pipeline is within this frame.
LEMMA FrameStep ==
  ASSUME TypeOK, DraftInv, [Next]_vars, NEW q \in Req
  PROVE  Frame(q)
<1> USE DEF TypeOK, Frame, Own, Judged, Checked, Weighed, After, Committed,
            dbVars, redisVars
<1>1. CASE UNCHANGED vars
  BY <1>1 DEF vars
<1>2. ASSUME NEW r \in Req, Receive(r) PROVE Frame(q)
  BY <1>2 DEF Receive, Goto
<1>3. ASSUME NEW r \in Req, RejectKey(r) PROVE Frame(q)
  BY <1>3 DEF RejectKey, Rollback
<1>4. ASSUME NEW r \in Req, LookupKey(r) PROVE Frame(q)
  <2> DEFINE active == orgActive[OrgOf(r)]
  <2>1. view' = [view EXCEPT ![r].orgOk = active]
    BY <1>4 DEF LookupKey
  <2> HIDE DEF active
  <2>2. /\ view'[q].phoneSeen = view[q].phoneSeen
        /\ view'[q].ipCount = view[q].ipCount
        /\ q # r => view'[q] = view[q]
    BY <2>1 DEF View
  <2> QED
    BY <1>4, <2>2 DEF LookupKey, Goto
<1>5. ASSUME NEW r \in Req, TouchKey(r) PROVE Frame(q)
  BY <1>5 DEF TouchKey, Goto
<1>6. ASSUME NEW r \in Req, RejectOrg(r) PROVE Frame(q)
  BY <1>6 DEF RejectOrg, Rollback
<1>7. ASSUME NEW r \in Req, Query(r) PROVE Frame(q)
  BY <1>7 DEF Query, Goto, DraftInv
<1>8. ASSUME NEW r \in Req, InsertRequest(r) PROVE Frame(q)
  BY <1>8 DEF InsertRequest, Goto
<1>9. ASSUME NEW r \in Req, CheckPhoneSeen(r) PROVE Frame(q)
  BY <1>9 DEF CheckPhoneSeen, Goto
<1>10. ASSUME NEW r \in Req, CheckDeviceBlacklisted(r) PROVE Frame(q)
  <2> DEFINE listed == call[r].device \in blacklist
  <2>1. view' = [view EXCEPT ![r].listed = listed]
    BY <1>10 DEF CheckDeviceBlacklisted
  <2> HIDE DEF listed
  <2>2. /\ view'[q].phoneSeen = view[q].phoneSeen
        /\ view'[q].ipCount = view[q].ipCount
        /\ q # r => view'[q] = view[q]
    BY <2>1 DEF View
  <2> QED
    BY <1>10, <2>2 DEF CheckDeviceBlacklisted, Goto
<1>11. ASSUME NEW r \in Req, GetIpVelocity(r) PROVE Frame(q)
  BY <1>11 DEF GetIpVelocity, Goto
<1>12. ASSUME NEW r \in Req, Decide(r) PROVE Frame(q)
  BY <1>12 DEF Decide, Goto
<1>13. ASSUME NEW r \in Req, UpdateRedisCounters(r) PROVE Frame(q)
  BY <1>13 DEF UpdateRedisCounters, Goto
<1>14. ASSUME NEW r \in Req, DispatchAudit(r) PROVE Frame(q)
  BY <1>14 DEF DispatchAudit, Goto
<1>15. ASSUME NEW r \in Req, Commit(r) PROVE Frame(q)
  BY <1>15 DEF Commit, Goto
<1>16. ASSUME NEW r \in Req, Fail(r) PROVE Frame(q)
  BY <1>16 DEF Fail, Rollback
<1>17. ASSUME NEW k \in Key, CreateKey(k) PROVE Frame(q)
  BY <1>17 DEF CreateKey
<1>18. ASSUME NEW k \in Key, RevokeRead(k) PROVE Frame(q)
  BY <1>18 DEF RevokeRead
<1>19. ASSUME NEW k \in Key, RevokeUpdate(k) PROVE Frame(q)
  BY <1>19 DEF RevokeUpdate
<1>20. ASSUME NEW k \in Key, RevokeCommit(k) PROVE Frame(q)
  BY <1>20 DEF RevokeCommit
<1>21. ASSUME NEW k \in Key, RevokeFail(k) PROVE Frame(q)
  BY <1>21 DEF RevokeFail
<1>22. ASSUME NEW o \in Org, DeactivateOrg(o) PROVE Frame(q)
  BY <1>22 DEF DeactivateOrg
<1>23. ASSUME NEW id \in RuleId, ChangeRule(id) PROVE Frame(q)
  BY <1>23 DEF ChangeRule
<1>24. ASSUME NEW d \in Device, BlacklistDevice(d) PROVE Frame(q)
  BY <1>24 DEF BlacklistDevice
<1>25. ASSUME NEW c \in Counter, Expire(c) PROVE Frame(q)
  BY <1>25 DEF Expire
<1> QED
  BY <1>1, <1>2, <1>3, <1>4, <1>5, <1>6, <1>7, <1>8, <1>9, <1>10, <1>11, <1>12,
     <1>13, <1>14, <1>15, <1>16, <1>17, <1>18, <1>19, <1>20, <1>21, <1>22, <1>23,
     <1>24, <1>25
  DEF Next, Step

\* Counters: only a MULTI/EXEC adds to one, and the request stays counted.
LEMMA HitsStep ==
  ASSUME TypeOK, DraftInv, HitsInv, [Next]_vars
  PROVE  HitsInv'
<1> SUFFICES ASSUME NEW c \in Counter, NEW q \in hits'[c]
             PROVE  pc'[q] \in After /\ c \in CountersOf(call'[q])
  BY DEF HitsInv
<1>1. q \in Req
  BY TypeStep DEF TypeOK
<1>2. Frame(q)
  BY <1>1, FrameStep
<1>3. CASE q \in hits[c]
  BY <1>2, <1>3 DEF HitsInv, Frame
<1>4. CASE UpdateRedisCounters(q) /\ c \in CountersOf(call[q])
  <2>1. pc'[q] = "dispatch"
    BY <1>1, <1>4 DEF UpdateRedisCounters, Goto, TypeOK
  <2> QED
    BY <1>2, <1>4, <2>1 DEF Frame, After
<1> QED
  BY <1>2, <1>3, <1>4 DEF Frame

\* What the counters of a request hold that has not been counted itself: others
\* with its phone, or with its address.
LEMMA HitsOfOthers ==
  ASSUME TypeOK, HitsInv, NEW r \in Req, pc[r] \notin After
  PROVE  /\ call[r].phone # None =>
              call[r].phone \in Counter /\ hits[call[r].phone] \subseteq SamePhone(r)
         /\ call[r].ip # None =>
              call[r].ip \in Counter /\ hits[call[r].ip] \subseteq SameIp(r)
<1> DEFINE p == call[r].phone
           i == call[r].ip
<1>1. \A q \in Req : call[q].phone \in Phone \cup {None} /\ call[q].ip \in Ip \cup {None}
  BY CallTypes DEF TypeOK, CallType
<1>2. ASSUME p # None PROVE p \in Counter /\ hits[p] \subseteq SamePhone(r)
  <2>1. p \in Phone /\ p \in Counter
    BY <1>1, <1>2 DEF Counter
  <2>2. ASSUME NEW q \in hits[p] PROVE q \in SamePhone(r)
    <3>1. q \in Req /\ pc[q] \in After /\ p \in CountersOf(call[q])
      BY <2>1, <2>2 DEF TypeOK, HitsInv
    <3>2. call[q].phone = p
      BY <1>1, <2>1, <3>1, PipelineAssumption DEF CountersOf
    <3> QED
      BY <3>1, <3>2 DEF SamePhone, OthersCounted
  <2> QED
    BY <2>1, <2>2
<1>3. ASSUME i # None PROVE i \in Counter /\ hits[i] \subseteq SameIp(r)
  <2>1. i \in Ip /\ i \in Counter
    BY <1>1, <1>3 DEF Counter
  <2>2. ASSUME NEW q \in hits[i] PROVE q \in SameIp(r)
    <3>1. q \in Req /\ pc[q] \in After /\ i \in CountersOf(call[q])
      BY <2>1, <2>2 DEF TypeOK, HitsInv
    <3>2. call[q].ip = i
      BY <1>1, <2>1, <3>1, PipelineAssumption DEF CountersOf
    <3> QED
      BY <3>1, <3>2 DEF SameIp, OthersCounted
  <2> QED
    BY <2>1, <2>2
<1> QED
  BY <1>2, <1>3

\* The others that a sight may be due to only grow in number.
LEMMA OthersGrow ==
  ASSUME TypeOK, DraftInv, [Next]_vars, NEW r \in Req
  PROVE  /\ SamePhone(r) \subseteq SamePhone(r)'
         /\ Cardinality(SameIp(r)) <= Cardinality(SameIp(r)')
         /\ Cardinality(SameIp(r)) \in Nat /\ Cardinality(SameIp(r)') \in Nat
<1>1. \A q \in Req : pc[q] \in After => pc'[q] \in After
  BY FrameStep DEF Frame
<1>2. call' = call
  BY FrameStep DEF Frame
<1>3. SamePhone(r) \subseteq SamePhone(r)' /\ SameIp(r) \subseteq SameIp(r)'
  BY <1>1, <1>2 DEF SamePhone, SameIp, OthersCounted
<1>4. IsFiniteSet(SameIp(r)) /\ IsFiniteSet(SameIp(r)')
  BY PipelineAssumption, FS_Subset DEF SameIp
<1> QED
  BY <1>3, <1>4, FS_Subset, FS_CardinalityType

\* What a request is told is due to others: a read tells what the counter holds.
LEMMA SightStep ==
  ASSUME TypeOK, DraftInv, HitsInv, SightInv, [Next]_vars
  PROVE  SightInv'
<1> SUFFICES ASSUME NEW r \in Req
             PROVE  /\ view'[r].phoneSeen => call'[r].phone # None /\ SamePhone(r)' # {}
                    /\ view'[r].ipCount <= Cardinality(SameIp(r)')
  BY DEF SightInv
<1>1. /\ view[r].phoneSeen => call[r].phone # None /\ SamePhone(r) # {}
      /\ view[r].ipCount <= Cardinality(SameIp(r))
      /\ view[r].ipCount \in Nat
  BY DEF SightInv, TypeOK, View
<1>2. /\ SamePhone(r) \subseteq SamePhone(r)'
      /\ Cardinality(SameIp(r)) <= Cardinality(SameIp(r)')
      /\ Cardinality(SameIp(r)) \in Nat /\ Cardinality(SameIp(r)') \in Nat
  BY OthersGrow
<1>3. call' = call /\ Own(r)
  BY FrameStep DEF Frame
<1>4. CASE view'[r] = EmptyView
  BY <1>2, <1>4 DEF EmptyView
<1>5. CASE CheckPhoneSeen(r)
  <2> DEFINE told == call[r].phone # None /\ hits[call[r].phone] # {}
  <2>1. pc[r] \notin After /\ view' = [view EXCEPT ![r].phoneSeen = told]
    BY <1>5 DEF CheckPhoneSeen, Goto, After
  <2>2. told => call[r].phone # None /\ SamePhone(r) # {}
    BY <2>1, HitsOfOthers
  <2> HIDE DEF told
  <2>3. view'[r].phoneSeen = told /\ view'[r].ipCount = view[r].ipCount
    BY <2>1 DEF TypeOK, View
  <2> QED
    BY <1>1, <1>2, <1>3, <2>2, <2>3
<1>6. CASE GetIpVelocity(r)
  <2> DEFINE count == IF call[r].ip = None THEN 0 ELSE Cardinality(hits[call[r].ip])
  <2>1. pc[r] \notin After /\ view' = [view EXCEPT ![r].ipCount = count]
    BY <1>6 DEF GetIpVelocity, Goto, After
  <2>2. count \in Nat /\ count <= Cardinality(SameIp(r))
    <3>1. CASE call[r].ip = None
      BY <1>2, <3>1
    <3>2. CASE call[r].ip # None
      <4>1. hits[call[r].ip] \subseteq SameIp(r)
        BY <2>1, <3>2, HitsOfOthers
      <4>2. IsFiniteSet(SameIp(r))
        BY PipelineAssumption, FS_Subset DEF SameIp
      <4> QED
        BY <3>2, <4>1, <4>2, FS_Subset, FS_CardinalityType
    <3> QED
      BY <3>1, <3>2
  <2> HIDE DEF count
  <2>3. view'[r].ipCount = count /\ view'[r].phoneSeen = view[r].phoneSeen
    BY <2>1 DEF TypeOK, View
  <2> QED
    BY <1>1, <1>2, <1>3, <2>2, <2>3
<1>7. CASE view'[r].phoneSeen = view[r].phoneSeen /\ view'[r].ipCount = view[r].ipCount
  BY <1>1, <1>2, <1>3, <1>7
<1>8. Decide(r) => view' = view
  BY DEF Decide
<1> QED
  BY <1>3, <1>4, <1>5, <1>6, <1>7, <1>8 DEF Own

\* Whatever is recorded and not forgotten is still in its counters.
LEMMA RecordedHits ==
  ASSUME TypeOK, LedgerInv, CountInv, NEW r \in Req, NEW c \in Counter
  PROVE  /\ RecordedBefore(r, c) \subseteq hits[c]
         /\ IsFiniteSet(hits[c]) /\ IsFiniteSet(RecordedBefore(r, c))
<1>1. ASSUME NEW q \in RecordedBefore(r, c) PROVE q \in hits[c]
  <2>1. /\ q \in Req /\ Committed(q) /\ q \notin gone[c]
        /\ c \in {call[q].phone, call[q].ip}
    BY DEF RecordedBefore
  <2>2. c \in CountersOf(call[q])
    BY <2>1, PipelineAssumption DEF CountersOf
  <2>3. Counted(q)
    BY <2>1 DEF LedgerInv, CountInv
  <2> QED
    BY <2>1, <2>2, <2>3 DEF Counted
<1>2. IsFiniteSet(hits[c])
  BY PipelineAssumption, FS_Subset DEF TypeOK
<1> QED
  BY <1>1, <1>2, FS_Subset

\* While a request holds the row lock of its key, nothing is recorded with it.
LEMMA NothingRecordedMeanwhile ==
  ASSUME TypeOK, LockInv, DraftInv, [Next]_vars, NEW r \in Req, NEW c \in Counter,
         pc[r] \in Locked, pc'[r] # "done"
  PROVE  RecordedBefore(r, c)' \subseteq RecordedBefore(r, c)
<1> SUFFICES ASSUME NEW q \in RecordedBefore(r, c)' PROVE q \in RecordedBefore(r, c)
  OBVIOUS
<1>1. /\ q \in Req /\ Committed(q)' /\ KeyOf(q)' = KeyOf(r)'
      /\ c \in {call'[q].phone, call'[q].ip} /\ q \notin gone'[c]
  BY DEF RecordedBefore
<1>2. Frame(q)
  BY <1>1, FrameStep
<1>3. call' = call /\ KeyOf(q) = KeyOf(r)
  BY <1>1, <1>2 DEF Frame, KeyOf
<1>4. ~Commit(q)
  <2> SUFFICES ASSUME Commit(q) PROVE FALSE
    OBVIOUS
  <2>1. pc[q] = "commit" /\ pc' = [pc EXCEPT ![q] = "done"]
    BY DEF Commit, Goto
  <2>2. holder[KeyOf(q)] = q /\ holder[KeyOf(r)] = r
    BY <1>1, <2>1 DEF LockInv, Locked, PC
  <2> QED
    BY <1>1, <1>3, <2>1, <2>2 DEF TypeOK
<1> QED
  BY <1>1, <1>2, <1>3, <1>4 DEF Frame, RecordedBefore

\* What a key has recorded, a request is told of: nothing is recorded with the
\* key between the read and the COMMIT.
LEMMA EarlierStep ==
  ASSUME TypeOK, LockInv, DraftInv, LedgerInv, CountInv, HitsInv, EarlierInv,
         [Next]_vars
  PROVE  EarlierInv'
<1> SUFFICES ASSUME NEW r \in Req, NEW c \in Counter, call'[r].op = "submit"
             PROVE  /\ pc'[r] \in Checked /\ call'[r].phone = c
                       /\ RecordedBefore(r, c)' # {} => view'[r].phoneSeen
                    /\ pc'[r] \in Weighed /\ call'[r].ip = c
                       => Cardinality(RecordedBefore(r, c)') <= view'[r].ipCount
  BY DEF EarlierInv
<1> DEFINE Before == RecordedBefore(r, c)
           Later  == RecordedBefore(r, c)'
<1>1. call' = call /\ Own(r) /\ call[r].op = "submit"
  BY FrameStep DEF Frame
<1>2. /\ pc[r] \in Checked /\ call[r].phone = c /\ Before # {} => view[r].phoneSeen
      /\ pc[r] \in Weighed /\ call[r].ip = c => Cardinality(Before) <= view[r].ipCount
  BY <1>1 DEF EarlierInv
<1>3. /\ Before \subseteq hits[c] /\ Cardinality(Before) <= Cardinality(hits[c])
      /\ Cardinality(Before) \in Nat /\ Cardinality(hits[c]) \in Nat
  BY RecordedHits, FS_Subset, FS_CardinalityType
<1>4. ASSUME pc[r] \in Locked, pc'[r] # "done"
      PROVE  /\ Later \subseteq Before
             /\ Cardinality(Later) <= Cardinality(Before) /\ Cardinality(Later) \in Nat
  <2>1. Later \subseteq Before
    BY <1>4, NothingRecordedMeanwhile
  <2> QED
    BY <2>1, RecordedHits, FS_Subset, FS_CardinalityType
<1> HIDE DEF Before, Later
<1>5. view[r].ipCount \in Nat /\ c # None
  BY PipelineAssumption DEF TypeOK, View
<1>6. CASE view'[r] = EmptyView /\ pc'[r] = "done"
  BY <1>6 DEF Checked, Weighed
<1>7. CASE CheckPhoneSeen(r)
  <2> DEFINE told == call[r].phone # None /\ hits[call[r].phone] # {}
  <2>1. /\ pc[r] \in Locked /\ pc'[r] = "device"
        /\ view' = [view EXCEPT ![r].phoneSeen = told]
    BY <1>7 DEF CheckPhoneSeen, Goto, Locked, PC, TypeOK
  <2>2. call[r].phone = c /\ Later # {} => told
    BY <1>3, <1>4, <1>5, <2>1
  <2> HIDE DEF told
  <2>3. view'[r].phoneSeen = told
    BY <2>1 DEF TypeOK, View
  <2> QED
    BY <1>1, <2>1, <2>2, <2>3 DEF Weighed, Later
<1>8. CASE GetIpVelocity(r)
  <2> DEFINE count == IF call[r].ip = None THEN 0 ELSE Cardinality(hits[call[r].ip])
  <2>1. /\ pc[r] \in Checked /\ pc[r] \in Locked /\ pc'[r] = "decide"
        /\ view' = [view EXCEPT ![r].ipCount = count]
    BY <1>8 DEF GetIpVelocity, Goto, Checked, Locked, PC, TypeOK
  <2>2. call[r].ip = c => Cardinality(Later) <= count
    BY <1>3, <1>4, <1>5, <2>1
  <2> HIDE DEF count
  <2>3. view'[r].ipCount = count /\ view'[r].phoneSeen = view[r].phoneSeen
    BY <2>1 DEF TypeOK, View
  <2> QED
    BY <1>1, <1>2, <1>4, <2>1, <2>2, <2>3 DEF Later
<1>9. CASE /\ view'[r].phoneSeen = view[r].phoneSeen /\ view'[r].ipCount = view[r].ipCount
           /\ pc'[r] \in Checked => pc[r] \in Checked
           /\ pc'[r] \in Weighed => pc[r] \in Weighed
  <2>1. pc'[r] \in Checked \cup Weighed => pc[r] \in Locked /\ pc'[r] # "done"
    BY <1>9 DEF Checked, Weighed, Locked, PC
  <2> QED
    BY <1>1, <1>2, <1>3, <1>4, <1>5, <1>9, <2>1 DEF Later
<1>10. CASE Decide(r)
  <2>1. view' = view /\ pc[r] \in Checked /\ pc[r] \in Weighed
    BY <1>10 DEF Decide, Goto, Checked, Weighed
  <2> QED
    BY <1>9, <2>1
<1> QED
  BY <1>1, <1>6, <1>7, <1>8, <1>9, <1>10 DEF Own

\* Between Decide and the COMMIT a request neither reads nor writes.
LEMMA JudgeStep ==
  ASSUME TypeOK, DraftInv, JudgeInv, [Next]_vars
  PROVE  JudgeInv'
<1> SUFFICES ASSUME NEW r \in Req, Judged(r)'
             PROVE  draft'[r] \in Judgements(call[r], view'[r])
  BY FrameStep DEF JudgeInv, Frame
<1>1. Own(r) /\ call' = call
  BY FrameStep DEF Frame
<1>2. CASE pc'[r] = "done" \/ CheckPhoneSeen(r) \/ GetIpVelocity(r)
  BY <1>2 DEF Judged, CheckPhoneSeen, GetIpVelocity, Goto, TypeOK
<1>3. CASE Decide(r)
  BY <1>3 DEF Decide, TypeOK, Judgements
<1>4. CASE Judged(r) /\ draft'[r] = draft[r] /\ view'[r] = view[r]
  BY <1>4 DEF JudgeInv
<1> QED
  BY <1>1, <1>2, <1>3, <1>4 DEF Own

LEMMA InitLogInv == Init => LogInv
<1> SUFFICES ASSUME Init PROVE LogInv
  OBVIOUS
<1>1. HitsInv /\ JudgeInv
  BY DEF Init, HitsInv, JudgeInv, Judged
<1>2. EarlierInv
  BY DEF Init, EarlierInv, Checked, Weighed
<1>3. \A r \in Req : Cardinality(SameIp(r)) \in Nat
  BY PipelineAssumption, FS_Subset, FS_CardinalityType DEF SameIp
<1>4. SightInv
  BY <1>3 DEF Init, SightInv, EmptyView
<1> QED
  BY <1>1, <1>2, <1>4 DEF LogInv

\* The invariants of the pipeline carry those of its refinement.
LEMMA LogInductive == Spec => [](IInv /\ LogInv)
<1>1. IInv /\ LogInv /\ [Next]_vars => LogInv'
  BY HitsStep, SightStep, EarlierStep, JudgeStep DEF IInv, LogInv
<1> QED
  BY <1>1, InitLogInv, Inductive, PTL DEF Spec

---------------------------------------------------------------------------
(***************************************************************************)
(* The simulation: every step of the pipeline is one of VerificationLog or *)
(* changes none of its variables.                                          *)
(***************************************************************************)

\* Where a request stands is told by its place in the handler.
LEMMA StandingOf ==
  ASSUME TypeOK, NEW q \in Req
  PROVE  /\ pc[q] \in {"new", "auth"} => Standing(q) = "outside"
         /\ pc[q] = "touch" => Standing(q) = IF view[q].orgOk THEN "admitted" ELSE "outside"
         /\ pc[q] \in Locked => Standing(q) = "admitted"
         /\ pc[q] = "done" => Standing(q) = IF Committed(q) THEN "recorded" ELSE "ended"
BY DEF Standing, Locked, PC, TypeOK

\* The same of the next state.
LEMMA StandingNext ==
  ASSUME TypeOK', NEW q \in Req
  PROVE  /\ pc'[q] \in {"new", "auth"} => Standing(q)' = "outside"
         /\ pc'[q] = "touch" => Standing(q)' = IF view'[q].orgOk THEN "admitted" ELSE "outside"
         /\ pc'[q] \in Locked => Standing(q)' = "admitted"
         /\ pc'[q] = "done" => Standing(q)' = IF Committed(q)' THEN "recorded" ELSE "ended"
BY DEF Standing, Locked, PC, TypeOK

\* A step leaves a request standing where it does not touch it.
LEMMA StandingKept ==
  ASSUME NEW q \in Req, pc'[q] = pc[q], view'[q] = view[q], ledger'[q] = ledger[q]
  PROVE  Standing(q)' = Standing(q)
BY DEF Standing, Committed

\* Keys and organizations are all that closes a request out.
LEMMA ClosedKept ==
  ASSUME UNCHANGED <<call, keyState, orgActive>>
  PROVE  {q \in Req : Closed(q)}' = {q \in Req : Closed(q)}
BY DEF Closed, KeyOf, OrgOf

\* What a step may change unseen: anything but these.
LEMMA Silent ==
  ASSUME UNCHANGED <<call, keyState, orgActive, ledger, gone>>,
         \A q \in Req : Standing(q)' = Standing(q),
         \A q \in Req : Committed(q) => view'[q] = view[q]
  PROVE  UNCHANGED Log!vars
<1>1. {q \in Req : Closed(q)}' = {q \in Req : Closed(q)}
  BY ClosedKept
<1>2. [q \in Req |-> Standing(q)]' = [q \in Req |-> Standing(q)]
  OBVIOUS
<1>3. [q \in Req |-> IF Committed(q) THEN view[q] ELSE EmptyView]'
        = [q \in Req |-> IF Committed(q) THEN view[q] ELSE EmptyView]
  BY DEF Committed
<1> QED
  BY <1>1, <1>2, <1>3 DEF Log!vars

\* A request on its way through the handler, under the lock or before it, stays
\* where it stands.
LEMMA SilentMove ==
  ASSUME IInv, TypeOK', NEW r \in Req, NEW to,
         pc' = [pc EXCEPT ![r] = to],
         \/ pc[r] = "new" /\ to = "auth"
         \/ pc[r] \in Locked /\ to \in Locked
         \/ pc[r] = "touch" /\ view[r].orgOk /\ to \in Locked
         \/ pc[r] = "auth" /\ to = "touch" /\ ~view'[r].orgOk,
         \A q \in Req \ {r} : view'[q] = view[q],
         UNCHANGED <<call, keyState, orgActive, ledger, gone>>
  PROVE  UNCHANGED Log!vars
<1>1. Standing(r)' = Standing(r)
  <2>1. pc'[r] = to
    BY DEF IInv, TypeOK
  <2> QED
    BY <2>1, StandingOf, StandingNext DEF IInv
<1>2. \A q \in Req \ {r} : Standing(q)' = Standing(q)
  BY StandingKept DEF IInv, TypeOK
<1>3. ~Committed(r)
  BY DEF IInv, LedgerInv, Locked
<1> QED
  BY <1>1, <1>2, <1>3, Silent

\* A transaction that is rolled back ends its request.
LEMMA RollbackEnds ==
  ASSUME IInv, TypeOK', NEW r \in Req, NEW status,
         pc[r] # "done", Rollback(r, status),
         UNCHANGED <<call, keyState, orgActive, ledger, gone>>
  PROVE  Log!End(r)
<1>1. ~Committed(r) /\ ~Committed(r)'
  BY DEF IInv, LedgerInv, Committed
<1>2. pc'[r] = "done" /\ \A q \in Req \ {r} : pc'[q] = pc[q] /\ view'[q] = view[q]
  BY DEF Rollback, IInv, TypeOK
<1>3. Standing(r)' = "ended"
  BY <1>1, <1>2, StandingNext
<1>4. Standing(r) \in {"outside", "admitted"}
  BY StandingOf DEF IInv, TypeOK, Locked
<1>5. \A q \in Req \ {r} : Standing(q)' = Standing(q)
  BY <1>2, StandingKept
<1>6. [q \in Req |-> Standing(q)]'
        = [[q \in Req |-> Standing(q)] EXCEPT ![r] = "ended"]
  BY <1>3, <1>5
<1>7. [q \in Req |-> IF Committed(q) THEN view[q] ELSE EmptyView]'
        = [q \in Req |-> IF Committed(q) THEN view[q] ELSE EmptyView]
  BY <1>1, <1>2 DEF Committed
<1>8. {q \in Req : Closed(q)}' = {q \in Req : Closed(q)}
  BY ClosedKept
<1> QED
  BY <1>4, <1>6, <1>7, <1>8 DEF Log!End

\* The lookup of an active key of an active organization admits the request.
LEMMA LookupAdmits ==
  ASSUME IInv, TypeOK', NEW r \in Req, LookupKey(r)
  PROVE  Log!Admit(r) \/ UNCHANGED Log!vars
<1>1. /\ pc[r] = "auth" /\ pc' = [pc EXCEPT ![r] = "touch"]
      /\ keyState[KeyOf(r)] = "active"
      /\ UNCHANGED <<call, keyState, orgActive, ledger, gone>>
  BY DEF LookupKey, Goto, dbVars, redisVars
<1>2. \A q \in Req \ {r} : view'[q] = view[q]
  BY DEF LookupKey, IInv, TypeOK
<1>3. view'[r].orgOk = orgActive[OrgOf(r)]
  <2> DEFINE active == orgActive[OrgOf(r)]
  <2>1. view' = [view EXCEPT ![r].orgOk = active]
    BY DEF LookupKey
  <2> HIDE DEF active
  <2>2. view'[r].orgOk = active
    BY <2>1 DEF IInv, TypeOK, View
  <2> QED
    BY <2>2 DEF active
<1>4. CASE ~orgActive[OrgOf(r)]
  BY <1>1, <1>2, <1>3, <1>4, SilentMove
<1>5. CASE orgActive[OrgOf(r)]
  <2>1. Standing(r) = "outside" /\ ~Closed(r)
    BY <1>1, <1>5, StandingOf DEF Closed, IInv
  <2>2. pc'[r] = "touch" /\ view'[r].orgOk /\ \A q \in Req \ {r} : pc'[q] = pc[q]
    BY <1>1, <1>3, <1>5 DEF IInv, TypeOK
  <2>3. Standing(r)' = "admitted"
    BY <2>2, StandingNext
  <2>4. \A q \in Req \ {r} : Standing(q)' = Standing(q)
    BY <1>1, <1>2, <2>2, StandingKept
  <2>5. [q \in Req |-> Standing(q)]'
          = [[q \in Req |-> Standing(q)] EXCEPT ![r] = "admitted"]
    BY <2>3, <2>4
  <2>6. ~Committed(r)
    BY <1>1 DEF IInv, LedgerInv
  <2>7. [q \in Req |-> IF Committed(q) THEN view[q] ELSE EmptyView]'
          = [q \in Req |-> IF Committed(q) THEN view[q] ELSE EmptyView]
    BY <1>1, <1>2, <2>6 DEF Committed
  <2>8. {q \in Req : Closed(q)}' = {q \in Req : Closed(q)}
    BY <1>1, ClosedKept
  <2> QED
    BY <1>1, <2>1, <2>5, <2>7, <2>8 DEF Log!Admit
<1> QED
  BY <1>4, <1>5

\* The sight of a request at its COMMIT is true, and its row judged by it.
LEMMA SightTrue ==
  ASSUME IInv, LogInv, NEW r \in Req, pc[r] = "commit", call[r].op = "submit"
  PROVE  /\ view[r] \in Sight
         /\ Log!TruePhone(r, view[r]) /\ Log!TrueCount(r, view[r])
         /\ draft[r] \in Judgements(call[r], view[r])
<1> DEFINE p == call[r].phone
           i == call[r].ip
           Other == {q \in Req \ {r} : Standing(q) # "outside"}
<1>1. /\ SamePhone(r) \subseteq {q \in Other : call[q].phone = p}
      /\ SameIp(r) \subseteq {q \in Other : call[q].ip = i}
  <2>1. ASSUME NEW q \in Req, pc[q] \in After PROVE Standing(q) # "outside"
    BY <2>1, StandingOf DEF IInv, After, Locked, PC
  <2> QED
    BY <2>1 DEF SamePhone, SameIp, OthersCounted
<1>2. /\ IsFiniteSet(Req) /\ {q \in Other : call[q].ip = i} \subseteq Req
      /\ IsFiniteSet({q \in Other : call[q].ip = i})
  BY PipelineAssumption, FS_Subset
<1>3. /\ Cardinality(SameIp(r)) <= Cardinality({q \in Other : call[q].ip = i})
      /\ Cardinality({q \in Other : call[q].ip = i}) <= Cardinality(Req)
      /\ Cardinality(SameIp(r)) \in Nat /\ Cardinality(Req) \in Nat
      /\ Cardinality({q \in Other : call[q].ip = i}) \in Nat
  BY <1>1, <1>2, FS_Subset, FS_CardinalityType
<1>4. /\ view[r].phoneSeen => p # None /\ SamePhone(r) # {}
      /\ view[r].ipCount <= Cardinality(SameIp(r))
      /\ view[r] \in View /\ view[r].ipCount \in Nat
  BY DEF LogInv, SightInv, IInv, TypeOK, View
<1>5. view[r] \in Sight
  BY <1>3, <1>4 DEF Sight, View
<1>6. ASSUME NEW c \in Counter
      PROVE  {q \in Req : /\ Standing(q) = "recorded" /\ call[q].key = call[r].key
                          /\ c \in {call[q].phone, call[q].ip} /\ q \notin gone[c]}
               = RecordedBefore(r, c)
  <2>1. ASSUME NEW q \in Req PROVE Standing(q) = "recorded" <=> Committed(q)
    <3>1. Committed(q) => pc[q] = "done"
      BY DEF IInv, LedgerInv
    <3>2. pc[q] \in {"new", "auth", "touch", "done"} \/ pc[q] \in Locked
      BY DEF IInv, TypeOK, Locked
    <3> QED
      BY <3>1, <3>2, StandingOf DEF IInv
  <2> QED
    BY <2>1 DEF RecordedBefore, KeyOf
<1>7. (p # None => p \in Counter) /\ (i # None => i \in Counter)
  BY CallTypes DEF IInv, TypeOK, CallType, Counter
<1>8. /\ p # None /\ RecordedBefore(r, p) # {} => view[r].phoneSeen
      /\ i # None => Cardinality(RecordedBefore(r, i)) <= view[r].ipCount
  BY <1>7 DEF LogInv, EarlierInv, Checked, Weighed
<1>9. Log!TruePhone(r, view[r])
  <2>1. p # None => Log!Earlier(r, p) = RecordedBefore(r, p)
    BY <1>6, <1>7 DEF Log!Earlier
  <2>2. Log!Others(r) = Other
    BY DEF Log!Others
  <2> QED
    BY <1>1, <1>4, <1>8, <2>1, <2>2 DEF Log!TruePhone
<1>10. Log!TrueCount(r, view[r])
  <2>1. i # None => Log!Earlier(r, i) = RecordedBefore(r, i)
    BY <1>6, <1>7 DEF Log!Earlier
  <2>2. Log!Others(r) = Other
    BY DEF Log!Others
  <2>3. view[r].ipCount <= Cardinality({q \in Log!Others(r) : call[q].ip = i})
    BY <1>3, <1>4, <2>2
  <2>4. i # None => Cardinality(Log!Earlier(r, i)) <= view[r].ipCount
    BY <1>8, <2>1
  <2>5. \A S : Log!Cardinality(S) = Cardinality(S)
    BY DEF Cardinality, Log!Cardinality
  <2> QED
    BY <2>3, <2>4, <2>5 DEF Log!TrueCount
<1>11. draft[r] \in Judgements(call[r], view[r])
  BY DEF LogInv, JudgeInv, Judged
<1> QED
  BY <1>5, <1>9, <1>10, <1>11

\* The COMMIT records a submission and ends a read.
LEMMA CommitRecords ==
  ASSUME IInv, LogInv, TypeOK', NEW r \in Req, Commit(r)
  PROVE  Log!Record(r) \/ Log!End(r)
<1> DEFINE seen == [q \in Req |-> IF Committed(q) THEN view[q] ELSE EmptyView]
<1>1. /\ pc[r] = "commit" /\ ledger' = [ledger EXCEPT ![r] = draft[r]]
      /\ UNCHANGED <<call, view, keyState, orgActive, gone>>
  BY DEF Commit, Goto, redisVars
<1>2. pc'[r] = "done" /\ \A q \in Req \ {r} : pc'[q] = pc[q] /\ ledger'[q] = ledger[q]
  BY DEF Commit, Goto, IInv, TypeOK
<1>3. ledger'[r] = draft[r] /\ ledger[r] = NoRow
  BY <1>1 DEF IInv, TypeOK, LedgerInv, Committed
<1>4. Standing(r) = "admitted"
  BY <1>1, StandingOf DEF IInv, Locked, PC
<1>5. \A q \in Req \ {r} : Standing(q)' = Standing(q)
  BY <1>1, <1>2, StandingKept
<1>6. {q \in Req : Closed(q)}' = {q \in Req : Closed(q)}
  BY <1>1, ClosedKept
<1>7. CASE call[r].op = "submit"
  <2>1. draft[r].status = "completed"
    BY <1>1, <1>7 DEF IInv, DraftInv, Complete
  <2>2. Committed(r)'
    BY <1>3, <2>1 DEF Committed, NoRow, BlankRow
  <2>3. [q \in Req |-> Standing(q)]'
          = [[q \in Req |-> Standing(q)] EXCEPT ![r] = "recorded"]
    BY <1>2, <1>5, <2>2, StandingNext
  <2>4. seen' = [seen EXCEPT ![r] = view[r]]
    BY <1>1, <1>2, <2>2 DEF Committed
  <2>5. /\ view[r] \in Sight
        /\ Log!TruePhone(r, view[r]) /\ Log!TrueCount(r, view[r])
        /\ draft[r] \in Judgements(call[r], view[r])
    BY <1>1, <1>7, SightTrue
  <2> QED
    BY <1>1, <1>4, <1>6, <1>7, <2>3, <2>4, <2>5 DEF Log!Record
<1>8. CASE call[r].op # "submit"
  <2>1. draft[r] = NoRow
    BY <1>1, <1>8 DEF IInv, DraftInv
  <2>2. ledger' = ledger /\ ~Committed(r)'
    BY <1>1, <1>3, <2>1 DEF Committed, IInv, TypeOK
  <2>3. [q \in Req |-> Standing(q)]'
          = [[q \in Req |-> Standing(q)] EXCEPT ![r] = "ended"]
    BY <1>2, <1>5, <2>2, StandingNext
  <2>4. seen' = seen
    BY <1>1, <2>2 DEF Committed
  <2> QED
    BY <1>1, <1>4, <1>6, <2>2, <2>3, <2>4 DEF Log!End
<1> QED
  BY <1>7, <1>8

\* The other actors change no request: they may close some out, for good, or
\* make a counter forget.
LEMMA AdminCloses ==
  ASSUME IInv, UNCHANGED <<pc, call, view, ledger, gone>>,
         \A k \in Key : keyState[k] = "revoked" => keyState'[k] = "revoked",
         \A o \in Org : ~orgActive[o] => ~orgActive'[o]
  PROVE  Log!Close
<1> DEFINE closed == {q \in Req : Closed(q)}
<1>1. [q \in Req |-> Standing(q)]' = [q \in Req |-> Standing(q)]
  BY StandingKept
<1>2. [q \in Req |-> IF Committed(q) THEN view[q] ELSE EmptyView]'
        = [q \in Req |-> IF Committed(q) THEN view[q] ELSE EmptyView]
  BY DEF Committed
<1>3. \A q \in Req : Closed(q) => Closed(q)'
  <2>1. \A q \in Req : KeyOf(q) \in Key /\ OrgOf(q) \in Org
    BY CallTypes DEF IInv, TypeOK
  <2>2. \A q \in Req : KeyOf(q)' = KeyOf(q) /\ OrgOf(q)' = OrgOf(q)
    BY DEF KeyOf, OrgOf
  <2> QED
    BY <2>1, <2>2 DEF Closed
<1>4. closed' \in SUBSET Req /\ closed' = closed \cup closed'
  BY <1>3
<1> QED
  BY <1>1, <1>2, <1>4 DEF Log!Close

LEMMA ExpireForgets ==
  ASSUME IInv, NEW c \in Counter, Expire(c)
  PROVE  Log!Forget(c)
<1>1. /\ UNCHANGED <<pc, call, view, ledger, keyState, orgActive>>
      /\ gone' = [gone EXCEPT ![c] = @ \cup hits[c]] /\ hits[c] \in SUBSET Req
  BY DEF Expire, dbVars, IInv, TypeOK
<1>2. [q \in Req |-> Standing(q)]' = [q \in Req |-> Standing(q)]
  BY <1>1, StandingKept
<1>3. [q \in Req |-> IF Committed(q) THEN view[q] ELSE EmptyView]'
        = [q \in Req |-> IF Committed(q) THEN view[q] ELSE EmptyView]
  BY <1>1 DEF Committed
<1>4. {q \in Req : Closed(q)}' = {q \in Req : Closed(q)}
  BY <1>1, ClosedKept
<1> QED
  BY <1>1, <1>2, <1>3, <1>4 DEF Log!Forget

\* Every step of the pipeline is a step of the abstract log, or none of it.
LEMMA LogStep ==
  ASSUME IInv, LogInv, [Next]_vars
  PROVE  [Log!Next]_Log!vars
<1>1. TypeOK'
  BY StepIInv DEF IInv
<1> USE DEF dbVars, redisVars
<1>2. CASE UNCHANGED vars
  <2>1. \A q \in Req : Standing(q)' = Standing(q)
    BY <1>2, StandingKept DEF vars
  <2> QED
    BY <1>2, <2>1, Silent DEF vars
<1>3. ASSUME NEW r \in Req, Receive(r) PROVE [Log!Next]_Log!vars
  BY <1>1, <1>3, SilentMove DEF Receive, Goto, Locked, PC
<1>4. ASSUME NEW r \in Req, RejectKey(r) PROVE [Log!Next]_Log!vars
  BY <1>1, <1>4, RollbackEnds DEF RejectKey, Log!Next
<1>5. ASSUME NEW r \in Req, LookupKey(r) PROVE [Log!Next]_Log!vars
  BY <1>1, <1>5, LookupAdmits DEF Log!Next
<1>6. ASSUME NEW r \in Req, TouchKey(r) PROVE [Log!Next]_Log!vars
  <2> DEFINE to == IF call[r].op = "submit" THEN "insert" ELSE "query"
  <2>1. to \in Locked
    BY DEF Locked, PC
  <2> QED
    BY <1>1, <1>6, <2>1, SilentMove DEF TouchKey, Goto
<1>7. ASSUME NEW r \in Req, RejectOrg(r) PROVE [Log!Next]_Log!vars
  BY <1>1, <1>7, RollbackEnds DEF RejectOrg, Log!Next
<1>8. ASSUME NEW r \in Req, Query(r) PROVE [Log!Next]_Log!vars
  BY <1>1, <1>8, SilentMove DEF Query, Goto, Locked, PC
<1>9. ASSUME NEW r \in Req, InsertRequest(r) PROVE [Log!Next]_Log!vars
  BY <1>1, <1>9, SilentMove DEF InsertRequest, Goto, Locked, PC
<1>10. ASSUME NEW r \in Req, CheckPhoneSeen(r) PROVE [Log!Next]_Log!vars
  <2>1. \A q \in Req \ {r} : view'[q] = view[q]
    BY <1>10 DEF CheckPhoneSeen, IInv, TypeOK
  <2> QED
    BY <1>1, <1>10, <2>1, SilentMove DEF CheckPhoneSeen, Goto, Locked, PC
<1>11. ASSUME NEW r \in Req, CheckDeviceBlacklisted(r) PROVE [Log!Next]_Log!vars
  <2>1. \A q \in Req \ {r} : view'[q] = view[q]
    BY <1>11 DEF CheckDeviceBlacklisted, IInv, TypeOK
  <2> QED
    BY <1>1, <1>11, <2>1, SilentMove DEF CheckDeviceBlacklisted, Goto, Locked, PC
<1>12. ASSUME NEW r \in Req, GetIpVelocity(r) PROVE [Log!Next]_Log!vars
  <2>1. \A q \in Req \ {r} : view'[q] = view[q]
    BY <1>12 DEF GetIpVelocity, IInv, TypeOK
  <2> QED
    BY <1>1, <1>12, <2>1, SilentMove DEF GetIpVelocity, Goto, Locked, PC
<1>13. ASSUME NEW r \in Req, Decide(r) PROVE [Log!Next]_Log!vars
  BY <1>1, <1>13, SilentMove DEF Decide, Goto, Locked, PC
<1>14. ASSUME NEW r \in Req, UpdateRedisCounters(r) PROVE [Log!Next]_Log!vars
  BY <1>1, <1>14, SilentMove DEF UpdateRedisCounters, Goto, Locked, PC
<1>15. ASSUME NEW r \in Req, DispatchAudit(r) PROVE [Log!Next]_Log!vars
  BY <1>1, <1>15, SilentMove DEF DispatchAudit, Goto, Locked, PC
<1>16. ASSUME NEW r \in Req, Commit(r) PROVE [Log!Next]_Log!vars
  BY <1>1, <1>16, CommitRecords DEF Log!Next
<1>17. ASSUME NEW r \in Req, Fail(r) PROVE [Log!Next]_Log!vars
  BY <1>1, <1>17, RollbackEnds DEF Fail, Log!Next
<1>18. ASSUME NEW k \in Key, CreateKey(k) PROVE [Log!Next]_Log!vars
  BY <1>18, AdminCloses DEF CreateKey, Log!Next, IInv, TypeOK
<1>19. ASSUME NEW k \in Key, RevokeRead(k) PROVE [Log!Next]_Log!vars
  BY <1>19, AdminCloses DEF RevokeRead, Log!Next
<1>20. ASSUME NEW k \in Key, RevokeUpdate(k) PROVE [Log!Next]_Log!vars
  BY <1>20, AdminCloses DEF RevokeUpdate, Log!Next
<1>21. ASSUME NEW k \in Key, RevokeCommit(k) PROVE [Log!Next]_Log!vars
  BY <1>21, AdminCloses DEF RevokeCommit, Log!Next, IInv, TypeOK
<1>22. ASSUME NEW k \in Key, RevokeFail(k) PROVE [Log!Next]_Log!vars
  BY <1>22, AdminCloses DEF RevokeFail, Log!Next
<1>23. ASSUME NEW o \in Org, DeactivateOrg(o) PROVE [Log!Next]_Log!vars
  BY <1>23, AdminCloses DEF DeactivateOrg, Log!Next, IInv, TypeOK
<1>24. ASSUME NEW id \in RuleId, ChangeRule(id) PROVE [Log!Next]_Log!vars
  BY <1>24, AdminCloses DEF ChangeRule, Log!Next
<1>25. ASSUME NEW d \in Device, BlacklistDevice(d) PROVE [Log!Next]_Log!vars
  BY <1>25, AdminCloses DEF BlacklistDevice, Log!Next
<1>26. ASSUME NEW c \in Counter, Expire(c) PROVE [Log!Next]_Log!vars
  BY <1>26, ExpireForgets DEF Log!Next
<1> QED
  BY <1>2, <1>3, <1>4, <1>5, <1>6, <1>7, <1>8, <1>9, <1>10, <1>11, <1>12, <1>13,
     <1>14, <1>15, <1>16, <1>17, <1>18, <1>19, <1>20, <1>21, <1>22, <1>23, <1>24, <1>25, <1>26
  DEF Next, Step

\* Before anything happens nobody is admitted, closed out or recorded.
LEMMA InitLog == Init => Log!Init
<1> SUFFICES ASSUME Init PROVE Log!Init
  OBVIOUS
<1>1. TypeOK
  BY InitIInv DEF IInv
<1>2. [q \in Req |-> Standing(q)] = [q \in Req |-> "outside"]
  BY <1>1, StandingOf DEF Init
<1>3. {q \in Req : Closed(q)} = {}
  <2>1. \A q \in Req : KeyOf(q) \in Key /\ OrgOf(q) \in Org
    BY <1>1, CallTypes DEF TypeOK
  <2> QED
    BY <2>1 DEF Init, Closed
<1>4. [q \in Req |-> IF Committed(q) THEN view[q] ELSE EmptyView]
        = [q \in Req |-> EmptyView]
  BY DEF Init, Committed
<1> QED
  BY <1>2, <1>3, <1>4 DEF Init, Log!Init

\* The pipeline keeps the promise of VerificationLog: however requests
\* interleave, fail and are retried, those recorded are so in one instant,
\* with a sight that misses nothing their key had recorded, and none is
\* admitted once its key or organization is closed.
THEOREM Implements == Spec => LogSpec
<1>1. IInv /\ LogInv /\ [Next]_vars => [Log!Next]_Log!vars
  BY LogStep
<1> QED
  BY <1>1, InitLog, LogInductive, PTL DEF Spec, LogSpec, Log!Spec

---------------------------------------------------------------------------
(***************************************************************************)
(* Freedom from deadlock.                                                  *)
(***************************************************************************)

\* The converse of LockInv: a row lock is held by nobody but a request past its
\* UPDATE, or a revocation past its own.
HolderInv ==
  \A k \in Key :
    /\ holder[k] \in Req => pc[holder[k]] \in Locked /\ KeyOf(holder[k]) = k
    /\ holder[k] = Admin => revoking[k] = "locked"

\* Every step keeps it: whoever leaves the lock's scope frees the row.
LEMMA HolderStep ==
  TypeOK /\ LockInv /\ HolderInv /\ [Next]_vars => HolderInv'
<1> SUFFICES ASSUME TypeOK, LockInv, HolderInv, [Next]_vars
             PROVE  HolderInv'
  OBVIOUS
<1> USE PipelineAssumption, CallTypes
    DEF TypeOK, HolderInv, Locked, PC, KeyOf, dbVars, redisVars
<1>1. CASE UNCHANGED vars
  BY <1>1 DEF vars
<1>2. ASSUME NEW r \in Req, Receive(r) PROVE HolderInv'
  BY <1>2 DEF Receive, Goto
<1>3. ASSUME NEW r \in Req, RejectKey(r) PROVE HolderInv'
  BY <1>3 DEF RejectKey, Rollback
<1>4. ASSUME NEW r \in Req, LookupKey(r) PROVE HolderInv'
  BY <1>4 DEF LookupKey, Goto
<1>5. ASSUME NEW r \in Req, TouchKey(r) PROVE HolderInv'
  BY <1>5 DEF TouchKey, Goto
<1>6. ASSUME NEW r \in Req, RejectOrg(r) PROVE HolderInv'
  BY <1>6 DEF RejectOrg, Rollback
<1>7. ASSUME NEW r \in Req, Query(r) PROVE HolderInv'
  BY <1>7 DEF Query, Goto, DraftInv
<1>8. ASSUME NEW r \in Req, InsertRequest(r) PROVE HolderInv'
  BY <1>8 DEF InsertRequest, Goto
<1>9. ASSUME NEW r \in Req, CheckPhoneSeen(r) PROVE HolderInv'
  BY <1>9 DEF CheckPhoneSeen, Goto
<1>10. ASSUME NEW r \in Req, CheckDeviceBlacklisted(r) PROVE HolderInv'
  BY <1>10 DEF CheckDeviceBlacklisted, Goto
<1>11. ASSUME NEW r \in Req, GetIpVelocity(r) PROVE HolderInv'
  BY <1>11 DEF GetIpVelocity, Goto
<1>12. ASSUME NEW r \in Req, Decide(r) PROVE HolderInv'
  BY <1>12 DEF Decide, Goto
<1>13. ASSUME NEW r \in Req, UpdateRedisCounters(r) PROVE HolderInv'
  BY <1>13 DEF UpdateRedisCounters, Goto
<1>14. ASSUME NEW r \in Req, DispatchAudit(r) PROVE HolderInv'
  BY <1>14 DEF DispatchAudit, Goto
<1>15. ASSUME NEW r \in Req, Commit(r) PROVE HolderInv'
  BY <1>15 DEF Commit, Goto
<1>16. ASSUME NEW r \in Req, Fail(r) PROVE HolderInv'
  BY <1>16 DEF Fail, Rollback
<1>17. ASSUME NEW k \in Key, CreateKey(k) PROVE HolderInv'
  BY <1>17 DEF CreateKey
<1>18. ASSUME NEW k \in Key, RevokeRead(k) PROVE HolderInv'
  BY <1>18 DEF RevokeRead
<1>19. ASSUME NEW k \in Key, RevokeUpdate(k) PROVE HolderInv'
  BY <1>19 DEF RevokeUpdate, LockInv
<1>20. ASSUME NEW k \in Key, RevokeCommit(k) PROVE HolderInv'
  BY <1>20 DEF RevokeCommit, LockInv
<1>21. ASSUME NEW k \in Key, RevokeFail(k) PROVE HolderInv'
  BY <1>21 DEF RevokeFail, LockInv
<1>22. ASSUME NEW o \in Org, DeactivateOrg(o) PROVE HolderInv'
  BY <1>22 DEF DeactivateOrg
<1>23. ASSUME NEW id \in RuleId, ChangeRule(id) PROVE HolderInv'
  BY <1>23 DEF ChangeRule
<1>24. ASSUME NEW d \in Device, BlacklistDevice(d) PROVE HolderInv'
  BY <1>24 DEF BlacklistDevice
<1>25. ASSUME NEW c \in Counter, Expire(c) PROVE HolderInv'
  BY <1>25 DEF Expire
<1> QED
  BY <1>1, <1>2, <1>3, <1>4, <1>5, <1>6, <1>7, <1>8, <1>9, <1>10, <1>11, <1>12,
     <1>13, <1>14, <1>15, <1>16, <1>17, <1>18, <1>19, <1>20, <1>21, <1>22, <1>23,
     <1>24, <1>25
  DEF Next, Step

\* The transactions that wait for nothing: past their UPDATE, or before it with
\* the row free.
RequestCanGo(r) ==
  \/ pc[r] \in Locked
  \/ pc[r] = "touch" /\ holder[KeyOf(r)] = None

RevocationCanGo(k) ==
  \/ revoking[k] = "locked"
  \/ revoking[k] = "read" /\ holder[k] = None

\* Whoever waits for a row waits for one that waits for nothing, and whoever
\* waits for a connection too.
NoCircularWait ==
  /\ \A k \in Key : holder[k] # None =>
       \/ RevocationCanGo(k)
       \/ \E r \in Req : KeyOf(r) = k /\ RequestCanGo(r)
  /\ ~(Connections < PoolSize) =>
       \/ \E k \in Key : RevocationCanGo(k)
       \/ \E r \in OpenTxn : RequestCanGo(r)

\* Connections and row locks never wait for each other in a circle, however
\* small the pool: update_last_used and revoke_key take one row lock each,
\* with their connection in hand, and need no other.
THEOREM DeadlockFree == Spec => []NoCircularWait
<1>1. Init => HolderInv
  BY PipelineAssumption DEF Init, HolderInv
<1>2. IInv /\ HolderInv /\ [Next]_vars => HolderInv'
  BY HolderStep DEF IInv
<1>3. IInv /\ HolderInv => NoCircularWait
  <2> SUFFICES ASSUME IInv, HolderInv
               PROVE  NoCircularWait
    OBVIOUS
  <2>1. ASSUME NEW k \in Key, holder[k] # None
        PROVE  \/ RevocationCanGo(k)
               \/ \E r \in OpenTxn : KeyOf(r) = k /\ RequestCanGo(r)
    BY <2>1 DEF IInv, TypeOK, HolderInv, RevocationCanGo, RequestCanGo, OpenTxn
  <2>2. ASSUME ~(Connections < PoolSize)
        PROVE  \/ \E k \in Key : RevocationCanGo(k)
               \/ \E r \in OpenTxn : RequestCanGo(r)
    <3> DEFINE Revocations == {k \in Key : revoking[k] \in {"read", "locked"}}
    <3>1. OpenTxn # {} \/ Revocations # {}
      <4> SUFFICES ASSUME OpenTxn = {}, Revocations = {} PROVE FALSE
        OBVIOUS
      <4>1. Connections = 0
        BY FS_EmptySet DEF Connections
      <4> QED
        BY <2>2, <4>1, PipelineAssumption
    <3>2. ASSUME NEW r \in OpenTxn PROVE RequestCanGo(r) \/ holder[KeyOf(r)] # None
      BY DEF OpenTxn, RequestCanGo
    <3>3. \A r \in OpenTxn : KeyOf(r) \in Key
      BY CallTypes DEF IInv, TypeOK, OpenTxn
    <3>4. ASSUME NEW k \in Revocations PROVE RevocationCanGo(k) \/ holder[k] # None
      BY DEF RevocationCanGo
    <3> QED
      BY <2>1, <3>1, <3>2, <3>3, <3>4
  <2> QED
    BY <2>1, <2>2 DEF NoCircularWait, OpenTxn
<1> QED
  BY <1>1, <1>2, <1>3, Inductive, PTL DEF Spec
=============================================================================
