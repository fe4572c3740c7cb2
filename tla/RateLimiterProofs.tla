------------------------- MODULE RateLimiterProofs -------------------------
(***************************************************************************)
(* The caps of the rate limiter, for any requests, clients and limits: the *)
(* INCRs of one life of a key return different numbers, so at most Limit   *)
(* of them can return one within the limit; and when a life ends, those of *)
(* the life before it are a window old.                                    *)
(***************************************************************************)
EXTENDS RateLimiter, FunctionTheorems, FiniteSetTheorems, TLAPS

\* r has the reply to its INCR.
Replied(r) == pc[r] \in {"expire", "answer", "admitted", "refused"}

\* A request is counted in its own bucket, after its INCR.
CountedInv ==
  \A b \in Bucket : \A r \in counted[b] : bucket[r] = b /\ pc[r] \notin {"idle", "incr"}

\* Replies are the numbers up to the counter, each given once.
RankInv ==
  \A b \in Bucket : \A r \in counted[b] : Replied(r) =>
    /\ 1 <= current[r] /\ current[r] <= count[b]
    /\ \A s \in counted[b] : Replied(s) /\ current[s] = current[r] => s = r

\* The answer is the comparison of the reply with the limit.
AdmitInv ==
  \A r \in Req :
    /\ pc[r] = "admitted" => current[r] <= Limit[bucket[r]]
    /\ pc[r] = "refused" => current[r] > Limit[bucket[r]]

\* The counter is the number of requests its life has counted.
CountInv == \A b \in Bucket : count[b] = Cardinality(counted[b])

\* r's INCR was executed and r may still be, or has been, admitted.
Aged(r) == pc[r] \in {"expire", "answer", "admitted"}

\* The requests of earlier lives of b's key.
Earlier(b) == {r \in Req : bucket[r] = b /\ r \notin counted[b] /\ Aged(r)}

\* They were counted before the EXPIRE of the present life.
AgeInv == \A b \in Bucket : \A r \in Earlier(b) : ttl[b] > 0 => age[r] + ttl[b] >= Window

\* Those less than a window old are of one life.
EarlierRankInv ==
  \A b \in Bucket : \A r \in Earlier(b) : age[r] < Window =>
    /\ 1 <= current[r]
    /\ \A s \in Earlier(b) : age[s] < Window /\ current[s] = current[r] => s = r

IInv ==
  TypeOK /\ CountedInv /\ RankInv /\ AdmitInv /\ CountInv /\ AgeInv /\ EarlierRankInv

---------------------------------------------------------------------------
\* The invariant holds before any request.
LEMMA InitIInv == Init => IInv
BY LimiterAssumption, FS_EmptySet
DEF Init, IInv, TypeOK, PC, CountedInv, RankInv, AdmitInv, CountInv, Replied,
    AgeInv, EarlierRankInv, Earlier, Aged

\* Every step keeps the types.
LEMMA TypeStep == TypeOK /\ [Next]_vars => TypeOK'
<1> SUFFICES ASSUME TypeOK, [Next]_vars
             PROVE  TypeOK'
  OBVIOUS
<1> USE LimiterAssumption DEF TypeOK, PC
<1>1. CASE UNCHANGED vars
  BY <1>1 DEF vars
<1>2. CASE Tick
  <2>1. age' \in [Req -> 0 .. Window]
    BY <1>2 DEF Tick
  <2>2. ttl' \in [Bucket -> 0 .. Window] /\ count' \in [Bucket -> Nat]
    BY <1>2 DEF Tick
  <2> QED
    BY <1>2, <2>1, <2>2 DEF Tick
<1>3. ASSUME NEW r \in Req, Receive(r) PROVE TypeOK'
  BY <1>3 DEF Receive, Goto
<1>4. ASSUME NEW r \in Req, Incr(r) PROVE TypeOK'
  BY <1>4 DEF Incr, Goto
<1>5. ASSUME NEW r \in Req, SetExpiry(r) PROVE TypeOK'
  BY <1>5 DEF SetExpiry, Goto
<1>6. ASSUME NEW r \in Req, Admit(r) \/ Refuse(r) PROVE TypeOK'
  BY <1>6 DEF Admit, Refuse, Goto
<1>7. ASSUME NEW r \in Req, FailIncr(r) PROVE TypeOK'
  BY <1>7 DEF FailIncr, Goto
<1>8. ASSUME NEW r \in Req, FailExpire(r) \/ FailAnswer(r) PROVE TypeOK'
  BY <1>8 DEF FailExpire, FailAnswer, Goto
<1> QED
  BY <1>1, <1>2, <1>3, <1>4, <1>5, <1>6, <1>7, <1>8 DEF Next, Step, Failure

\* Every step keeps the counts apart.
LEMMA RankStep ==
  TypeOK /\ CountedInv /\ RankInv /\ [Next]_vars => CountedInv' /\ RankInv'
<1> SUFFICES ASSUME TypeOK, CountedInv, RankInv, [Next]_vars
             PROVE  CountedInv' /\ RankInv'
  OBVIOUS
<1> USE DEF TypeOK, CountedInv, RankInv, Replied
<1>1. CASE UNCHANGED vars
  BY <1>1 DEF vars
<1>2. CASE Tick
  BY <1>2 DEF Tick
<1>3. ASSUME NEW r \in Req, Receive(r) PROVE CountedInv' /\ RankInv'
  BY <1>3 DEF Receive, Goto
<1>4. ASSUME NEW r \in Req, Incr(r) PROVE CountedInv' /\ RankInv'
  BY <1>4 DEF Incr, Goto
<1>5. ASSUME NEW r \in Req, SetExpiry(r) PROVE CountedInv' /\ RankInv'
  BY <1>5 DEF SetExpiry, Goto
<1>6. ASSUME NEW r \in Req, Admit(r) \/ Refuse(r) PROVE CountedInv' /\ RankInv'
  BY <1>6 DEF Admit, Refuse, Goto
<1>7. ASSUME NEW r \in Req, FailIncr(r) PROVE CountedInv' /\ RankInv'
  BY <1>7 DEF FailIncr, Goto
<1>8. ASSUME NEW r \in Req, FailExpire(r) \/ FailAnswer(r) PROVE CountedInv' /\ RankInv'
  BY <1>8 DEF FailExpire, FailAnswer, Goto
<1> QED
  BY <1>1, <1>2, <1>3, <1>4, <1>5, <1>6, <1>7, <1>8 DEF Next, Step, Failure

\* Only a request within its limit is let through by its count, and no such one refused.
LEMMA AdmitStep == TypeOK /\ AdmitInv /\ [Next]_vars => AdmitInv'
<1> SUFFICES ASSUME TypeOK, AdmitInv, [Next]_vars
             PROVE  AdmitInv'
  OBVIOUS
<1> USE DEF TypeOK, AdmitInv
<1>1. CASE UNCHANGED vars
  BY <1>1 DEF vars
<1>2. CASE Tick
  BY <1>2 DEF Tick
<1>3. ASSUME NEW r \in Req, Receive(r) \/ Incr(r) \/ SetExpiry(r) PROVE AdmitInv'
  BY <1>3 DEF Receive, Incr, SetExpiry, Goto
<1>4. ASSUME NEW r \in Req, Admit(r) \/ Refuse(r) PROVE AdmitInv'
  BY <1>4 DEF Admit, Refuse, Goto
<1>5. ASSUME NEW r \in Req, Failure(r) PROVE AdmitInv'
  BY <1>5 DEF Failure, FailIncr, FailExpire, FailAnswer, Goto
<1> QED
  BY <1>1, <1>2, <1>3, <1>4, <1>5 DEF Next, Step

\* Every step counts a request once.
LEMMA CountStep == TypeOK /\ CountedInv /\ CountInv /\ [Next]_vars => CountInv'
<1> SUFFICES ASSUME TypeOK, CountedInv, CountInv, [Next]_vars, NEW b \in Bucket
             PROVE  count'[b] = Cardinality(counted'[b])
  BY DEF CountInv
<1> USE DEF TypeOK, CountInv
<1>1. CASE UNCHANGED <<count, counted>>
  BY <1>1
<1>2. CASE Tick
  BY <1>2, FS_EmptySet DEF Tick
<1>3. ASSUME NEW r \in Req, pc[r] = "incr",
             count' = [count EXCEPT ![bucket[r]] = @ + 1],
             counted' = [counted EXCEPT ![bucket[r]] = @ \cup {r}]
      PROVE  count'[b] = Cardinality(counted'[b])
  <2>1. IsFiniteSet(counted[b])
    <3>1. counted[b] \subseteq Req
      OBVIOUS
    <3> QED
      BY <3>1, LimiterAssumption, FS_Subset
  <2>2. CASE b = bucket[r]
    <3>1. r \notin counted[b]
      BY <1>3, <2>2 DEF CountedInv
    <3>2. Cardinality(counted[b] \cup {r}) = Cardinality(counted[b]) + 1
      BY <2>1, <3>1, FS_AddElement
    <3> QED
      BY <1>3, <2>2, <3>2
  <2>3. CASE b # bucket[r]
    BY <1>3, <2>3
  <2> QED
    BY <2>2, <2>3
<1>4. ASSUME NEW r \in Req, Receive(r) \/ SetExpiry(r) \/ Admit(r) \/ Refuse(r)
                              \/ FailExpire(r) \/ FailAnswer(r)
      PROVE  UNCHANGED <<count, counted>>
  BY <1>4 DEF Receive, SetExpiry, Admit, Refuse, FailExpire, FailAnswer
<1>5. ASSUME NEW r \in Req, Incr(r) \/ FailIncr(r)
      PROVE  count'[b] = Cardinality(counted'[b])
  BY <1>1, <1>3, <1>5 DEF Incr, FailIncr, Goto
<1> QED
  BY <1>1, <1>2, <1>4, <1>5 DEF Next, Step, Failure, vars

\* Every step keeps the requests of earlier lives apart and old enough.
LEMMA EarlierStep ==
  IInv /\ [Next]_vars => AgeInv' /\ EarlierRankInv'
<1> SUFFICES ASSUME IInv, [Next]_vars
             PROVE  AgeInv' /\ EarlierRankInv'
  OBVIOUS
<1> USE LimiterAssumption
    DEF IInv, TypeOK, AgeInv, EarlierRankInv, Earlier, Aged
<1>1. CASE UNCHANGED vars
  BY <1>1 DEF vars
<1>2. CASE Tick
  <2> SUFFICES ASSUME NEW b \in Bucket, NEW r \in Earlier(b)'
               PROVE  /\ ttl'[b] > 0 => age'[r] + ttl'[b] >= Window
                      /\ age'[r] < Window =>
                           /\ 1 <= current'[r]
                           /\ \A s \in Earlier(b)' :
                                age'[s] < Window /\ current'[s] = current'[r] => s = r
    OBVIOUS
  <2>1. \A s \in Earlier(b)' : age'[s] = IF age[s] < Window THEN age[s] + 1 ELSE Window
    BY <1>2 DEF Tick
  <2>2. CASE ttl[b] # 1
    <3>1. Earlier(b)' = Earlier(b)
      BY <1>2, <2>2 DEF Tick
    <3>2. ttl'[b] > 0 => age'[r] + ttl'[b] >= Window
      BY <1>2, <2>1, <3>1 DEF Tick
    <3> QED
      BY <1>2, <2>1, <3>1, <3>2 DEF Tick
  <2>3. CASE ttl[b] = 1
    <3>1. \A s \in Earlier(b) : age'[s] >= Window
      BY <1>2, <2>3 DEF Tick
    <3>2. \A s \in Earlier(b)' : age'[s] < Window => s \in counted[b] /\ Replied(s)
      BY <1>2, <3>1 DEF Tick, Replied
    <3> QED
      BY <1>2, <2>3, <3>2 DEF Tick, RankInv
  <2> QED
    BY <2>2, <2>3
<1>3. ASSUME NEW r \in Req, Receive(r) PROVE AgeInv' /\ EarlierRankInv'
  BY <1>3 DEF Receive, Goto
<1>4. ASSUME NEW r \in Req, Incr(r) PROVE AgeInv' /\ EarlierRankInv'
  <2>1. \A b \in Bucket : Earlier(b)' \subseteq Earlier(b)
    BY <1>4 DEF Incr, Goto
  <2>2. \A b \in Bucket : \A s \in Earlier(b) : age'[s] = age[s] /\ current'[s] = current[s]
    BY <1>4 DEF Incr, Goto
  <2> QED
    BY <1>4, <2>1, <2>2 DEF Incr
<1>5. ASSUME NEW r \in Req, SetExpiry(r) PROVE AgeInv' /\ EarlierRankInv'
  BY <1>5 DEF SetExpiry, Goto
<1>6. ASSUME NEW r \in Req, Admit(r) \/ Refuse(r) PROVE AgeInv' /\ EarlierRankInv'
  BY <1>6 DEF Admit, Refuse, Goto
<1>7. ASSUME NEW r \in Req, FailIncr(r) PROVE AgeInv' /\ EarlierRankInv'
  <2>1. \A b \in Bucket : Earlier(b)' \subseteq Earlier(b)
    BY <1>7 DEF FailIncr, Goto
  <2> QED
    BY <1>7, <2>1 DEF FailIncr
<1>8. ASSUME NEW r \in Req, FailExpire(r) \/ FailAnswer(r) PROVE AgeInv' /\ EarlierRankInv'
  <2>1. \A b \in Bucket : Earlier(b)' \subseteq Earlier(b)
    BY <1>8 DEF FailExpire, FailAnswer, Goto
  <2> QED
    BY <1>8, <2>1 DEF FailExpire, FailAnswer
<1> QED
  BY <1>1, <1>2, <1>3, <1>4, <1>5, <1>6, <1>7, <1>8 DEF Next, Step, Failure

\* Every reachable state satisfies the inductive invariant.
THEOREM Inductive == Spec => []IInv
<1>1. IInv /\ [Next]_vars => IInv'
  BY TypeStep, RankStep, AdmitStep, CountStep, EarlierStep DEF IInv
<1> QED
  BY <1>1, InitIInv, PTL DEF Spec

\* Every variable of the limiter keeps its type.
THEOREM TypeCorrect == Spec => []TypeOK
BY Inductive, PTL DEF IInv

---------------------------------------------------------------------------
\* Requests within the limit with different numbers are at most Limit.
LEMMA DistinctRanks ==
  ASSUME NEW b \in Bucket, NEW S,
         \A r \in S : current[r] \in 1 .. Limit[b],
         \A r, s \in S : current[r] = current[s] => r = s
  PROVE  IsFiniteSet(S) /\ Cardinality(S) <= Limit[b]
<1> DEFINE rank == [r \in S |-> current[r]]
<1>1. rank \in Injection(S, 1 .. Limit[b])
  BY DEF Injection, IsInjective
<1>2. IsFiniteSet(1 .. Limit[b]) /\ Cardinality(1 .. Limit[b]) = Limit[b]
  <2>1. Limit[b] \in Nat /\ Limit[b] >= 1
    BY LimiterAssumption
  <2> QED
    BY <2>1, FS_Interval
<1> QED
  BY <1>1, <1>2, FS_Injection

\* The requests let through inject into the numbers up to the limit.
LEMMA CapFollows == IInv => WindowCap
<1> SUFFICES ASSUME IInv, NEW b \in Bucket
             PROVE  Cardinality(Admitted(b)) <= Limit[b]
  BY DEF WindowCap
<1>1. \A r \in Admitted(b) : current[r] \in 1 .. Limit[b]
  <2>1. \A r \in Admitted(b) : /\ r \in Req /\ current[r] \in Nat /\ 1 <= current[r]
                               /\ current[r] <= Limit[bucket[r]] /\ bucket[r] = b
    BY DEF IInv, TypeOK, Admitted, CountedInv, RankInv, AdmitInv, Replied
  <2> QED
    BY <2>1, LimiterAssumption
<1>2. \A r, s \in Admitted(b) : current[r] = current[s] => r = s
  BY DEF IInv, Admitted, RankInv, Replied
<1> QED
  BY <1>1, <1>2, DistinctRanks

\* Those of the present life and those of the one before are each at most Limit.
LEMMA BurstFollows == IInv => BurstCap
<1> DEFINE Young(b) == {r \in Req : bucket[r] = b /\ pc[r] = "admitted" /\ age[r] < Window}
           Before(b) == Young(b) \ counted[b]
<1> SUFFICES ASSUME IInv, NEW b \in Bucket
             PROVE  Cardinality(Young(b)) <= 2 * Limit[b]
  BY DEF BurstCap
<1>1. IsFiniteSet(Admitted(b)) /\ Cardinality(Admitted(b)) <= Limit[b]
  <2>1. IsFiniteSet(Admitted(b))
    <3>1. Admitted(b) \subseteq Req
      BY DEF IInv, TypeOK, Admitted
    <3> QED
      BY <3>1, LimiterAssumption, FS_Subset
  <2> QED
    BY <2>1, CapFollows DEF WindowCap
<1>2. IsFiniteSet(Before(b)) /\ Cardinality(Before(b)) <= Limit[b]
  <2>1. Before(b) \subseteq Earlier(b) /\ \A r \in Before(b) : age[r] < Window
    BY DEF Earlier, Aged
  <2>2. \A r \in Before(b) : current[r] \in 1 .. Limit[b]
    <3>1. \A r \in Before(b) : /\ current[r] \in Nat /\ 1 <= current[r]
                               /\ current[r] <= Limit[bucket[r]] /\ bucket[r] = b
      BY <2>1 DEF IInv, TypeOK, EarlierRankInv, AdmitInv
    <3> QED
      BY <3>1, LimiterAssumption
  <2>3. \A r, s \in Before(b) : current[r] = current[s] => r = s
    BY <2>1 DEF IInv, EarlierRankInv
  <2> QED
    BY <2>2, <2>3, DistinctRanks
<1>3. Young(b) \subseteq Admitted(b) \cup Before(b)
  BY DEF Admitted
<1>4. /\ IsFiniteSet(Admitted(b) \cup Before(b))
      /\ Cardinality(Admitted(b) \cup Before(b)) <= Cardinality(Admitted(b)) + Cardinality(Before(b))
  <2>1. IsFiniteSet(Admitted(b) \cap Before(b))
    BY <1>1, FS_Subset
  <2> HIDE DEF Before
  <2>2. /\ IsFiniteSet(Admitted(b) \cup Before(b))
        /\ Cardinality(Admitted(b) \cup Before(b))
             = Cardinality(Admitted(b)) + Cardinality(Before(b)) - Cardinality(Admitted(b) \cap Before(b))
    BY <1>1, <1>2, FS_Union
  <2> QED
    BY <1>1, <1>2, <2>1, <2>2, FS_CardinalityType
<1>5. Cardinality(Young(b)) <= Cardinality(Admitted(b) \cup Before(b)) /\ IsFiniteSet(Young(b))
  <2> HIDE DEF Young, Before
  <2> QED
    BY <1>3, <1>4, FS_Subset
<1>6. Limit[b] \in Nat
  BY LimiterAssumption
<1> HIDE DEF Young, Before
<1> QED
  BY <1>1, <1>2, <1>4, <1>5, <1>6, FS_CardinalityType

\* At most Limit requests are let through by one life of a counter, whatever
\* the interleaving of their round trips and the failures of Redis.
THEOREM WindowCapHolds == Spec => []WindowCap
BY CapFollows, Inductive, PTL

\* Whoever is refused in the present life of a counter is one of more than Limit.
THEOREM RefusedOverLimitHolds == Spec => []RefusedOverLimit
<1>1. IInv => RefusedOverLimit
  <2> SUFFICES ASSUME IInv, NEW b \in Bucket, NEW r \in counted[b], pc[r] = "refused"
               PROVE  Cardinality(counted[b]) > Limit[b]
    BY DEF RefusedOverLimit
  <2>1. r \in Req /\ bucket[r] = b /\ current[r] <= count[b] /\ current[r] > Limit[b]
    BY DEF IInv, TypeOK, CountedInv, RankInv, AdmitInv, Replied
  <2>2. current[r] \in Nat /\ count[b] \in Nat /\ Limit[b] \in Nat
    BY <2>1, LimiterAssumption DEF IInv, TypeOK
  <2> QED
    BY <2>1, <2>2 DEF IInv, CountInv
<1> QED
  BY <1>1, Inductive, PTL

\* The fixed window admits at most twice the limit within any Window ticks,
\* however late an EXPIRE comes and whatever fails.
THEOREM BurstCapHolds == Spec => []BurstCap
BY BurstFollows, Inductive, PTL
=============================================================================
