-------------------------- MODULE RulesAdminProofs --------------------------
(***************************************************************************)
(* The answers and the effects of rule administration, for any requests,   *)
(* rules and fields: a transaction that has written holds the row's lock   *)
(* and its row is still there, and a row that is being created is known to *)
(* nobody else.                                                            *)
(***************************************************************************)
EXTENDS RulesAdmin, TLAPS

Op(r) == call[r].op

\* The row of r as committed.
Row(r) == rules[IdOf(r)]

\* r has read its rule and is not done with it.
Open(r) == pc[r] \in {"update", "delete", "refresh"} \/ (pc[r] = "commit" /\ Op(r) # "create")

\* Where a request is tells what it does.
PcInv ==
  \A r \in Req :
    /\ pc[r] = "insert" => Op(r) = "create"
    /\ pc[r] \in {"update", "refresh"} => Op(r) = "update"
    /\ pc[r] = "delete" => Op(r) = "delete"
    /\ pc[r] = "read" => Op(r) # "create"
    /\ pc[r] \in {"new", "read", "insert"} => loaded[r] = Absent
    /\ outcome[r] = "2xx" => pc[r] = "done"

\* A created row is unknown until its transaction commits.
CreateInv ==
  /\ \A r, s \in Req : Op(r) = "create" /\ Op(s) = "create" /\ IdOf(r) = IdOf(s) => r = s
  /\ \A r \in Req : Op(r) = "create" /\ pc[r] # "done" =>
       /\ Row(r) = Absent
       /\ \A s \in Req : IdOf(s) = IdOf(r) => loaded[s] = Absent
  /\ \A r \in Req : Op(r) = "create" /\ pc[r] = "commit" =>
       shown[r] = [owner |-> call[r].org, val |-> call[r].set]

\* The owner that was tested is the owner of the row for good.
OwnerInv ==
  \A r \in Req : Open(r) =>
    /\ MayChange(Op(r), loaded[r], call[r].org)
    /\ Row(r) # Absent => Row(r).owner = loaded[r].owner

\* What was written is locked and there; so is what will be deleted.
LockInv ==
  \A r \in Req :
    /\ pc[r] \in {"refresh", "commit"} /\ changes[r] # Nothing =>
         holder[IdOf(r)] = r /\ Row(r) # Absent
    /\ pc[r] = "commit" /\ Op(r) = "delete" => holder[IdOf(r)] = r \/ Row(r) = Absent

\* An update has written what it asked for and did not find; nobody else writes.
ChangesInv ==
  \A r \in Req :
    /\ pc[r] \in {"refresh", "commit"} /\ Op(r) = "update" => changes[r] = Dirty(r)
    /\ ~(pc[r] \in {"refresh", "commit", "done"} /\ Op(r) = "update") => changes[r] = Nothing

\* The contents of the row since r read it, and what r shows of it.
VersionsInv ==
  \A r \in Req :
    /\ Open(r) => loaded[r] \in versions[r] /\ Row(r) \in versions[r]
    /\ pc[r] = "commit" /\ Op(r) = "update" =>
         shown[r] \in versions[r] \/ (changes[r] # Nothing /\ shown[r] = Seen(r))

IInv ==
  /\ TypeOK /\ PcInv /\ CreateInv /\ OwnerInv /\ LockInv /\ ChangesInv /\ VersionsInv
  /\ UpdatesAreTrue

---------------------------------------------------------------------------
\* Operators of the model.

\* Writes put into a row leave its owner alone and give another row.
LEMMA WithIsRule ==
  ASSUME NEW row \in Rule, NEW w \in Writes
  PROVE  /\ With(row, w) \in Rule /\ With(row, w).owner = row.owner
         /\ \A f \in Field :
              With(row, w).val[f] = IF f \in DOMAIN w THEN w[f] ELSE row.val[f]
<1>1. PICK F \in SUBSET Field : w \in [F -> Value]
  BY DEF Writes
<1>2. [f \in Field |-> IF f \in DOMAIN w THEN w[f] ELSE row.val[f]] \in [Field -> Value]
  BY <1>1 DEF Rule
<1> QED BY <1>2 DEF With, Rule

\* Nothing written is the row itself.
LEMMA WithNothing ==
  ASSUME NEW row \in Rule
  PROVE  Nothing \in Writes /\ With(row, Nothing) = row
<1>1. Nothing \in [{} -> Value]
  BY DEF Nothing
<1>2. DOMAIN Nothing = {}
  BY DEF Nothing
<1>3. With(row, Nothing) = [row EXCEPT !.val = [f \in Field |-> row.val[f]]]
  BY <1>2 DEF With
<1>4. [f \in Field |-> row.val[f]] = row.val
  BY DEF Rule
<1> QED BY <1>1, <1>3, <1>4 DEF Writes, Rule

\* A flush writes values that were asked for.
LEMMA DirtyIsAsked ==
  ASSUME TypeOK, NEW r \in Req
  PROVE  /\ Dirty(r) \in Writes
         /\ DOMAIN Dirty(r) \subseteq Field
         /\ \A f \in DOMAIN Dirty(r) : Dirty(r)[f] = call[r].set[f]
         /\ \A f \in Field \ DOMAIN Dirty(r) : call[r].set[f] \in {None, loaded[r].val[f]}
<1> DEFINE D == {g \in Field : call[r].set[g] \notin {None, loaded[r].val[g]}}
<1>1. Dirty(r) = [f \in D |-> call[r].set[f]]
  BY DEF Dirty
<1>2. call[r].set \in [Field -> Value \cup {None}]
  BY RulesAssumption DEF TypeOK, CallType
<1>3. Dirty(r) \in [D -> Value]
  BY <1>1, <1>2
<1> QED BY <1>1, <1>3 DEF Writes

\* What a transaction sees is a row when the row is there.
LEMMA SeenIsRule ==
  ASSUME TypeOK, NEW r \in Req
  PROVE  /\ Seen(r) \in Rule \cup {Absent}
         /\ Row(r) = Absent <=> Seen(r) = Absent
         /\ Row(r) # Absent => Row(r) \in Rule /\ Seen(r) = With(Row(r), changes[r])
<1>1. IdOf(r) \in RuleId /\ changes[r] \in Writes
  BY RulesAssumption DEF TypeOK, CallType, IdOf
<1>2. Row(r) \in Rule \cup {Absent}
  BY <1>1 DEF TypeOK, Row
<1> QED BY <1>1, <1>2, WithIsRule, RulesAssumption DEF Seen, Row

---------------------------------------------------------------------------
\* The invariant holds before any request.
LEMMA InitIInv == Init => IInv
<1> SUFFICES ASSUME Init
             PROVE  IInv
  OBVIOUS
<1>1. Nothing \in Writes
  <2>1. Nothing \in [{} -> Value]
    BY DEF Nothing
  <2> QED BY <2>1 DEF Writes
<1>2. TypeOK
  BY <1>1, RulesAssumption DEF Init, TypeOK, PC
<1>3. PcInv /\ CreateInv /\ OwnerInv /\ LockInv /\ ChangesInv /\ VersionsInv /\ UpdatesAreTrue
  BY DEF Init, PcInv, CreateInv, OwnerInv, LockInv, ChangesInv, VersionsInv, UpdatesAreTrue,
         Open, Op, Row, IdOf
<1> QED BY <1>2, <1>3 DEF IInv

\* Every step keeps the types.
LEMMA TypeStep == TypeOK /\ PcInv /\ [Next]_vars => TypeOK'
<1> SUFFICES ASSUME TypeOK, PcInv, [Next]_vars
             PROVE  TypeOK'
  OBVIOUS
<1> USE RulesAssumption DEF TypeOK, PC
<1>1. CASE UNCHANGED vars
  BY <1>1 DEF vars
<1>2. ASSUME NEW r \in Req, Receive(r) \/ Step(r) \/ Fail(r)
      PROVE  TypeOK'
  <2>1. call[r] \in CallType /\ IdOf(r) \in RuleId
    BY DEF CallType, IdOf
  <2>2. ASSUME NEW status \in {"404", "500"}, Rollback(r, status)
        PROVE  TypeOK'
    BY <2>2 DEF Rollback
  <2>3. CASE Receive(r)
    BY <2>3 DEF Receive, Goto
  <2>4. CASE ReadRule(r)
    <3>1. rules[IdOf(r)] \in Rule
      BY <2>4, <2>1 DEF ReadRule, MayChange
    <3>2. call[r].op \in {"update", "delete"}
      BY <2>4, <2>1 DEF ReadRule, Goto, CallType, PcInv, Op
    <3> QED BY <2>4, <2>1, <3>1, <3>2 DEF ReadRule, Goto
  <2>5. CASE SkipUpdate(r)
    BY <2>5 DEF SkipUpdate, Goto
  <2>6. CASE WriteUpdate(r)
    BY <2>6, <2>1, DirtyIsAsked DEF WriteUpdate, Goto
  <2>7. CASE Refresh(r)
    BY <2>7, SeenIsRule DEF Refresh, Goto
  <2>8. CASE WriteDelete(r)
    BY <2>8, <2>1 DEF WriteDelete, Goto
  <2>9. CASE InsertRule(r)
    <3>1. Goto(r, "insert", "commit") /\ UNCHANGED <<call, loaded, changes, outcome, rules, holder, versions>>
      BY <2>9 DEF InsertRule
    <3>2. shown' \in [Req -> Rule \cup {Absent}]
      <4>1. call[r].op = "create"
        BY <2>9 DEF InsertRule, Goto, PcInv, Op
      <4>2. call[r].set \in [Field -> Value] /\ call[r].org \in Org
        BY <4>1, <2>1 DEF CallType
      <4>3. [owner |-> call[r].org, val |-> call[r].set] \in Rule
        BY <4>2 DEF Rule, Owner
      <4> QED BY <2>9, <4>3 DEF InsertRule
    <3> QED BY <3>1, <3>2 DEF Goto
  <2>10. CASE Commit(r)
    <3>1. Result(r) \in Rule \cup {Absent}
      BY <2>1, SeenIsRule DEF Result, CallType
    <3> QED BY <2>10, <2>1, <3>1 DEF Commit, Goto
  <2> QED BY <1>2, <2>2, <2>3, <2>4, <2>5, <2>6, <2>7, <2>8, <2>9, <2>10
          DEF Step, Fail, NotFound, UpdateGone, RefreshGone
<1> QED BY <1>1, <1>2 DEF Next

\* Every step leaves the requests where their kind has its places.
LEMMA PcStep == TypeOK /\ PcInv /\ [Next]_vars => PcInv'
<1> SUFFICES ASSUME TypeOK, PcInv, [Next]_vars
             PROVE  PcInv'
  OBVIOUS
<1> USE DEF TypeOK, PC, PcInv, Op
<1>1. CASE UNCHANGED vars
  BY <1>1 DEF vars
<1>2. ASSUME NEW r \in Req, Receive(r) \/ Step(r) \/ Fail(r)
      PROVE  PcInv'
  <2>1. call[r].op \in {"create", "update", "delete"}
    BY RulesAssumption DEF CallType
  <2>2. ASSUME NEW status \in {"404", "500"}, Rollback(r, status)
        PROVE  PcInv'
    BY <2>2 DEF Rollback
  <2>3. CASE Receive(r)
    BY <2>3, <2>1 DEF Receive, Goto
  <2>4. CASE ReadRule(r)
    BY <2>4, <2>1 DEF ReadRule, Goto
  <2>5. CASE SkipUpdate(r) \/ WriteUpdate(r)
    BY <2>5 DEF SkipUpdate, WriteUpdate, Goto
  <2>6. CASE Refresh(r) \/ WriteDelete(r) \/ InsertRule(r)
    BY <2>6 DEF Refresh, WriteDelete, InsertRule, Goto
  <2>7. CASE Commit(r)
    BY <2>7 DEF Commit, Goto
  <2> QED BY <1>2, <2>2, <2>3, <2>4, <2>5, <2>6, <2>7
          DEF Step, Fail, NotFound, UpdateGone, RefreshGone
<1> QED BY <1>1, <1>2 DEF Next

---------------------------------------------------------------------------
\* What a commit makes of a row is what its request asked for, and a row that
\* another transaction has locked stays as it is.
LEMMA CommitIsAsked ==
  ASSUME TypeOK, PcInv, CreateInv, OwnerInv, LockInv, ChangesInv, NEW r \in Req, Commit(r)
  PROVE  /\ Result(r) # Row(r) => Asked(call[r], Row(r), Result(r))
         /\ Result(r) # Row(r) => Row(r) = Absent \/ holder[IdOf(r)] = r
         /\ Op(r) # "create" /\ Row(r) = Absent => Result(r) = Absent
         /\ Op(r) # "create" /\ Result(r) # Absent => Result(r).owner = Row(r).owner
<1>1. /\ pc[r] = "commit" /\ IdOf(r) \in RuleId /\ Row(r) \in Rule \cup {Absent}
      /\ call[r] \in CallType
  BY RulesAssumption DEF Commit, Goto, TypeOK, IdOf, CallType, Row
<1>2. CASE Op(r) = "create"
  <2>1. Row(r) = Absent /\ Result(r) = [owner |-> call[r].org, val |-> call[r].set]
    BY <1>1, <1>2 DEF CreateInv, Op, Result
  <2> QED BY <1>2, <2>1 DEF Asked, Op
<1>3. CASE Op(r) = "delete"
  <2>1. Result(r) = Absent /\ MayChange("delete", loaded[r], call[r].org)
    BY <1>1, <1>3 DEF Result, Op, OwnerInv, Open
  <2>2. Row(r) # Absent => Row(r).owner = call[r].org
    BY <2>1, <1>1, <1>3 DEF OwnerInv, Open, MayChange
  <2>3. Row(r) # Absent => holder[IdOf(r)] = r
    BY <1>1, <1>3 DEF LockInv
  <2> QED BY <1>3, <2>1, <2>2, <2>3 DEF Asked, Op
<1>4. CASE Op(r) = "update"
  <2>1. Result(r) = Seen(r) /\ MayChange("update", loaded[r], call[r].org)
    BY <1>1, <1>4 DEF Result, Op, OwnerInv, Open
  <2>2. CASE Row(r) = Absent
    BY <1>4, <2>1, <2>2, SeenIsRule
  <2>3. CASE Row(r) # Absent
    <3>1. Result(r) = With(Row(r), changes[r]) /\ changes[r] \in Writes /\ Row(r) \in Rule
      BY <2>1, <2>3, SeenIsRule DEF TypeOK
    <3>2. Result(r) \in Rule /\ Result(r).owner = Row(r).owner
      BY <3>1, WithIsRule
    <3>3. Row(r).owner \in {call[r].org, Global}
      BY <2>1, <2>3, <1>1, <1>4 DEF OwnerInv, Open, MayChange
    <3>4. \A f \in Field : Result(r).val[f] \in {Row(r).val[f], call[r].set[f]}
      <4>1. changes[r] = Dirty(r)
        BY <1>1, <1>4 DEF ChangesInv
      <4> QED BY <3>1, <4>1, WithIsRule, DirtyIsAsked
    <3>5. Result(r) # Row(r) => holder[IdOf(r)] = r
      <4>1. changes[r] = Nothing => Result(r) = Row(r)
        BY <3>1, WithNothing
      <4> QED BY <4>1, <1>1 DEF LockInv
    <3> QED BY <2>3, <3>2, <3>3, <3>4, <3>5, <1>4, RulesAssumption DEF Asked, Op
  <2> QED BY <2>2, <2>3
<1> QED BY <1>1, <1>2, <1>3, <1>4 DEF CallType, Op

\* A commit gives every request on its row the same new row.
LEMMA CommitRows ==
  ASSUME TypeOK, NEW r \in Req, Commit(r), NEW s \in Req
  PROVE  /\ Row(s)' = IF IdOf(s) = IdOf(r) THEN Result(r) ELSE Row(s)
         /\ IdOf(s)' = IdOf(s) /\ Op(s)' = Op(s)
         /\ Open(s)' => Open(s) /\ s # r
BY RulesAssumption DEF TypeOK, Commit, Goto, Row, IdOf, Op, Open, CallType

\* Every step keeps what is known of rows that are being created.
LEMMA CreateStep == IInv /\ [Next]_vars => CreateInv'
<1> SUFFICES ASSUME IInv, [Next]_vars
             PROVE  CreateInv'
  OBVIOUS
<1> USE DEF IInv, TypeOK, CreateInv
<1>1. CASE UNCHANGED vars
  BY <1>1 DEF vars, Op, Row, IdOf
<1>2. ASSUME NEW r \in Req, Receive(r) \/ Step(r) \/ Fail(r)
      PROVE  CreateInv'
  <2> USE DEF Op, Row, IdOf
  <2>2. ASSUME NEW status \in {"404", "500"}, Rollback(r, status)
        PROVE  CreateInv'
    BY <2>2 DEF Rollback
  <2>3. CASE Receive(r)
    BY <2>3 DEF Receive, Goto
  <2>4. CASE ReadRule(r)
    BY <2>4 DEF ReadRule, Goto, MayChange
  <2>5. CASE SkipUpdate(r) \/ WriteUpdate(r)
    BY <2>5 DEF SkipUpdate, WriteUpdate, Goto
  <2>6. CASE Refresh(r) \/ WriteDelete(r)
    BY <2>6 DEF Refresh, WriteDelete, Goto, PcInv
  <2>7. CASE InsertRule(r)
    BY <2>7 DEF InsertRule, Goto
  <2>8. CASE Commit(r)
    <3>1. UNCHANGED <<call, loaded, shown>> /\ pc' = [pc EXCEPT ![r] = "done"]
      BY <2>8 DEF Commit, Goto
    <3>2. \A s \in Req : Op(s) = "create" /\ pc'[s] # "done" => Row(s)' = Absent
      <4> SUFFICES ASSUME NEW s \in Req, Op(s) = "create", pc'[s] # "done"
                   PROVE  Row(s)' = Absent
        OBVIOUS
      <4>1. s # r /\ pc[s] # "done" /\ Row(s) = Absent
        BY <3>1
      <4>2. IdOf(s) = IdOf(r) => Op(r) # "create" /\ Row(r) = Absent
        BY <4>1
      <4>3. IdOf(s) = IdOf(r) => Result(r) = Absent
        BY <2>8, <4>2, CommitIsAsked
      <4> QED BY <2>8, <4>1, <4>3, CommitRows
    <3> QED BY <3>1, <3>2
  <2> QED BY <1>2, <2>2, <2>3, <2>4, <2>5, <2>6, <2>7, <2>8
          DEF Step, Fail, NotFound, UpdateGone, RefreshGone
<1> QED BY <1>1, <1>2 DEF Next

\* Every step keeps the owners that were tested.
LEMMA OwnerStep == IInv /\ [Next]_vars => OwnerInv'
<1> SUFFICES ASSUME IInv, [Next]_vars
             PROVE  OwnerInv'
  OBVIOUS
<1> USE DEF IInv, TypeOK, OwnerInv
<1>1. CASE UNCHANGED vars
  BY <1>1 DEF vars, Op, Row, IdOf, Open
<1>2. ASSUME NEW r \in Req, Receive(r) \/ Step(r) \/ Fail(r)
      PROVE  OwnerInv'
  <2>1. \A s \in Req : call[s].op \in {"create", "update", "delete"} /\ IdOf(s) \in RuleId
    BY RulesAssumption DEF CallType, IdOf
  <2>2. ASSUME NEW status \in {"404", "500"}, Rollback(r, status)
        PROVE  OwnerInv'
    BY <2>2 DEF Rollback, Op, Row, IdOf, Open
  <2>3. CASE Receive(r)
    BY <2>3 DEF Receive, Goto, Op, Row, IdOf, Open
  <2>4. CASE ReadRule(r)
    BY <2>4, <2>1 DEF ReadRule, Goto, PcInv, Op, Row, IdOf, Open
  <2>5. CASE SkipUpdate(r) \/ WriteUpdate(r)
    BY <2>5 DEF SkipUpdate, WriteUpdate, Goto, Op, Row, IdOf, Open
  <2>6. CASE Refresh(r) \/ WriteDelete(r) \/ InsertRule(r)
    BY <2>6 DEF Refresh, WriteDelete, InsertRule, Goto, PcInv, Op, Row, IdOf, Open
  <2>7. CASE Commit(r)
    <3>1. UNCHANGED <<call, loaded>>
      BY <2>7 DEF Commit
    <3> SUFFICES ASSUME NEW s \in Req, Open(s)'
                 PROVE  /\ MayChange(Op(s), loaded[s], call[s].org)
                        /\ Row(s)' # Absent => Row(s)'.owner = loaded[s].owner
      BY <3>1, <2>7, CommitRows
    <3>2. Open(s) /\ s # r
      BY <2>7, CommitRows
    <3>3. IdOf(s) # IdOf(r) \/ Op(r) # "create"
      BY <2>7, <3>2 DEF Commit, Goto, CreateInv, MayChange
    <3>4. CASE IdOf(s) = IdOf(r)
      <4>1. Row(s)' = Result(r) /\ Row(s) = Row(r)
        BY <2>7, <3>4, CommitRows DEF Row
      <4>2. Result(r) # Absent => Row(r) # Absent /\ Result(r).owner = Row(r).owner
        BY <2>7, <3>3, <3>4, CommitIsAsked
      <4> QED BY <3>2, <4>1, <4>2
    <3>5. CASE IdOf(s) # IdOf(r)
      BY <2>7, <3>2, <3>5, CommitRows
    <3> QED BY <3>4, <3>5
  <2> QED BY <1>2, <2>2, <2>3, <2>4, <2>5, <2>6, <2>7
          DEF Step, Fail, NotFound, UpdateGone, RefreshGone
<1> QED BY <1>1, <1>2 DEF Next

\* Every step keeps the locks of what was written.
LEMMA LockStep == IInv /\ [Next]_vars => LockInv'
<1> SUFFICES ASSUME IInv, [Next]_vars
             PROVE  LockInv'
  OBVIOUS
<1> USE DEF IInv, TypeOK, LockInv
<1>1. CASE UNCHANGED vars
  BY <1>1 DEF vars, Op, Row, IdOf
<1>2. ASSUME NEW r \in Req, Receive(r) \/ Step(r) \/ Fail(r)
      PROVE  LockInv'
  <2>1. \A s \in Req : IdOf(s) \in RuleId
    BY RulesAssumption DEF CallType, IdOf
  <2>2. ASSUME NEW status \in {"404", "500"}, Rollback(r, status)
        PROVE  LockInv'
    BY <2>1, <2>2 DEF Rollback, Op, Row, IdOf
  <2>3. CASE Receive(r) \/ ReadRule(r)
    BY <2>3, RulesAssumption DEF Receive, ReadRule, Goto, CallType, Op, Row, IdOf
  <2>4. CASE SkipUpdate(r)
    BY <2>4 DEF SkipUpdate, Goto, ChangesInv, Op, Row, IdOf
  <2>5. CASE WriteUpdate(r)
    BY <2>1, <2>5, RulesAssumption DEF WriteUpdate, Goto, Op, Row, IdOf
  <2>6. CASE Refresh(r) \/ InsertRule(r)
    BY <2>6 DEF Refresh, InsertRule, Goto, PcInv, ChangesInv, Op, Row, IdOf
  <2>7. CASE WriteDelete(r)
    BY <2>1, <2>7, RulesAssumption DEF WriteDelete, Goto, PcInv, ChangesInv, Op, Row, IdOf
  <2>8. CASE Commit(r)
    <3>1. /\ UNCHANGED <<call, changes>> /\ pc' = [pc EXCEPT ![r] = "done"]
          /\ holder' = [i \in RuleId |-> IF holder[i] = r THEN None ELSE holder[i]]
      BY <2>8 DEF Commit, Goto
    <3> SUFFICES ASSUME NEW s \in Req, pc'[s] \in {"refresh", "commit"}
                 PROVE  /\ changes[s] # Nothing => holder'[IdOf(s)] = s /\ Row(s)' # Absent
                        /\ pc'[s] = "commit" /\ Op(s) = "delete" =>
                             holder'[IdOf(s)] = s \/ Row(s)' = Absent
      BY <3>1, <2>8, CommitRows
    <3>2. s # r /\ pc[s] = pc'[s]
      BY <3>1
    <3>3. IdOf(s) \in RuleId /\ (holder[IdOf(s)] = s => holder'[IdOf(s)] = s)
      BY <2>1, <3>1, <3>2
    <3>4. CASE changes[s] # Nothing
      <4>1. holder[IdOf(s)] = s /\ Row(s) # Absent
        BY <3>2, <3>4
      <4>2. IdOf(s) = IdOf(r) => Result(r) = Row(s)
        BY <2>8, <3>2, <4>1, CommitIsAsked DEF Row
      <4> QED BY <2>8, <3>3, <4>1, <4>2, CommitRows
    <3>5. CASE changes[s] = Nothing /\ pc[s] = "commit" /\ Op(s) = "delete"
      <4>1. CASE holder[IdOf(s)] = s
        BY <3>3, <3>5, <4>1
      <4>2. CASE Row(s) = Absent
        <5>1. loaded[s] # Absent
          BY <3>5 DEF OwnerInv, Open, MayChange
        <5>2. IdOf(s) = IdOf(r) => Op(r) # "create"
          BY <5>1, <2>8 DEF CreateInv, Commit, Goto
        <5>3. IdOf(s) = IdOf(r) => Result(r) = Absent
          BY <2>8, <4>2, <5>2, CommitIsAsked DEF Row
        <5> QED BY <2>8, <3>5, <4>2, <5>3, CommitRows
      <4> QED BY <3>2, <3>5, <4>1, <4>2
    <3> QED BY <3>2, <3>4, <3>5
  <2> QED BY <1>2, <2>2, <2>3, <2>4, <2>5, <2>6, <2>7, <2>8
          DEF Step, Fail, NotFound, UpdateGone, RefreshGone
<1> QED BY <1>1, <1>2 DEF Next

\* What r writes depends on what it loaded alone.
LEMMA DirtySame ==
  ASSUME NEW r \in Req, UNCHANGED call, loaded'[r] = loaded[r]
  PROVE  Dirty(r)' = Dirty(r)
BY DEF Dirty

\* Every step keeps what updates have written.
LEMMA ChangesStep == IInv /\ [Next]_vars => ChangesInv'
<1> SUFFICES ASSUME IInv, [Next]_vars
             PROVE  ChangesInv'
  OBVIOUS
<1> USE DEF IInv, TypeOK, ChangesInv
<1>1. CASE UNCHANGED vars
  BY <1>1, DirtySame DEF vars, Op
<1>2. ASSUME NEW r \in Req, Receive(r) \/ Step(r) \/ Fail(r)
      PROVE  ChangesInv'
  <2>0. ASSUME UNCHANGED call,
               \A s \in Req \ {r} :
                 pc'[s] = pc[s] /\ loaded'[s] = loaded[s] /\ changes'[s] = changes[s],
               pc'[r] \in {"refresh", "commit"} /\ Op(r) = "update" =>
                 loaded'[r] = loaded[r] /\ changes'[r] = Dirty(r),
               ~(pc'[r] \in {"refresh", "commit", "done"} /\ Op(r) = "update") =>
                 changes'[r] = Nothing
        PROVE  ChangesInv'
    <3>1. \A s \in Req : Op(s)' = Op(s)
      BY <2>0 DEF Op
    <3>2. \A s \in Req : loaded'[s] = loaded[s] => Dirty(s)' = Dirty(s)
      BY <2>0, DirtySame
    <3> QED BY <2>0, <3>1, <3>2 DEF Nothing
  <2>2. ASSUME NEW status \in {"404", "500"}, Rollback(r, status)
        PROVE  ChangesInv'
    BY <2>0, <2>2 DEF Rollback
  <2>3. CASE Receive(r) \/ ReadRule(r)
    BY <2>0, <2>3, RulesAssumption DEF Receive, ReadRule, Goto, CallType, PcInv, Op
  <2>4. CASE SkipUpdate(r) \/ WriteUpdate(r)
    BY <2>0, <2>4 DEF SkipUpdate, WriteUpdate, Goto, PcInv
  <2>5. CASE Refresh(r) \/ InsertRule(r) \/ WriteDelete(r)
    BY <2>0, <2>5 DEF Refresh, InsertRule, WriteDelete, Goto, PcInv
  <2>6. CASE Commit(r)
    BY <2>0, <2>6 DEF Commit, Goto
  <2> QED BY <1>2, <2>2, <2>3, <2>4, <2>5, <2>6
          DEF Step, Fail, NotFound, UpdateGone, RefreshGone
<1> QED BY <1>1, <1>2 DEF Next

\* A commit is a content of the row for every request that is not done, r included.
LEMMA CommitVersions ==
  ASSUME IInv, NEW r \in Req, Commit(r), NEW s \in Req, Open(s)
  PROVE  versions[s] \subseteq versions'[s] /\ (IdOf(s) = IdOf(r) => Result(r) \in versions'[s])
BY DEF IInv, TypeOK, OwnerInv, MayChange, Open, Commit

\* What r sees depends on the committed row and its own writes alone.
LEMMA SeenSame ==
  ASSUME NEW r \in Req, UNCHANGED call, Row(r)' = Row(r), changes'[r] = changes[r]
  PROVE  Seen(r)' = Seen(r)
BY DEF Seen, Row, IdOf, With

\* Every step keeps the contents since the read.
LEMMA VersionsStep == IInv /\ [Next]_vars => VersionsInv'
<1> SUFFICES ASSUME IInv, [Next]_vars
             PROVE  VersionsInv'
  OBVIOUS
<1> USE DEF IInv, TypeOK, VersionsInv
<1>1. CASE UNCHANGED vars
  BY <1>1 DEF vars, Op, Row, IdOf, Open, Seen
<1>2. ASSUME NEW r \in Req, Receive(r) \/ Step(r) \/ Fail(r)
      PROVE  VersionsInv'
  <2>0. ASSUME UNCHANGED <<call, rules>>,
               \A s \in Req \ {r} :
                 /\ pc'[s] = pc[s] /\ loaded'[s] = loaded[s] /\ changes'[s] = changes[s]
                 /\ shown'[s] = shown[s] /\ versions'[s] = versions[s],
               Open(r)' => loaded'[r] \in versions'[r] /\ Row(r) \in versions'[r],
               pc'[r] = "commit" /\ Op(r) = "update" => shown'[r] \in versions'[r] \/
                 (changes'[r] = changes[r] /\ changes[r] # Nothing /\ shown'[r] = Seen(r))
        PROVE  VersionsInv'
    <3>1. \A s \in Req : Row(s)' = Row(s) /\ Op(s)' = Op(s)
      BY <2>0 DEF Row, Op, IdOf
    <3>2. \A s \in Req : changes'[s] = changes[s] => Seen(s)' = Seen(s)
      BY <2>0, <3>1, SeenSame
    <3>3. \A s \in Req \ {r} : Open(s)' => Open(s)
      BY <2>0, <3>1 DEF Open
    <3> QED BY <2>0, <3>1, <3>2, <3>3
  <2>2. ASSUME NEW status \in {"404", "500"}, Rollback(r, status)
        PROVE  VersionsInv'
    BY <2>0, <2>2 DEF Rollback, Open
  <2>3. CASE Receive(r)
    BY <2>0, <2>3 DEF Receive, Goto, Open
  <2>4. CASE ReadRule(r)
    BY <2>0, <2>4, RulesAssumption DEF ReadRule, Goto, CallType, Row, Open
  <2>5. CASE SkipUpdate(r) \/ WriteUpdate(r)
    BY <2>0, <2>5 DEF SkipUpdate, WriteUpdate, Goto, Open
  <2>6. CASE Refresh(r)
    <3>1. changes[r] = Nothing => Seen(r) = Row(r)
      BY <2>6, SeenIsRule, WithNothing DEF Refresh
    <3>2. Row(r) \in versions[r] /\ loaded[r] \in versions[r]
      BY <2>6 DEF Refresh, Goto, Open
    <3> QED BY <2>0, <2>6, <3>1, <3>2 DEF Refresh, Goto
  <2>7. CASE InsertRule(r) \/ WriteDelete(r)
    BY <2>0, <2>7 DEF InsertRule, WriteDelete, Goto, PcInv, Op, Open
  <2>8. CASE Commit(r)
    <3>1. UNCHANGED <<call, loaded, changes, shown>> /\ pc' = [pc EXCEPT ![r] = "done"]
      BY <2>8 DEF Commit, Goto
    <3>2. ASSUME NEW s \in Req, Open(s)'
          PROVE  loaded'[s] \in versions'[s] /\ Row(s)' \in versions'[s]
      BY <2>8, <3>1, <3>2, CommitRows, CommitVersions
    <3>3. ASSUME NEW s \in Req, pc'[s] = "commit", Op(s) = "update"
          PROVE  shown[s] \in versions'[s] \/ (changes[s] # Nothing /\ shown[s] = Seen(s)')
      <4>1. s # r /\ pc[s] = "commit" /\ Open(s)
        BY <3>1, <3>3 DEF Open
      <4>2. CASE shown[s] \in versions[s]
        BY <2>8, <4>1, <4>2, CommitVersions
      <4>3. CASE changes[s] # Nothing /\ shown[s] = Seen(s)
        <5>1. holder[IdOf(s)] = s /\ Row(s) # Absent
          BY <4>1, <4>3 DEF LockInv
        <5>2. Row(s)' = Row(s)
          BY <2>8, <4>1, <5>1, CommitIsAsked, CommitRows DEF Row
        <5>3. Seen(s)' = Seen(s)
          BY <3>1, <5>2, SeenSame
        <5> QED BY <4>3, <5>3
      <4> QED BY <3>3, <4>1, <4>2, <4>3
    <3>4. \A s \in Req : Op(s)' = Op(s)
      BY <3>1 DEF Op
    <3> QED BY <3>1, <3>2, <3>3, <3>4
  <2> QED BY <1>2, <2>2, <2>3, <2>4, <2>5, <2>6, <2>7, <2>8
          DEF Step, Fail, NotFound, UpdateGone, RefreshGone
<1> QED BY <1>1, <1>2 DEF Next

\* The update that commits tells the truth.
LEMMA CommitIsTrue ==
  ASSUME IInv, NEW r \in Req, Commit(r), Op(r) = "update"
  PROVE  /\ shown[r] \in versions'[r]
         /\ \A f \in Field : call[r].set[f] # None =>
              \E row \in versions'[r] \ {Absent} : row.val[f] = call[r].set[f]
<1> USE DEF IInv
<1>1. pc[r] = "commit" /\ Open(r)
  BY DEF Commit, Goto, Open
<1>2. versions[r] \subseteq versions'[r] /\ Seen(r) \in versions'[r]
  BY <1>1, CommitVersions DEF Result, Op
<1>3. shown[r] \in versions'[r]
  BY <1>1, <1>2 DEF VersionsInv
<1>4. ASSUME NEW f \in Field, call[r].set[f] # None
      PROVE  \E row \in versions'[r] \ {Absent} : row.val[f] = call[r].set[f]
  <2>1. changes[r] = Dirty(r)
    BY <1>1 DEF ChangesInv
  <2>2. CASE f \in DOMAIN Dirty(r)
    <3>1. Dirty(r) # Nothing
      BY <2>2 DEF Nothing
    <3>2. Row(r) # Absent
      BY <1>1, <2>1, <3>1 DEF LockInv
    <3>3. Seen(r) = With(Row(r), Dirty(r)) /\ Row(r) \in Rule /\ Seen(r) # Absent
      BY <2>1, <3>2, SeenIsRule
    <3>4. Seen(r).val[f] = call[r].set[f]
      BY <2>2, <3>3, WithIsRule, DirtyIsAsked
    <3> QED BY <1>2, <3>3, <3>4
  <2>3. CASE f \notin DOMAIN Dirty(r)
    <3>1. loaded[r].val[f] = call[r].set[f]
      BY <1>4, <2>3, DirtyIsAsked
    <3>2. loaded[r] \in versions[r] /\ loaded[r] # Absent
      BY <1>1 DEF VersionsInv, OwnerInv, MayChange
    <3> QED BY <1>2, <3>1, <3>2
  <2> QED BY <2>2, <2>3
<1> QED BY <1>3, <1>4

\* Every step keeps the answers true.
LEMMA TrueStep == IInv /\ [Next]_vars => UpdatesAreTrue'
<1> SUFFICES ASSUME IInv, [Next]_vars, NEW s \in Req,
                    call'[s].op = "update", outcome'[s] = "2xx"
             PROVE  /\ shown'[s] \in versions'[s]
                    /\ \A f \in Field : call'[s].set[f] # None =>
                         \E row \in versions'[s] \ {Absent} : row.val[f] = call'[s].set[f]
  BY DEF UpdatesAreTrue
<1> USE DEF IInv, TypeOK
<1>1. UNCHANGED call
  BY DEF Next, vars, Receive, Step, Fail, Rollback, NotFound, ReadRule, SkipUpdate, WriteUpdate,
         UpdateGone, Refresh, RefreshGone, WriteDelete, InsertRule, Commit
<1>2. CASE outcome[s] = "2xx"
  <2>1. pc[s] = "done"
    BY <1>2 DEF PcInv
  <2>2. shown'[s] = shown[s] /\ versions'[s] = versions[s]
    <3>1. CASE UNCHANGED vars
      BY <3>1 DEF vars
    <3>2. ASSUME NEW r \in Req, Receive(r) \/ Step(r) \/ Fail(r)
          PROVE  shown'[s] = shown[s] /\ versions'[s] = versions[s]
      <4>1. CASE r # s
        BY <3>2, <2>1, <4>1
        DEF Receive, Step, Fail, Rollback, NotFound, ReadRule, SkipUpdate, WriteUpdate,
            UpdateGone, Refresh, RefreshGone, WriteDelete, InsertRule, Commit, Goto
      <4>2. r # s
        BY <3>2, <2>1
        DEF Receive, Step, Fail, NotFound, ReadRule, SkipUpdate, WriteUpdate,
            UpdateGone, Refresh, RefreshGone, WriteDelete, InsertRule, Commit, Goto
      <4> QED BY <4>1, <4>2
    <3> QED BY <3>1, <3>2 DEF Next
  <2> QED BY <1>1, <1>2, <2>2 DEF UpdatesAreTrue
<1>3. CASE outcome[s] # "2xx"
  <2>1. Commit(s)
    <3>1. CASE UNCHANGED vars
      BY <1>3, <3>1 DEF vars
    <3>2. ASSUME NEW r \in Req, Receive(r) \/ Step(r) \/ Fail(r)
          PROVE  Commit(s)
      BY <1>3, <3>2
      DEF Receive, Step, Fail, Rollback, NotFound, ReadRule, SkipUpdate, WriteUpdate,
          UpdateGone, Refresh, RefreshGone, WriteDelete, InsertRule, Commit
    <3> QED BY <3>1, <3>2 DEF Next
  <2>2. UNCHANGED shown
    BY <2>1 DEF Commit
  <2> QED BY <1>1, <2>1, <2>2, CommitIsTrue DEF Op
<1> QED BY <1>2, <1>3

---------------------------------------------------------------------------
\* The invariant holds in every reachable state.
LEMMA Invariance == Spec => []IInv
<1>1. IInv /\ [Next]_vars => IInv'
  BY TypeStep, PcStep, CreateStep, OwnerStep, LockStep, ChangesStep, VersionsStep, TrueStep
  DEF IInv
<1> QED BY InitIInv, <1>1, PTL DEF Spec

\* Type correctness of rule administration.
THEOREM TypeCorrect == Spec => []TypeOK
<1>1. IInv => TypeOK
  BY DEF IInv
<1> QED BY <1>1, Invariance, PTL

\* A 200 of an update shows a row that was in force during the request, and so
\* was every value it asked for.
THEOREM UpdatesTellTheTruth == Spec => []UpdatesAreTrue
<1>1. IInv => UpdatesAreTrue
  BY DEF IInv
<1> QED BY <1>1, Invariance, PTL

\* A commit changes what its own request asked for, whatever overlaps it.
THEOREM OnlyAskedChanges == Spec => ChangesAreAsked
<1> DEFINE Asks == \A i \in RuleId : rules'[i] # rules[i] =>
                     \E r \in Req : /\ pc[r] = "commit" /\ pc'[r] = "done" /\ IdOf(r) = i
                                    /\ Asked(call[r], rules[i], rules'[i])
<1>1. IInv /\ [Next]_vars => [Asks]_vars
  <2> SUFFICES ASSUME IInv, Next, NEW i \in RuleId, rules'[i] # rules[i]
               PROVE  \E r \in Req : /\ pc[r] = "commit" /\ pc'[r] = "done" /\ IdOf(r) = i
                                     /\ Asked(call[r], rules[i], rules'[i])
    OBVIOUS
  <2>1. PICK r \in Req : Commit(r)
    BY DEF Next, Receive, Step, Fail, Rollback, NotFound, ReadRule, SkipUpdate, WriteUpdate,
           UpdateGone, Refresh, RefreshGone, WriteDelete, InsertRule
  <2>2. /\ pc[r] = "commit" /\ pc'[r] = "done"
        /\ rules' = [rules EXCEPT ![IdOf(r)] = Result(r)]
    BY <2>1 DEF Commit, Goto, IInv, TypeOK
  <2>3. IdOf(r) = i /\ rules'[i] = Result(r) /\ rules[i] = Row(r)
    BY <2>2 DEF IInv, TypeOK, Row
  <2>4. Asked(call[r], rules[i], rules'[i])
    BY <2>1, <2>3, CommitIsAsked DEF IInv
  <2> QED BY <2>2, <2>3, <2>4
<1> QED BY <1>1, Invariance, PTL DEF Spec, ChangesAreAsked
=============================================================================
