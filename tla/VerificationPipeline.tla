------------------------ MODULE VerificationPipeline ------------------------
(***************************************************************************)
(* POST /api/v1/verify and the two GET endpoints next to it: API-key       *)
(* authentication, the ten steps of VerificationService.submit, and the    *)
(* database transaction (get_db) that surrounds both.                      *)
(*                                                                         *)
(* Every HTTP request is a process.  It suspends at each await, and other  *)
(* requests run in between, so every await is a step.  The database is     *)
(* PostgreSQL at READ COMMITTED: a SELECT sees what is committed, an       *)
(* UPDATE takes the row's lock and keeps it until the transaction ends.    *)
(* Redis commands are atomic and outside the transaction.                  *)
(***************************************************************************)
EXTENDS FraudEngine

CONSTANTS
  Req,        \* HTTP requests; each is sent at most once, a retry is another
  Key,        \* API keys
  KeyOrg,     \* the organization each key belongs to
  Phone, Ip, Device,   \* values a payload may carry
  None,       \* an absent phone, IP or device; also: no transaction
  Admin,      \* the transaction of a revoke_key, as the holder of a row lock
  LateKey,    \* the keys that are created while the system runs
  Call,       \* the calls clients make, a subset of CallType
  RuleTable,  \* the contents fraud_rules may have
  PoolSize    \* database connections (pool_size + max_overflow)

Counter == Phone \cup Ip   \* the keys vt:phone:* and vt:ip_velocity:*

CallType == [key        : Key,
             op         : {"submit", "read"},
             phone      : Phone \cup {None},
             ip         : Ip \cup {None},
             device     : Device \cup {None},
             disposable : BOOLEAN,
             badPan     : BOOLEAN]

ASSUME PipelineAssumption ==
  /\ IsFiniteSet(Req)
  /\ None \notin Req /\ Admin \notin Req /\ None # Admin
  /\ KeyOrg \in [Key -> Org]
  /\ Phone \cap Ip = {} /\ None \notin Counter /\ None \notin Device
  /\ Call \subseteq CallType
  /\ RuleTable \subseteq [RuleId -> Rule]
  /\ PoolSize \in Nat \ {0}

VARIABLES
  pc,         \* where each request is
  call,       \* what each client sends
  view,       \* what each request has read so far
  draft,      \* the row each open transaction has written, uncommitted
  ledger,     \* the committed verification row of each request
  outcome,    \* the HTTP status each client got
  keyState,   \* api_keys.is_active, as committed ("absent": no such row)
  holder,     \* the transaction that holds the row lock of each api_keys row
  revoking,   \* progress of the revoke_key transaction of each key
  orgActive,  \* organizations.is_active
  rules,      \* the committed fraud_rules
  blacklist,  \* the Redis set vt:device_blacklist
  hits,       \* the INCRs each Redis counter holds: its value is their number
  gone,       \* history: the INCRs each counter has lost by expiring
  audit       \* write_audit_log_task messages handed to the broker

dbVars    == <<keyState, holder, revoking, orgActive, rules>>
redisVars == <<blacklist, hits, gone>>
vars == <<pc, call, view, draft, ledger, outcome, dbVars, redisVars, audit>>

---------------------------------------------------------------------------
\* A verification_requests row with its result.  Without a result row the
\* API shows a score of 0, the decision PENDING and no reasons.
Row == [status   : {"absent", "processing", "completed"},
        score    : 0 .. MaxScore,
        decision : Decision \cup {"PENDING"},
        fired    : SUBSET RuleId]

BlankRow(status) ==
  [status |-> status, score |-> 0, decision |-> "PENDING", fired |-> {}]

NoRow == BlankRow("absent")

\* The local variables of the handler that outlive an await.
View == [orgOk : BOOLEAN, phoneSeen : BOOLEAN, listed : BOOLEAN, ipCount : Nat]

EmptyView ==
  [orgOk |-> FALSE, phoneSeen |-> FALSE, listed |-> FALSE, ipCount |-> 0]

PC == {"new", "auth", "touch", "query", "insert", "phone", "device", "ip",
       "decide", "count", "dispatch", "commit", "done"}

\* Between the UPDATE of last_used_at and the end of the transaction.
Locked == PC \ {"new", "auth", "touch", "done"}

OpenTxn == {r \in Req : pc[r] \in Locked \cup {"touch"}}

Connections ==
  Cardinality(OpenTxn) + Cardinality({k \in Key : revoking[k] \in {"read", "locked"}})

KeyOf(r) == call[r].key
OrgOf(r) == KeyOrg[KeyOf(r)]

\* The counters a submission increments.
CountersOf(c) == {c.phone, c.ip} \ {None}

Committed(r) == ledger[r] # NoRow

---------------------------------------------------------------------------
Init ==
  /\ pc = [r \in Req |-> "new"]
  /\ call \in [Req -> Call]
  /\ view = [r \in Req |-> EmptyView]
  /\ draft = [r \in Req |-> NoRow]
  /\ ledger = [r \in Req |-> NoRow]
  /\ outcome = [r \in Req |-> "none"]
  /\ keyState = [k \in Key |-> IF k \in LateKey THEN "absent" ELSE "active"]
  /\ holder = [k \in Key |-> None]
  /\ revoking = [k \in Key |-> "no"]
  /\ orgActive = [o \in Org |-> TRUE]
  /\ rules \in RuleTable
  /\ blacklist = {}
  /\ hits = [c \in Counter |-> {}]
  /\ gone = [c \in Counter |-> {}]
  /\ audit = {}

\* Move request r from one point of its handler to the next.
Goto(r, from, to) == pc[r] = from /\ pc' = [pc EXCEPT ![r] = to]

\* Mutant: the failed transaction stays open.
RollbackLeaky(r, status) ==
  /\ pc' = [pc EXCEPT ![r] = "done"]
  /\ draft' = [draft EXCEPT ![r] = NoRow]
  /\ view' = [view EXCEPT ![r] = EmptyView]
  /\ outcome' = [outcome EXCEPT ![r] = status]
  /\ UNCHANGED holder

\* The end of get_db on an exception: roll back, answer with an error.  The
\* handler's locals are gone with it.
Rollback(r, status) ==
  /\ pc' = [pc EXCEPT ![r] = "done"]
  /\ draft' = [draft EXCEPT ![r] = NoRow]
  /\ view' = [view EXCEPT ![r] = EmptyView]
  /\ holder' = [k \in Key |-> IF holder[k] = r THEN None ELSE holder[k]]
  /\ outcome' = [outcome EXCEPT ![r] = status]

\* The request reaches the application.
Receive(r) ==
  /\ Goto(r, "new", "auth")
  /\ UNCHANGED <<call, view, draft, ledger, outcome, dbVars, redisVars, audit>>

(***************************************************************************)
(* get_api_key_org: the key with its organization in one SELECT, the       *)
(* UPDATE of last_used_at, the test of the organization.  The first        *)
(* statement of a session takes a connection from the pool.                *)
(***************************************************************************)
RejectKey(r) ==
  /\ pc[r] = "auth" /\ Connections < PoolSize
  /\ keyState[KeyOf(r)] # "active"
  /\ Rollback(r, "401")
  /\ UNCHANGED <<call, ledger, keyState, revoking, orgActive, rules,
                 redisVars, audit>>

\* Mutant: the organization is not tested.
LookupKeyOnly(r) ==
  /\ Connections < PoolSize
  /\ keyState[KeyOf(r)] = "active"
  /\ Goto(r, "auth", "touch")
  /\ view' = [view EXCEPT ![r].orgOk = TRUE]
  /\ UNCHANGED <<call, draft, ledger, outcome, dbVars, redisVars, audit>>

LookupKey(r) ==
  /\ Connections < PoolSize
  /\ keyState[KeyOf(r)] = "active"
  /\ Goto(r, "auth", "touch")
  /\ view' = [view EXCEPT ![r].orgOk = orgActive[OrgOf(r)]]
  /\ UNCHANGED <<call, draft, ledger, outcome, dbVars, redisVars, audit>>

\* Mutant: last_used_at is written without waiting, and no lock is kept.
TouchKeyUnlocked(r) ==
  /\ view[r].orgOk
  /\ Goto(r, "touch", IF call[r].op = "submit" THEN "insert" ELSE "query")
  /\ UNCHANGED <<call, view, draft, ledger, outcome, dbVars, redisVars, audit>>

\* The UPDATE waits for the row lock; the organization is the one LookupKey
\* read, however long the wait was.
TouchKey(r) ==
  /\ holder[KeyOf(r)] = None
  /\ view[r].orgOk
  /\ Goto(r, "touch", IF call[r].op = "submit" THEN "insert" ELSE "query")
  /\ holder' = [holder EXCEPT ![KeyOf(r)] = r]
  /\ UNCHANGED <<call, view, draft, ledger, outcome, keyState, revoking,
                 orgActive, rules, redisVars, audit>>

RejectOrg(r) ==
  /\ pc[r] = "touch" /\ holder[KeyOf(r)] = None
  /\ ~view[r].orgOk
  /\ Rollback(r, "403")
  /\ UNCHANGED <<call, ledger, keyState, revoking, orgActive, rules,
                 redisVars, audit>>

---------------------------------------------------------------------------
\* GET /verify/history and GET /verify/{id}: they write nothing of their own.
Query(r) ==
  /\ Goto(r, "query", "commit")
  /\ UNCHANGED <<call, view, draft, ledger, outcome, dbVars, redisVars, audit>>

\* What GET /verify/{id} answers to organization o about request r's row.
VerificationDetail(r, o) ==
  IF Committed(r) /\ OrgOf(r) = o THEN {ledger[r]} ELSE {}

---------------------------------------------------------------------------
\* submit, step 1.
InsertRequest(r) ==
  /\ Goto(r, "insert", "phone")
  /\ draft' = [draft EXCEPT ![r] = BlankRow("processing")]
  /\ UNCHANGED <<call, view, ledger, outcome, dbVars, redisVars, audit>>

\* Mutant: seen means more than once.
CheckPhoneSeenTwice(r) ==
  /\ Goto(r, "phone", "device")
  /\ view' = [view EXCEPT ![r].phoneSeen =
                /\ call[r].phone # None
                /\ Cardinality(hits[call[r].phone]) > 1]
  /\ UNCHANGED <<call, draft, ledger, outcome, dbVars, redisVars, audit>>

CheckPhoneSeen(r) ==
  /\ Goto(r, "phone", "device")
  /\ view' = [view EXCEPT ![r].phoneSeen =
                /\ call[r].phone # None
                /\ hits[call[r].phone] # {}]
  /\ UNCHANGED <<call, draft, ledger, outcome, dbVars, redisVars, audit>>

CheckDeviceBlacklisted(r) ==
  /\ Goto(r, "device", "ip")
  /\ view' = [view EXCEPT ![r].listed = call[r].device \in blacklist]
  /\ UNCHANGED <<call, draft, ledger, outcome, dbVars, redisVars, audit>>

GetIpVelocity(r) ==
  /\ Goto(r, "ip", "decide")
  /\ view' = [view EXCEPT ![r].ipCount =
                IF call[r].ip = None THEN 0 ELSE Cardinality(hits[call[r].ip])]
  /\ UNCHANGED <<call, draft, ledger, outcome, dbVars, redisVars, audit>>

SignalsOf(c, v) ==
  [disposable  |-> c.disposable,
   badPan      |-> c.badPan,
   phoneSeen   |-> v.phoneSeen,
   blacklisted |-> v.listed,
   hasIp       |-> c.ip # None,
   ipCount     |-> v.ipCount]

Verdict(table, fired) ==
  [status   |-> "completed",
   score    |-> Score(table, fired),
   decision |-> MakeDecision(Score(table, fired)),
   fired    |-> fired]

\* The row that a table of rules makes of a call and what was read for it.
Judge(table, c, v) == Verdict(table, Fired(table, KeyOrg[c.key], SignalsOf(c, v)))

\* Steps 7 to 10: load the rules, evaluate, decide, flush result and status.
Decide(r) ==
  /\ Goto(r, "decide", "count")
  /\ draft' = [draft EXCEPT ![r] = Judge(rules, call[r], view[r])]
  /\ UNCHANGED <<call, view, ledger, outcome, dbVars, redisVars, audit>>

\* Mutants: an error of Redis is swallowed, as "fire-and-forget" would have it;
\* SET 1 in place of INCR.
UpdateCountersBestEffort(r) ==
  /\ Goto(r, "count", "dispatch")
  /\ \/ hits' = [c \in Counter |->
                   IF c \in CountersOf(call[r]) THEN hits[c] \cup {r} ELSE hits[c]]
     \/ hits' = hits
  /\ UNCHANGED <<call, view, draft, ledger, outcome, dbVars, blacklist, gone, audit>>

UpdateCountersBySet(r) ==
  /\ Goto(r, "count", "dispatch")
  /\ hits' = [c \in Counter |-> IF c \in CountersOf(call[r]) THEN {r} ELSE hits[c]]
  /\ UNCHANGED <<call, view, draft, ledger, outcome, dbVars, blacklist, gone, audit>>

\* One MULTI/EXEC: both counters or neither.
UpdateRedisCounters(r) ==
  /\ Goto(r, "count", "dispatch")
  /\ hits' = [c \in Counter |->
                IF c \in CountersOf(call[r]) THEN hits[c] \cup {r} ELSE hits[c]]
  /\ UNCHANGED <<call, view, draft, ledger, outcome, dbVars, blacklist, gone, audit>>

\* Mutant: the audit message evaluates the rules again.
DispatchAuditAnew(r) ==
  /\ Goto(r, "dispatch", "commit")
  /\ audit' = audit \cup {[id |-> r, decision |-> Judge(rules, call[r], view[r]).decision]}
  /\ UNCHANGED <<call, view, draft, ledger, outcome, dbVars, redisVars>>

\* write_audit_log_task.delay, in a try: the broker may refuse it unnoticed.
DispatchAudit(r) ==
  /\ Goto(r, "dispatch", "commit")
  /\ \/ audit' = audit \cup {[id |-> r, decision |-> draft[r].decision]}
     \/ audit' = audit
  /\ UNCHANGED <<call, view, draft, ledger, outcome, dbVars, redisVars>>

---------------------------------------------------------------------------
\* Mutants: the answer is sent before a COMMIT that may fail; the row lock is
\* not released.
AnswerThenCommit(r) ==
  /\ Goto(r, "commit", "done")
  /\ \E row \in {draft[r], NoRow} : ledger' = [ledger EXCEPT ![r] = row]
  /\ draft' = [draft EXCEPT ![r] = NoRow]
  /\ holder' = [holder EXCEPT ![KeyOf(r)] = None]
  /\ outcome' = [outcome EXCEPT ![r] = "2xx"]
  /\ UNCHANGED <<call, view, keyState, revoking, orgActive, rules, redisVars, audit>>

CommitKeepingLock(r) ==
  /\ Goto(r, "commit", "done")
  /\ ledger' = [ledger EXCEPT ![r] = draft[r]]
  /\ draft' = [draft EXCEPT ![r] = NoRow]
  /\ outcome' = [outcome EXCEPT ![r] = "2xx"]
  /\ UNCHANGED <<call, view, dbVars, redisVars, audit>>

\* The end of get_db on success.  The COMMIT may take effect and its answer
\* be lost, or the process die before it has answered.
Commit(r) ==
  /\ Goto(r, "commit", "done")
  /\ ledger' = [ledger EXCEPT ![r] = draft[r]]
  /\ draft' = [draft EXCEPT ![r] = NoRow]
  /\ holder' = [holder EXCEPT ![KeyOf(r)] = None]
  /\ \E status \in {"2xx", "500"} : outcome' = [outcome EXCEPT ![r] = status]
  /\ UNCHANGED <<call, view, keyState, revoking, orgActive, rules, redisVars, audit>>

\* An await raises (database or Redis error, pool timeout), the worker process
\* dies, or GET /verify/{id} finds no verification of its organization: in every
\* case the database rolls the transaction back.
Fail(r) ==
  /\ \/ pc[r] \notin {"new", "done"} /\ Rollback(r, "500")
     \/ pc[r] = "query" /\ Rollback(r, "404")
  /\ UNCHANGED <<call, ledger, keyState, revoking, orgActive, rules,
                 redisVars, audit>>

Step(r) ==
  \/ RejectKey(r) \/ LookupKey(r) \/ TouchKey(r) \/ RejectOrg(r) \/ Query(r)
  \/ InsertRequest(r) \/ CheckPhoneSeen(r) \/ CheckDeviceBlacklisted(r)
  \/ GetIpVelocity(r) \/ Decide(r) \/ UpdateRedisCounters(r)
  \/ DispatchAudit(r) \/ Commit(r)

(***************************************************************************)
(* API-key administration.  revoke_key reads the row, updates it under its *)
(* lock, commits.  A failed revocation changes nothing.                    *)
(***************************************************************************)
CreateKey(k) ==
  /\ keyState[k] = "absent"
  /\ keyState' = [keyState EXCEPT ![k] = "active"]
  /\ UNCHANGED <<pc, call, view, draft, ledger, outcome, holder, revoking,
                 orgActive, rules, redisVars, audit>>

RevokeRead(k) ==
  /\ revoking[k] = "no" /\ keyState[k] = "active"
  /\ Connections < PoolSize
  /\ revoking' = [revoking EXCEPT ![k] = "read"]
  /\ UNCHANGED <<pc, call, view, draft, ledger, outcome, keyState, holder,
                 orgActive, rules, redisVars, audit>>

\* Mutant: the revocation does not wait for the row lock.
RevokeUpdateAtOnce(k) ==
  /\ revoking[k] = "read"
  /\ revoking' = [revoking EXCEPT ![k] = "locked"]
  /\ holder' = [holder EXCEPT ![k] = Admin]
  /\ UNCHANGED <<pc, call, view, draft, ledger, outcome, keyState,
                 orgActive, rules, redisVars, audit>>

RevokeUpdate(k) ==
  /\ revoking[k] = "read" /\ holder[k] = None
  /\ revoking' = [revoking EXCEPT ![k] = "locked"]
  /\ holder' = [holder EXCEPT ![k] = Admin]
  /\ UNCHANGED <<pc, call, view, draft, ledger, outcome, keyState,
                 orgActive, rules, redisVars, audit>>

RevokeCommit(k) ==
  /\ revoking[k] = "locked"
  /\ revoking' = [revoking EXCEPT ![k] = "done"]
  /\ holder' = [holder EXCEPT ![k] = None]
  /\ keyState' = [keyState EXCEPT ![k] = "revoked"]
  /\ UNCHANGED <<pc, call, view, draft, ledger, outcome, orgActive, rules,
                 redisVars, audit>>

\* Mutant: a failed revocation frees a lock it may not hold.
RevokeFailFreeing(k) ==
  /\ revoking[k] \in {"read", "locked"}
  /\ revoking' = [revoking EXCEPT ![k] = "no"]
  /\ holder' = [holder EXCEPT ![k] = None]
  /\ UNCHANGED <<pc, call, view, draft, ledger, outcome, keyState, orgActive,
                 rules, redisVars, audit>>

RevokeFail(k) ==
  /\ revoking[k] \in {"read", "locked"}
  /\ revoking' = [revoking EXCEPT ![k] = "no"]
  /\ holder' = [holder EXCEPT ![k] = IF @ = Admin THEN None ELSE @]
  /\ UNCHANGED <<pc, call, view, draft, ledger, outcome, keyState, orgActive,
                 rules, redisVars, audit>>

---------------------------------------------------------------------------
\* deactivate_org: no lock of it conflicts with those of a verification.
DeactivateOrg(o) ==
  /\ orgActive[o]
  /\ orgActive' = [orgActive EXCEPT ![o] = FALSE]
  /\ UNCHANGED <<pc, call, view, draft, ledger, outcome, keyState, holder,
                 revoking, rules, redisVars, audit>>

\* A transaction of the rule administration commits a change to one rule.
\* No update changes the owner or the name of a rule.
ChangeRule(id) ==
  /\ \E table \in RuleTable :
       /\ \A i \in RuleId : i # id => table[i] = rules[i]
       /\ table[id].owner = rules[id].owner /\ table[id].kind = rules[id].kind
       /\ table # rules
       /\ rules' = table
  /\ UNCHANGED <<pc, call, view, draft, ledger, outcome, keyState, holder,
                 revoking, orgActive, redisVars, audit>>

\* Outside the program: an operator blacklists a device.
BlacklistDevice(d) ==
  /\ d \notin blacklist
  /\ blacklist' = blacklist \cup {d}
  /\ UNCHANGED <<pc, call, view, draft, ledger, outcome, dbVars, hits, gone, audit>>

\* Redis drops a counter: its time to live ran out, or it was evicted.
Expire(c) ==
  /\ hits[c] # {}
  /\ hits' = [hits EXCEPT ![c] = {}]
  /\ gone' = [gone EXCEPT ![c] = @ \cup hits[c]]
  /\ UNCHANGED <<pc, call, view, draft, ledger, outcome, dbVars, blacklist, audit>>

Next ==
  \/ \E r \in Req : Receive(r) \/ Step(r) \/ Fail(r)
  \/ \E k \in Key : CreateKey(k) \/ RevokeRead(k) \/ RevokeUpdate(k)
                     \/ RevokeCommit(k) \/ RevokeFail(k)
  \/ \E o \in Org : DeactivateOrg(o)
  \/ \E id \in RuleId : ChangeRule(id)
  \/ \E d \in Device : BlacklistDevice(d)
  \/ \E c \in Counter : Expire(c)

\* The steps that wait for a connection or for a row lock.
Wait(r) == RejectKey(r) \/ LookupKey(r) \/ TouchKey(r) \/ RejectOrg(r)

\* The event loop resumes every handler whose await is over, PostgreSQL and
\* Redis answer.  The pool and PostgreSQL's row locks queue their waiters first
\* come first served, so a waiter is not passed over for ever.  Nothing is
\* assumed of clients, administrators or failures.
Fairness ==
  /\ \A r \in Req : WF_vars(Step(r)) /\ SF_vars(Wait(r))
  /\ \A k \in Key : SF_vars(RevokeUpdate(k)) /\ WF_vars(RevokeCommit(k))

Spec == Init /\ [][Next]_vars /\ Fairness

---------------------------------------------------------------------------
TypeOK ==
  /\ pc \in [Req -> PC]
  /\ call \in [Req -> Call]
  /\ view \in [Req -> View]
  /\ draft \in [Req -> Row]
  /\ ledger \in [Req -> Row]
  /\ outcome \in [Req -> {"none", "2xx", "401", "403", "404", "500"}]
  /\ keyState \in [Key -> {"absent", "active", "revoked"}]
  /\ holder \in [Key -> Req \cup {Admin, None}]
  /\ revoking \in [Key -> {"no", "read", "locked", "done"}]
  /\ orgActive \in [Org -> BOOLEAN]
  /\ rules \in RuleTable
  /\ blacklist \subseteq Device
  /\ hits \in [Counter -> SUBSET Req]
  /\ gone \in [Counter -> SUBSET Req]
  /\ audit \subseteq [id : Req, decision : Decision]

\* Requests that recorded a verification with key k and whose INCR of
\* counter c has not expired.
Remembered(k, c) ==
  {r \in Req : Committed(r) /\ KeyOf(r) = k /\ c \in CountersOf(call[r])
               /\ r \notin gone[c]}

\* The row lock that update_last_used takes is held to the end of the
\* transaction: two requests with one key are never both past it, and a
\* revocation of the key is never in progress next to one.
KeyExclusion ==
  \A r \in Req : pc[r] \in Locked =>
    /\ revoking[KeyOf(r)] # "locked"
    /\ \A s \in Req : pc[s] \in Locked /\ KeyOf(s) = KeyOf(r) => s = r

\* What a reader can see of a verification is all of it: the request row and
\* its result are committed together, so the PENDING fallback of the GET
\* endpoints is never shown, and the decision is the one of the score.
NoPendingSeen ==
  \A r \in Req, o \in Org : \A row \in VerificationDetail(r, o) :
    row.status = "completed" /\ row.decision = MakeDecision(row.score)

\* A score of one organization never contains a rule of another, whatever
\* rule changes commit while the request is in flight.
OwnRulesOnly ==
  \A r \in Req : Committed(r) =>
    \A id \in ledger[r].fired : rules[id].owner \in {Global, OrgOf(r)}

\* A 2xx answer to a submission means the row is recorded; a 401 or 403 means none.
\* A 500 may mean either, which is why a retry can be a second verification.
AnswerMatchesLedger ==
  \A r \in Req :
    /\ outcome[r] = "2xx" => (Committed(r) <=> call[r].op = "submit")
    /\ Committed(r) => outcome[r] \in {"2xx", "500"}

\* Whatever has been recorded, or announced to the audit queue, has been
\* counted first: its INCR is in the counter or has expired with it.  The
\* comment at verification_service.py:101 calls the update "fire-and-forget
\* style"; the call is awaited and nothing catches its error, so that a
\* failure of Redis there fails the request and rolls the row back.  The
\* property is about that code, and UpdateCountersBestEffort, which does what
\* the comment says, violates it.
RecordedIsCounted ==
  \A r \in Req :
    Committed(r) \/ (\E m \in audit : m.id = r) =>
      \A c \in CountersOf(call[r]) : r \in hits[c] \cup gone[c]

\* An audit message about a recorded verification carries its decision.  (A
\* message may also be about one that was rolled back after it was sent.)
AuditAgrees ==
  \A m \in audit : Committed(m.id) => m.decision = ledger[m.id].decision

\* The phone check catches every reuse within a key: of the verifications
\* recorded with one key and one phone, and still counted, at most one was
\* told that the phone is new.  It needs the counters updated before the
\* row lock is released.
ReuseSeenPerKey ==
  \A k \in Key, p \in Phone : \A r, s \in Remembered(k, p) :
    ~view[r].phoneSeen /\ ~view[s].phoneSeen => r = s

\* The velocity check counts exactly within a key: for every threshold n, at
\* most n of the recorded, still counted verifications of one key and one IP
\* saw fewer than n before them.
VelocityCap ==
  \A k \in Key, i \in Ip : \A n \in 0 .. Cardinality(Req) :
    Cardinality({r \in Remembered(k, i) : view[r].ipCount < n}) <= n

\* When a revocation commits, no request of the key is past the row lock:
\* revoke_key waits for the verifications in flight.
RevocationDrains ==
  [][\A k \in Key : keyState[k] # "revoked" /\ keyState'[k] = "revoked" =>
       \A r \in Req : KeyOf(r) = k => pc[r] \notin Locked]_vars

\* The key of r was revoked, or its organization deactivated.
Closed(r) == keyState[KeyOf(r)] = "revoked" \/ ~orgActive[OrgOf(r)]

\* A request not yet authenticated when its key is revoked or its
\* organization deactivated never records anything.
LateRequestsRefused ==
  \A r \in Req :
    [](pc[r] \in {"new", "auth"} /\ Closed(r) => []~Committed(r))

---------------------------------------------------------------------------
\* The refinement: where a request stands, what it may be told, and the rows
\* that any content of the rules makes of that.
Standing(r) ==
  CASE pc[r] \in {"new", "auth"} -> "outside"
    [] pc[r] = "touch" -> IF view[r].orgOk THEN "admitted" ELSE "outside"
    [] pc[r] \in Locked -> "admitted"
    [] pc[r] = "done" -> IF Committed(r) THEN "recorded" ELSE "ended"

Sight == [orgOk : BOOLEAN, phoneSeen : BOOLEAN, listed : BOOLEAN,
          ipCount : 0 .. Cardinality(Req)]

Judgements(c, v) == {Judge(table, c, v) : table \in RuleTable}

Log == INSTANCE VerificationLog WITH
         standing <- [r \in Req |-> Standing(r)],
         closed   <- {r \in Req : Closed(r)},
         seen     <- [r \in Req |-> IF Committed(r) THEN view[r] ELSE EmptyView],
         NoSight  <- EmptyView

\* However requests interleave and fail, those that are recorded are so in one
\* instant, the COMMIT: with a verdict on what they were told, and told of all
\* that their key had recorded before.  None is admitted once it is closed out.
LogSpec == Log!Spec

---------------------------------------------------------------------------
\* Every request that arrives is answered: no wait for the row lock or for a
\* connection lasts for ever.
Answered == \A r \in Req : pc[r] = "auth" ~> pc[r] = "done"

\* A revocation under way ends: verifications cannot starve it.
RevocationEnds ==
  \A k \in Key : revoking[k] = "read" ~> revoking[k] \in {"done", "no"}
=============================================================================
