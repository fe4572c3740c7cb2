# VeriTrust in TLA+

VeriTrust is an identity-verification service: a FastAPI application over
PostgreSQL and Redis, with a Celery queue for audit records and a one-page web
client. This directory holds TLA+ models of its stateful core, TLC
configurations that check them on small instances, and TLAPS proofs of the
properties that matter most. Paths below are relative to `src/`.

## 1. The system

| Component | State it keeps | Operations | Modelled in |
|---|---|---|---|
| Fraud rule engine `app/services/fraud_service.py` | none | select, trigger, sum, clamp, decide; `simulate` | `FraudEngine` |
| Verification pipeline `app/services/verification_service.py` | `verification_requests`, `verification_results`; Redis `vt:phone:*`, `vt:ip_velocity:*` | `submit`, `get_verification`, `get_history` | `VerificationPipeline`, `VerificationLog` |
| API-key authentication `app/core/dependencies.py` | `api_keys.last_used_at` and its row lock | `get_api_key_org` | `VerificationPipeline` |
| API-key administration `app/services/api_key_service.py` | `api_keys.is_active` | `create_key`, `revoke_key` | `VerificationPipeline` |
| Rule administration `fraud_service.py` | `fraud_rules` | create, update, delete | `RulesAdmin`; committed effect, `VerificationPipeline` |
| Sessions and pool `app/db/session.py`, `base.py` | one transaction per request, 10 + 20 connections | commit, rollback | `VerificationPipeline`, `AuthSession`, `Accounts` |
| Authentication `app/services/auth_service.py` | `refresh_tokens`, `users` | `login`, `refresh`, `logout`; `register` | `AuthSession`, `TokenForest`; `Accounts` |
| Rate limiter `app/middleware/rate_limit_middleware.py` | Redis `vt:rl:*` | `dispatch` | `RateLimiter` |
| Organizations `app/services/organization_service.py` | `organizations` | create, update, deactivate | `Accounts`, `Registry` (create); `VerificationPipeline` (deactivate) |
| Audit delivery `app/middleware/audit_middleware.py`, `app/workers/` | broker queue, `audit_logs` | `write_audit_log_task` | `AuditTrail`; the pipeline's message, `VerificationPipeline` |
| Dashboard and lists `app/services/dashboard_service.py`, `app/repositories/base_repository.py` | none | several SELECTs per answer, page after page | `Reports` |
| Users, health | none | single reads | no |
| Web client `ui/index.html` | token pair in `localStorage` | `apiFetch`, `doTokenRefresh`, `doLogin`, `doLogout`, reload | `PageSession` over `TokenForest` |
| Error answers `app/core/exceptions.py`, `app/main.py` | none | which exceptions are answered inside the middlewares | `AuditTrail` |
| Validators, security, configuration, logging, AWS | none | pure functions, I/O | no |

How they interact. A request passes the rate limiter (Redis only), then the
router. One database session serves the whole request, dependency and handler
alike; `get_db` commits when the handler returns and rolls back when it raises.
A verification authenticates its API key, which *updates* the key's row and so
holds its lock to the end of the transaction; it reads Redis, loads the rules,
writes its result, increments the Redis counters outside the transaction, hands
an audit message to the broker, and only then commits. Revocations, rule changes
and organization changes are transactions of other requests on the same rows.

What is hard here:

* **Interleaving.** Each `await` lets other requests run, and several worker
  processes share the database. The phone and velocity checks are a
  read-decide-increment pattern on shared counters; refresh is a
  read-check-update pattern on one row.
* **Atomicity across stores.** Redis and the broker are not part of the
  transaction. A rollback undoes neither an increment nor a message.
* **Exceptions as control flow.** An exception rolls back what the same handler
  wrote, on purpose or not.
* **Waiting.** Requests of one key queue for its row lock while each holds a
  pool connection; a revocation queues with them.
* **Loss.** A Redis reply, a commit's answer, a broker's confirmation or the HTTP
  answer may be lost after the effect took place. The broker gives a message that is
  not acknowledged to another process, whether its own has died or goes on with it.
* **Late answers.** The page's calls overlap, its tabs share `localStorage`, and an
  answer that arrives late acts on whatever the page holds by then.

What makes each part correct:

* *Rule engine*: total between 0 and 100, the decision is a function of it, only
  the organization's own and the global rules contribute.
* *Pipeline*: a reader never sees a half-written verification; the answer agrees
  with what is recorded; what is recorded is counted; the reuse and velocity
  checks count exactly within a key.
* *Keys*: requests that start after a revocation are refused, a revocation waits
  for those in flight and is not starved by them.
* *Sessions*: rotation is all or nothing, a spent token or a deactivated account
  gets nothing, a client never holds a token the server does not have.
* *Registration*: an address gets one account and a name its first free slug,
  whatever overlaps; every organization has an owner who exists.
* *Rate limiter*: no more than the limit by count in one life of the counter,
  whatever the interleaving, nobody refused for less, and refusals end.
* *Audit*: every response is recorded, or it is known why not; a duplicate has a
  cause.
* *Rule administration*: a commit changes what its own request asked for, and an
  update's answer is true.
* *Dashboard and lists*: the figures of one answer may be of different instants,
  but in a known order; who reads every page misses no old row.
* *Web client*: what a reload signs in with is not spent for good; a refresh is
  refused only for a cause that can be named.

The hazards of the code, each at its line, are in `PROJECT.json`.

## 2. Modules

```
FraudEngine ─(used by)─ VerificationPipeline ──── MCVerificationPipeline      (TLC)
VerificationLog ◄─(refines)─┘          └───────── VerificationPipelineProofs  (TLAPS)

TokenForest ◄─(refines)─ AuthSession ──── MCAuthSession             (TLC)
                              └─────────── AuthSessionProofs        (TLAPS)

Registry ◄─(refines)─ Accounts ──── MCAccounts                      (TLC)
                          └───────── AccountsProofs                 (TLAPS)

RateLimiter ──── MCRateLimiter (TLC),  RateLimiterProofs (TLAPS)
AuditTrail ───── MCAuditTrail (TLC),   AuditTrailProofs (TLAPS)
RulesAdmin ───── MCRulesAdmin (TLC),   RulesAdminProofs (TLAPS)
Reports ──────── MCReports (TLC),      ReportsProofs (TLAPS)

TokenForest ◄─(uses)─ PageSession ──── MCPageSession                (TLC)
                           └─────────── PageSessionProofs           (TLAPS)
```

**FraudEngine.** Operators only. A rule's `(rule_type, rule_name)` is its kind:
the five pairs that can trigger, and `other` for those the engine ignores
(unknown types, and the geo rule, which is a stub). The text tests of
`validators.py` are Booleans of the request. `Points` sums the impacts as the
cardinality of a set of pairs, so that it needs no recursion and the library's
finite-set theorems apply.

**VerificationPipeline.** A request is a process whose `pc` names the statement
it will run next; an action runs from one `await` to the next.

| Actions | Code |
|---|---|
| `Receive` | the three routes of `app/api/v1/verification.py` |
| `RejectKey`, `LookupKey`, `TouchKey`, `RejectOrg` | `get_api_key_org`: SELECT, UPDATE of `last_used_at`, organization test on what the SELECT read |
| `InsertRequest`, `CheckPhoneSeen`, `CheckDeviceBlacklisted`, `GetIpVelocity`, `Decide`, `UpdateRedisCounters`, `DispatchAudit` | the ten steps of `submit` |
| `Query` | the two GET handlers |
| `Commit`, `Fail` | the two exits of `get_db`; a commit may take effect and its answer be lost, and `Fail` is also a dead worker and the 404 of a GET |
| `CreateKey`, `RevokeRead`, `RevokeUpdate`, `RevokeCommit`, `RevokeFail` | `APIKeyService` |
| `DeactivateOrg`, `ChangeRule` | committed effects of the administration endpoints |
| `BlacklistDevice`, `Expire` | external: an operator, and Redis' expiry or eviction |

`draft` is what an open transaction has written and nobody else sees; `ledger`
is what is committed. `holder` is PostgreSQL's row lock on each key. A Redis
counter is the *set* of requests whose INCR it holds: its value is the set's
size, and `gone` remembers those lost by expiry, so that properties can say
"counted unless expired". Other statements (inserts, the foreign-key locks, the
UPDATE of an organization) take no lock that conflicts with these.

**VerificationLog.** What a verification promises when it is an instant: a request
is admitted while its key and organization are open, and is recorded, if at all, in
one step, with a row that some content of the rules makes of its payload and its
*sight*, that is, what it was told of the phone and the address. The sight misses no
verification recorded earlier with the same key that Redis still counts, and counts
nobody but other requests past authentication. Those are the bounds the code keeps
and no narrower ones: across keys, or against requests that were counted and then
failed, a sight may be off either way. `VerificationPipeline` implements it:
admission is `LookupKey`, recording is `Commit`, and `Standing` reads the rest off
`pc` and the ledger.

**AuthSession.** The same for `login`, `refresh` and `logout`. An UPDATE takes
the token's row lock and writes `is_revoked` at commit; `Revoke` does not look at
`is_revoked` again after its wait, as the code does not. A family is named by the
token of its login. `known` is the set of tokens clients have received: `Commit`
may lose its answer.

**TokenForest.** What the store promises when every request is an instant: trees
of tokens, planted by a login, extended by a rotation that spends the parent in
the same instant, cut by a logout. `Fork` is the one liberty the code takes
(two overlapping refreshes of one token), stated as an action of its own so
that the refinement shows it to be the only one.

**Accounts.** `register` and `create_org` as transactions: `CheckEmail` or
`RejectEmail`; `_unique_slug` one `get_by_slug` at a time (`TakeSlug`,
`TrySuffix`); `InsertOrg` with the random placeholder owner (`Somebody`),
`InsertUser`, `SetOwner`; `Commit` and `Fail` as above. The two INSERTs wait at
the UNIQUE index while another open transaction has inserted the same value, and
fail (`DuplicateSlug`, `DuplicateEmail`) when it has committed. A name is its
sequence of candidate slugs, so that "Acme" with a suffix and "Acme 1" can
collide; addresses have several spellings and one lower-case form. The tokens a
registration issues are those of a login in `AuthSession`.

**Registry.** What registration promises when every request is an instant: one
account per address, and for each organization the first candidate slug that is
free at that instant. `Accounts` implements it at `Commit`: nothing weaker is
needed, because organizations are never removed.

**RateLimiter.** INCR, EXPIRE and the comparison are three steps. A failed Redis
call may or may not have been executed. `dropped` remembers the counters whose
EXPIRE never was. Time is `Tick`; `age` is how long ago a request was counted, up
to `Window`, which is all the properties need.

**AuditTrail.** Requests on one side: `Receive`, `Answer`, `Raise`, and the two
senders, `Announce` (`submit`) and `DispatchAudit` (`AuditMiddleware`). `Delay` is
`write_audit_log_task.delay`: the message is pushed, pushed twice (the broker
executed a push whose reply was lost), or refused, and the caller never knows.
The worker's processes on the other side: `Take`, `Write`, `Ack`, and `FailTask`,
after whose COMMIT a row may or may not be there; no code calls `retry`, so
`max_retries` changes nothing, and a failed task is acknowledged. `ready` counts the
copies of a message that wait. A message that is not acknowledged goes back to the
queue in two ways: the container dies (`Die`), or the visibility timeout passes or
the connection is lost while the process goes on (`Lapse`), which then writes its
row and acknowledges a delivery the broker no longer knows (`lapsed`); `returned`
remembers how often. `Crash` is the death of an API process, which cuts off whoever it
serves. An unhandled exception (`Raise`) passes through `AuditMiddleware` and is
answered outside of it. `Served` is what the worker's command line makes it consume.

**RulesAdmin.** Create, update and delete as transactions of several requests on
the same rows. `update_rule` reads without a lock, tests the owner, and flushes
the fields that differ from what it *loaded* (`Dirty`); a flush with nothing to
write takes no lock (`SkipUpdate`). The UPDATE or DELETE waits for the row's lock
and works on the row as last committed; one that finds no row fails
(`UpdateGone`), or, for a DELETE, only warns. `Refresh` is `db.refresh`: the answer
shows the row and not the wish. `versions` are the contents of the rule since a
request read it.

**Reports.** A dashboard answer is a few SELECTs at READ COMMITTED; the model keeps
the *set of rows* each has seen, and the figures are functions of these sets. A
client of a list counts and lists a page per request. Rows become visible in any
order, and `Created` is the time they carry. The list of `/users` has a first page
only in the page's use, and is left out.

**PageSession.** `apiFetch` call by call: `Begin`, `Finish` or `Refresh` (a 401),
the server's side (`Rotate`, `Refuse`, `FailRefresh`), what the page makes of the
answer (`Store`, `Fall`, `GiveUp` when its body breaks off), `Retry`. Tabs keep
tokens in memory and share `localStorage`, which they read when they load
(`Reload`). A call whose tab is gone is `adrift`: its refresh is still served. The
store is `TokenForest`, which `AuthSession` implements, so that one step stands
for a whole request; a token found spent is renewed (`Fork`) only for a refresh
that overlapped the one that spent it, the liberty `AuthSession` takes. An access
token is named by its refresh token, as the page gets, keeps and drops the two
together, and may be answered 401 at any time. A sign-in is allowed at any time
too: sign-out and sign-in reach the same states. The page never calls
`/auth/logout`, so its tokens stay live. A refresh is refused for a token that is
spent or expired or whose account is deactivated; in the last case the exception
rolls the rotation back and the token stays live. No code in `src/` deactivates an
account, so `Deactivate` is external: it bars all tokens of one sign-in or of several.

Operators introduced by a `Mutant:` comment are not part of any specification:
each is a plausible wrong version of the definition after it, kept so that every
checked property can be shown to notice a bug.

## 3. Runs

| Run | Question | Result |
|---|---|---|
| `PipelineCounters` | Do the Redis checks count exactly within a key, and does the pipeline implement the log of instants? | holds |
| `PipelineRows` | Do rows, answers, audit messages and rules agree while keys, organizations, rules and the blacklist change, are late requests refused, and is everyone answered? | holds |
| `AuthTokens` | Is rotation atomic and the store a token forest, are spent tokens and deactivated accounts refused, and is everyone answered? | holds |
| `AuthReuse` | Does a reused token revoke its family (`auth_service.py:95`)? | violated |
| `AccountsRaces` | Do overlapping registrations behave like a registry, with true answers, existing owners and an answer for all? | holds |
| `RateWindow` | Does one life of a counter admit at most the limit and refuse nobody for less, and do refusals end unless the EXPIRE is lost? | holds |
| `AuditDelivery` | Does a worker that serves the queue lose nothing, and is every response accounted for? | holds |
| `AuditAsDeployed` | Is every call audited (`audit_middleware.py:2`) by the worker of `docker-compose.yml`? | violated |
| `RulesOverlap` | Do overlapping changes of a rule do what they were asked, are answers true, does everyone get one? | holds |
| `RulesGlobal` | Are updates of rules org-scoped only (`api/v1/fraud.py:53`)? | violated |
| `ReportsReads` | How far may the figures of one answer disagree, and which rows may a reader of pages miss? | holds |
| `PageTabs` | Can late answers and other tabs leave a spent token in the browser, and why is a refresh refused? | holds, with the causes named |

What the violations show:

* **Reuse detection does nothing.** `refresh` revokes the family and raises;
  `get_db` rolls the revocation back. The stolen family stays live.
* **Nothing is audited as deployed.** Messages are routed to the queue `audit`
  (`celery_app.py:26`, `tasks.py:20`), and the worker of `docker-compose.yml:70` is
  started without `-Q`, so it consumes Celery's default queue only.
* **Global rules are anybody's.** `fraud_service.py:155` tests the owner of a rule only
  if it has one, so that any organization may update a rule that counts for all. The
  endpoint's docstring says "org-scoped only", `delete_rule` tests the owner always, and
  the page has a text for a server that refuses (`ui/index.html:2137`).

What the passing runs show besides, as the exceptions their properties name:

* One refresh token can be used twice when the two requests overlap
  (`TokenForest`'s `Fork`): the second waits for the row lock and then revokes and
  issues without re-reading. `test_auth_endpoints.py:93` tests one after another.
* A revoked key still serves the requests that wait behind the revocation, and no
  later ones (`RevocationDrains`, `LateRequestsRefused`).
* Two organizations of one name at one time make the second request fail with a
  500, as the suffix is chosen before the INSERT. Nothing wrong is stored
  (`RegistrySpec`).
* The rate limiter is a fixed window. Its comments say otherwise
  (`rate_limit_middleware.py:2`, `:20` and `:52` speak of a sliding window), and twice
  the limit may pass in sixty seconds around the edge of two windows. No run checks
  a figure for a sliding window; that it is twice the limit and not more is a
  theorem (`BurstCapHolds`). `README.md:89` calls the address counter a sliding window
  as well: it is a plain counter whose time to live each verification renews.
  A lost EXPIRE locks a client out until Redis loses the key (`Recovers` excepts
  `dropped`).
* An unhandled exception leaves no audit record; `ResponsesAudited` is about the
  responses the middleware gets to see, and of these excepts the ones whose process
  dies before it sends the record. A record is doubled by a repeated push and by a
  message the broker gives back, after a death of the container or a lost
  connection or a passed timeout (`RowsExplained`). The middleware's rows carry
  no organization, since nothing sets `request.state.org_id`, and so no
  organization is shown them by `GET /audit`.
* Two administrators who change different fields of a rule both succeed. A value
  equal to the one loaded is not written, so that it may be another when the answer
  arrives (`UpdatesAreTrue` says "at an instant of the request").
* A page read may miss an old row only if another commits between the count and the
  list of its last page (`late`). The daily average is the mean of the means per
  decision.
* Two calls that get a 401 together both refresh with one token, and the loser signs
  the page out, as does a tab that holds what another one has spent (`shared`).
  A late answer after a new sign-in replaces or clears it.
* `RefusedForCause` is about refusals. A refresh that gets a 429, a 500 or no
  connection signs the page out as well (`FailRefresh`, then `Fall`:
  `ui/index.html:1326-1328`), with a token that is still good, and even if calls are
  made one at a time.

What the passing pipeline runs also show: the UPDATE of `last_used_at`, called
non-blocking at `dependencies.py:131`, holds the key's row lock until the commit,
so that verifications of one key run one at a time (`KeyExclusion`). The phone and
velocity checks are exact *within* a key (`ReuseSeenPerKey`, `VelocityCap`) by this
accident only, and not across two keys, although the counters are shared by all
organizations. `LogSpec` puts the two halves together: a verification is as good as
one made in an instant, at its commit, by somebody who knows all that its key has
recorded. Its mutant is a `TouchKey` that waits for nobody, which is what the comment
"non-blocking" describes: then two requests of one key each miss the other. A
half-written verification is excluded by the same property, since all that the
log ever holds are judgements.

The comment at `verification_service.py:101` calls the counter update "fire-and-forget
style". It is nothing of the kind: the call is awaited, nothing catches its error, and a Redis that fails there makes the request fail with
500 and rolls the verification back. `RecordedIsCounted` holds because of that, and so do
`ReuseSeenPerKey`, `VelocityCap` and `LogSpec`, which need every recorded verification to be
counted. An update that is what the comment says is the operator
`UpdateCountersBestEffort`, with which `RecordedIsCounted` is violated: whoever brings
the code in line with its comment gives these properties up.

Bounds. `PipelineCounters` has three requests, one key, one phone and one address:
two are needed for a lost update, the third to see a count above one, and any
further request repeats these roles. Two connections for three requests make the
pool a real bound. `PipelineRows` has two requests, of which one may read the
other's row, a second organization that owns a rule, rules whose impacts sum to
more than 100, a key created after the start, and two connections for two requests
and a revocation. It has no phone and no address, on which none of its properties
depends and which `PipelineCounters` is about, so that TLC can check liveness without
symmetry.
`AuthTokens` has three requests of one account, so that a login and two overlapping
refreshes (or a refresh and a logout) fit in one behaviour; as many tokens as
requests are never exhausted, since a request draws at most one. Users do not
interact, so one is enough, and what a fourth request could add is covered by the
proofs. `AccountsRaces` has three requests, one address in two spellings and two
names whose candidates overlap: two for a race, the third to find the suffix of
the first taken as well. Three suffixes are more than three requests can take. `RateWindow` admits one of four
requests per window of two ticks: three windows have room to touch, and a request
of each to be counted late. `AuditDelivery` has a verification with its two messages
of two copies each, on two worker processes, and the broker gives each of them back
once (`MaxReturns`): that is enough for two processes to hold one message, for a late
acknowledgement after the other's row and for one before it. Requests do not
interact. `RulesGlobal` has one administrator and a rule. `RulesOverlap` has three
administrators with five possible calls: two that overlap on one rule and a third
that deletes it or is passed by, a global rule and one of an organization, a rule
that does not exist yet; two fields show lost updates, two values suffice to tell
them. `ReportsReads` has five rows and pages of two: a last page that is not full,
and rows that push others across two page borders. `PageTabs` has two tabs, two
calls and three tokens (`N`): a login, a rotation and a fork or a second login; one
token may expire or one sign-in be of a deactivated account (`MaxEnded`). Calls are used again, so behaviours are unbounded
up to the tokens; tabs and calls are symmetric, and no liveness is checked there.

Requests are finite because each is sent at most once; a retry is another request.
No other counter needs a bound. Deadlock is not checked where every request may be
done; the rate limiter never stops, because time passes, nor does the page.

Fairness. Weak fairness of a handler's steps says that the event loop resumes a
handler whose await is over and that PostgreSQL and Redis answer or raise. The
steps that wait (for a connection or a row lock) are strongly fair, because
SQLAlchemy's pool and PostgreSQL's row locks serve their waiters in turn: with
weak fairness alone a stream of other requests could pass a waiter by. `Tick` is
weakly fair. The steps of `RulesAdmin` are fair in the same way, those that wait for a
row strongly. In `AuditTrail` an idle worker process takes work from a queue it
serves and ends every task (weak fairness of `Work`), and the broker gives no message
back more than `MaxReturns` times, which bounds deaths and lost connections. `Reports`
and `PageSession` assume no fairness. Nothing is assumed about clients,
administrators, expiry or failures.

Each mutant of `PROJECT.json` replaces one definition by its wrong version and
makes TLC find the named property violated in the same run.

## 4. Proofs

The proofs hold for any number of requests, keys, tokens, rules and clients, any
payloads and any pool size, under the named ASSUMEs of the modules (finite `Req`,
`None` and `Admin` distinct from the rest, rules of the schema's type).

*VerificationPipelineProofs* begins with the rule engine: types of score and decision,
and `Points` is monotone. From it follow `SimulationIsLowerBound`, that the dry run
never scores higher nor decides more severely than the real one, and
`TenantIsolation`, that rules of another organization, whatever they are, change no
score.

Then the safety properties of the two pipeline runs. They are not
inductive. `IInv` adds

* `LockInv`: a request past the UPDATE holds its key's row lock, and so does a
  revocation past its own. `KeyExclusion` follows: one holder.
* `DraftInv`, `LedgerInv`: what an open transaction has written at each `pc`, and
  what is committed and answered.
* `CountInv`: from its MULTI/EXEC on, a request is in its counters or expired.
* `SeenInv`, `VelocityInv`: the exactness properties extended to requests that
  have made their check and not yet committed. The step that matters is the
  check itself: by `LockInv` no other request of the key is between its check and
  its commit, so by `CountInv` every earlier one is in the counter that is read.
* `OwnerInv`, `AuditInv`: rule owners never change; a message is sent once the
  decision is final.

`RevocationDrains` is an action property from the same invariant;
`LateRequestsRefused` is proved by a second invariant that holds from the moment
the key or organization is closed.

`Implements` is the refinement of `VerificationLog`. It needs a further invariant,
`LogInv`, relative to `IInv`:

* `HitsInv`: a counter holds requests that carry its value and are past their
  MULTI/EXEC. `SightInv`: whatever a request was told, another request had done. A
  counter may lose members after it was read, so this is kept as a bound by the
  requests past authentication, a set that only grows.
* `EarlierInv`: whatever its key had recorded before the check, and no counter has
  lost, is in the sight. The step that matters is again the check, where `CountInv`
  says that the counter holds it; until the commit nobody else of the key records,
  by `LockInv`, and `Expire` can only shorten the list.
* `JudgeInv`: a draft that is waiting to be committed is a judgement of the sight
  under *some* content of the rules, the one that `get_active_rules` read. The
  rules may have changed since.

`FrameStep` says once what a step can do to one request's view, draft and `pc`, so
that each part looks at three steps and not at twenty-five. `Commit` of a submission
maps to `Record`, `LookupKey` to `Admit`, the refusals, failures and reads to `End`,
revocation and deactivation to `Close`, `Expire` to `Forget`; the rest are
stutters (`SilentMove`). A commit that takes effect while its answer is lost is a
`Record` too.

`DeadlockFree` is the safety half of the waiting hazards, and needs no fairness:
whenever a row lock is held, or the pool is empty, some transaction waits for
nothing. `HolderInv`, the converse of `LockInv`, says that whoever holds a row is
past its UPDATE. With at least one connection (`PipelineAssumption`) that is enough,
as each transaction takes one row lock and has its connection when it does. What
remains for TLC is that the ones that can go do go, which is fairness.

*AuthSessionProofs*: types, `RotationAtomic`, `KnownIsStored`, `SpentIsRefused`,
`DeactivatedIsRefused`, and `Implements`, that every step of `AuthSession` is a step
or a stutter of `TokenForest`. The invariant says which rows each transaction has
locked at each `pc`, that drafts are distinct and not yet stored, and that a
stored token's parent is revoked. `Commit` maps to `Plant`, `Rotate`, `Fork`,
`Cut` or a stutter, by the kind of request and by whether the presented token was
still live when its lock was granted; every other step is a stutter.

*AccountsProofs*: types, `OwnerExists`, `AnswersAreTrue`, and `Implements`, that
every step of `Accounts` is a step or a stutter of `Registry`. The invariant says
what a transaction has written at each `pc`, that no two requests have written one
slug or one address (`UniqueInv`, kept by the indexes), and that every candidate a
request has passed over is taken (`ProbeInv`, kept because slugs stay taken). At
the commit the two together say that the slug is the first free one. `DeadlockFree`
says that waits at the two indexes never form a chain of three: all requests insert
the slug first and the address second, so a chain goes from the slug to the address
and ends. The three requests of `AccountsRaces` never build a chain of two, so this
one rests on the proof. There is no such theorem about `AuthSession`: its model
locks a family in one step where PostgreSQL locks row after row, and it would hold
by that abstraction.

*RateLimiterProofs*: types, `WindowCap`, `RefusedOverLimit`, and the burst bound
`BurstCap`, which no run checks. The invariant gives each request
counted in the present life of a key a different rank, its INCR's value; an admitted
one has a rank of at most the limit, and an injection into `1 .. Limit` bounds their
number. A refused one has a rank above the limit, and no rank exceeds the number of
those counted (`CountInv`). For the burst, requests of earlier lives that are younger
than a window (`Earlier`) are all of one life (`EarlierRankInv`), because a life whose
EXPIRE was executed lasts a window (`AgeInv`): so two ranks at most coincide, and
twice the limit bounds both lives.

*AuditTrailProofs*: types, `NothingForgotten`, `RowsExplained`. The invariant says that
a message exists only after its sender's step (`SentInv`), so that a push is always
of new messages (`PushIsNew`), that what waits, is held or was written was sent
(`OriginInv`), and that who acknowledges has written (`HeldInv`). `RowsInv` counts: the rows of a message, its waiting copies and the
processes that may still write it (`Writers`) are together no more than one and the
times it was given back. `Take` turns a copy into a writer, `Write` a writer into a
row; only `Lapse` and `Die` put a copy back, and they raise the bound.

*RulesAdminProofs*: types, `UpdatesAreTrue`, `ChangesAreAsked`. Who has written holds the
row's lock and its row is there (`LockInv`), so a commit on a row leaves alone what
others have written to it; the owner tested is the owner for good (`OwnerInv`),
because a row being created is known to nobody else (`CreateInv`). `CommitIsAsked`
and `CommitIsTrue` are the two lemmas about the step that matters.

*ReportsProofs*: types, `SeriesWithinSummary`, `FiguresBracketed`, `PagesCoverOldRows`. The
first two follow from `FiguresInv`, the order of what the SELECTs of one answer have
seen, and from the monotony of cardinalities (`CountMonotone`). The third needs
`PagesInv`: an old row not yet shown stands on the page a client asks for or on a
later one. It is kept because new rows only push a row back (`RankMonotone`), a page
shows all whose rank is within it (`PageOrBeyond`), and `total_pages` rounds up
(`PagesHoldAll`); the last page is where the count of an earlier instant decides,
and `late` the difference.

*PageSessionProofs*: types, `StoredTokenUsable`, `RefusedForCause`. The token an answer
brings is live and known to nobody else (`SecretInv`); two holders of one token, or
a holder and another tab's call, have shared it (`SharedInv`); and a spent token
that is held, stored or presented has a successor on its way to its holder, was
lost, or was shared (`SpentInv`). The hard step is `Reload`, where a tab takes what
another one may have presented already.

Every safety property that a run checks is stated by a theorem. Model-checked only:
the liveness properties (`Answered` of the pipeline, of sessions, of registration
and of rules, `RevocationEnds`, `Recovers`, `ResponsesAudited`), which need fairness
and ENABLED, out of the prover's reach; and the violated claims (`ReuseRevokesFamily`,
`EveryCallAudited`, `OrgScopedOnly`). No theorem is by
induction over data; `Points`, the pages and the counters are cardinalities, so that
the library's theorems on finite sets suffice.

## 5. What is assumed or left out

* The model takes the answer to be sent after `get_db` has committed. That is what
  FastAPI does in the release the project names (0.115); `pyproject.toml:16` sets
  no upper bound, and a release that runs the exit of a `yield` dependency after
  the answer behaves like the operator `AnswerThenCommit`, with which
  `AnswerMatchesLedger`, `KnownIsStored` and `AnswersAreTrue` are violated.
* PostgreSQL is at READ COMMITTED, its default. Its deadlock detection is not
  needed for the paths modelled (one row per transaction, except the family
  UPDATE, whose possible abort is a `Fail`).
* Payload text, hashing, time stamps, pagination, reasons and breakdown are
  abstracted. A rule whose `max_requests` is not a number raises, and is a `Fail`.
* `update_org` changes neither a slug nor an owner, and is left out. A slug of more
  than 100 characters fails at the INSERT, and is a `Fail`.
* In `Reports` no two rows have one `created_at`; the order of rows that do is
  PostgreSQL's choice. Counts of keys and members are single SELECTs on other tables.
* What an audit record says is abstracted to who sent it for which request. How long
  the visibility timeout is makes no difference: a message may be given back at any
  time while a process holds it.
* A client's retry is another request; no run relates it to the one it repeats.
* `PageSession` leaves out rendering, the demo mode and the API key in `localStorage`,
  and the calls that do not go through `apiFetch`.
* Signing and expiry of access tokens are one fact: a call may be answered 401 at any
  time. `require_roles` is used by no endpoint.
* Users, health, e-mail and device-cache tasks, start-up and monitoring are not
  modelled: they read only, or are I/O and configuration.

## 6. Plan

Done, in this order: `FraudEngine` and `VerificationPipeline`; `TokenForest` and
`AuthSession` with the refinement; `RateLimiter`; `Registry` and `Accounts` with the
refinement; `AuditTrail`; `RulesAdmin`; `PageSession`; `Reports`; `VerificationLog` with
the refinement; and the proofs of all of them.

Left:

1. The composition of `AuditTrail` with the pipeline's `audit`, in place of the two
   models that meet at `Announce`.
2. `update_org` next to `Accounts`.
3. An abstract specification of rule administration, a register per field, for
   `RulesAdmin` to refine.
