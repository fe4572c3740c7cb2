----------------------------- MODULE AuditTrail -----------------------------
(***************************************************************************)
(* The way of an audit record: AuditMiddleware and submit hand a message   *)
(* to the broker, a Celery worker takes it and inserts a row of audit_logs *)
(* in a transaction of its own, and acknowledges it afterwards             *)
(* (task_acks_late).  The broker gives a message that is not acknowledged  *)
(* to another process: when the worker dies, but also while it lives,      *)
(* after the transport's visibility timeout or a lost connection.          *)
(*                                                                         *)
(* AuditMiddleware is the outermost user middleware: it sees the answers   *)
(* of the rate limiter and of the exception handlers, and not an unhandled *)
(* exception, which passes through it and is answered 500 further out.     *)
(***************************************************************************)
EXTENDS Naturals, FiniteSets

CONSTANTS
  Req,        \* HTTP requests
  Worker,     \* the processes of the Celery worker's pool
  Served,     \* the queues the worker consumes
  MaxReturns, \* bound: how often the broker gives one message back
  None        \* a worker's job when it has none

\* What a request is for: a path in _SKIP_PATHS, POST /verify, any other.
Path == {"skipped", "verify", "other"}

\* A message of the middleware ("http") or of submit ("verification").  When the
\* broker executes a push and its reply is lost, the client pushes a second copy.
Message == [req : Req, from : {"http", "verification"}, copy : 1 .. 2]

ASSUME AuditAssumption == None \notin Message /\ IsFiniteSet(Worker) /\ MaxReturns \in Nat

Copies(r, from) == {m \in Message : m.req = r /\ m.from = from}

\* The routing key of write_audit_log_task, whoever sends it.
Queue == "audit"

VARIABLES
  pc,        \* where each request is
  path,      \* of each request
  outcome,   \* the answer its client got
  ready,     \* how many copies of each message wait in the queue
  job,       \* the message each worker process has taken
  at,        \* where it is with it
  lapsed,    \* the processes whose message the broker has given back meanwhile
  rows,      \* how many committed rows of audit_logs each message has
  sent,      \* history: the messages the broker took
  refused,   \* history: the <<request, sender>> whose message it did not take
  failed,    \* history: the messages acknowledged by a failed task
  returned   \* history: how often the broker has given each message back

webVars    == <<pc, path, outcome>>
workerVars == <<job, at, lapsed, rows, failed, returned>>
vars == <<webVars, ready, workerVars, sent, refused>>

PC == {"new", "handler", "answer", "audit", "done"}

Init ==
  /\ pc = [r \in Req |-> "new"]
  /\ path \in [Req -> Path]
  /\ outcome = [r \in Req |-> "none"]
  /\ ready = [m \in Message |-> 0]
  /\ job = [w \in Worker |-> None]
  /\ at = [w \in Worker |-> "idle"]
  /\ lapsed = {}
  /\ rows = [m \in Message |-> 0]
  /\ sent = {}
  /\ refused = {}
  /\ failed = {}
  /\ returned = [m \in Message |-> 0]

Goto(r, from, to) == pc[r] = from /\ pc' = [pc EXCEPT ![r] = to]

\* write_audit_log_task.delay: pushed, pushed twice, or not at all, in which
\* case the exception is swallowed.
Delay(r, from) ==
  \/ \E pushed \in SUBSET Copies(r, from) \ {{}} :
       /\ ready' = [m \in Message |-> IF m \in pushed THEN ready[m] + 1 ELSE ready[m]]
       /\ sent' = sent \cup pushed
       /\ UNCHANGED refused
  \/ refused' = refused \cup {<<r, from>>} /\ UNCHANGED <<ready, sent>>

---------------------------------------------------------------------------
Receive(r) ==
  /\ Goto(r, "new", "handler")
  /\ UNCHANGED <<path, outcome, ready, sent, refused, workerVars>>

\* submit has decided; the transaction has not been committed yet.
Announce(r) ==
  /\ path[r] = "verify"
  /\ Goto(r, "handler", "answer")
  /\ Delay(r, "verification")
  /\ UNCHANGED <<path, outcome, workerVars>>

\* Mutant: only what succeeded is recorded.
AnswerAuditingSuccess(r, status) ==
  /\ pc[r] \in {"handler", "answer"}
  /\ (path[r] = "verify") => ((status = "success") <=> (pc[r] = "answer"))
  /\ pc' = [pc EXCEPT ![r] =
              IF path[r] = "skipped" \/ status = "error" THEN "done" ELSE "audit"]
  /\ outcome' = [outcome EXCEPT ![r] = status]
  /\ UNCHANGED <<path, ready, sent, refused, workerVars>>

\* A response comes back to the middleware: "success" below 400, or an error
\* answer of a handler, an exception handler or the rate limiter.  After
\* submit has sent its message nothing raises any of the handled exceptions.
Answer(r, status) ==
  /\ pc[r] \in {"handler", "answer"}
  /\ (path[r] = "verify") => ((status = "success") <=> (pc[r] = "answer"))
  /\ pc' = [pc EXCEPT ![r] = IF path[r] = "skipped" THEN "done" ELSE "audit"]
  /\ outcome' = [outcome EXCEPT ![r] = status]
  /\ UNCHANGED <<path, ready, sent, refused, workerVars>>

\* The middleware's own message, before it returns the response.
DispatchAudit(r) ==
  /\ Goto(r, "audit", "done")
  /\ Delay(r, "http")
  /\ UNCHANGED <<path, outcome, workerVars>>

\* An exception without a handler, a failed COMMIT among them: call_next
\* raises, the client gets a 500 and the middleware sends nothing.
Raise(r) ==
  /\ pc[r] \in {"handler", "answer"}
  /\ pc' = [pc EXCEPT ![r] = "done"]
  /\ outcome' = [outcome EXCEPT ![r] = "raised"]
  /\ UNCHANGED <<path, ready, sent, refused, workerVars>>

\* The process of the API dies: whoever was being served gets no answer, and
\* nothing more is sent for it.  A restarted process serves new requests.
Crash ==
  /\ \E r \in Req : pc[r] \in {"handler", "answer", "audit"}
  /\ LET cut == {r \in Req : pc[r] \in {"handler", "answer", "audit"}}
     IN  /\ pc' = [r \in Req |-> IF r \in cut THEN "done" ELSE pc[r]]
         /\ outcome' = [r \in Req |-> IF r \in cut THEN "lost" ELSE outcome[r]]
  /\ UNCHANGED <<path, ready, sent, refused, workerVars>>

---------------------------------------------------------------------------
\* A worker process takes a message, which stays unacknowledged.
Take(w) ==
  /\ at[w] = "idle" /\ Queue \in Served
  /\ \E m \in Message :
       /\ ready[m] > 0
       /\ ready' = [ready EXCEPT ![m] = @ - 1]
       /\ job' = [job EXCEPT ![w] = m]
  /\ at' = [at EXCEPT ![w] = "write"]
  /\ UNCHANGED <<webVars, sent, refused, lapsed, rows, failed, returned>>

\* _write: the INSERT and its COMMIT.
Write(w) ==
  /\ at[w] = "write"
  /\ rows' = [rows EXCEPT ![job[w]] = @ + 1]
  /\ at' = [at EXCEPT ![w] = "ack"]
  /\ UNCHANGED <<webVars, ready, sent, refused, job, lapsed, failed, returned>>

\* The process is free again.
Release(w) ==
  /\ job' = [job EXCEPT ![w] = None]
  /\ at' = [at EXCEPT ![w] = "idle"]
  /\ lapsed' = lapsed \ {w}

\* The acknowledgement.  One that comes after the broker has given the message
\* back is of a delivery it no longer knows, and changes nothing.
Ack(w) ==
  /\ at[w] = "ack"
  /\ Release(w)
  /\ UNCHANGED <<webVars, ready, sent, refused, rows, failed, returned>>

\* Mutant: a failed task is retried whether its COMMIT took effect or not.
FailTaskRetried(w) ==
  /\ at[w] = "write"
  /\ \/ rows' = [rows EXCEPT ![job[w]] = @ + 1]
     \/ rows' = rows
  /\ ready' = [ready EXCEPT ![job[w]] = @ + 1]
  /\ Release(w)
  /\ UNCHANGED <<webVars, sent, refused, failed, returned>>

\* The task raises (a database error, a value longer than its column, a
\* connection of a closed event loop) before its COMMIT took effect or after,
\* or its process is killed.  max_retries retries nothing: no code calls retry.
\* Celery acknowledges a failed task and one whose process is lost.
FailTask(w) ==
  /\ at[w] = "write"
  /\ \/ rows' = [rows EXCEPT ![job[w]] = @ + 1]
     \/ rows' = rows
  /\ failed' = IF w \in lapsed THEN failed ELSE failed \cup {job[w]}
  /\ Release(w)
  /\ UNCHANGED <<webVars, ready, sent, refused, returned>>

\* The visibility timeout passes, or the connection to the broker is lost: the
\* message goes back to the queue while its process goes on with it.
Lapse(w) ==
  /\ at[w] # "idle" /\ w \notin lapsed
  /\ returned[job[w]] < MaxReturns
  /\ lapsed' = lapsed \cup {w}
  /\ ready' = [ready EXCEPT ![job[w]] = @ + 1]
  /\ returned' = [returned EXCEPT ![job[w]] = @ + 1]
  /\ UNCHANGED <<webVars, sent, refused, job, at, rows, failed>>

\* The processes by which the broker counts message m as not acknowledged.
Unacknowledged(m) ==
  {w \in Worker : at[w] # "idle" /\ job[w] = m /\ w \notin lapsed}

\* Mutant: messages are acknowledged when they are taken.
DieAcked ==
  /\ \E w \in Worker : at[w] # "idle"
  /\ job' = [w \in Worker |-> None]
  /\ at' = [w \in Worker |-> "idle"]
  /\ lapsed' = {}
  /\ UNCHANGED <<webVars, ready, sent, refused, rows, failed, returned>>

\* The container dies and is restarted ("restart: unless-stopped"); what was
\* not acknowledged returns to the queue.
Die ==
  /\ \E w \in Worker : at[w] # "idle"
  /\ LET back == [m \in Message |-> Cardinality(Unacknowledged(m))]
     IN  /\ \A m \in Message : back[m] > 0 => returned[m] + back[m] <= MaxReturns
         /\ ready' = [m \in Message |-> ready[m] + back[m]]
         /\ returned' = [m \in Message |-> returned[m] + back[m]]
  /\ job' = [w \in Worker |-> None]
  /\ at' = [w \in Worker |-> "idle"]
  /\ lapsed' = {}
  /\ UNCHANGED <<webVars, sent, refused, rows, failed>>

Serve(r) == Announce(r) \/ DispatchAudit(r) \/ Raise(r)
              \/ \E status \in {"success", "error"} : Answer(r, status)

Work(w) == Take(w) \/ Write(w) \/ Ack(w) \/ FailTask(w)

Next ==
  \/ Crash \/ Die
  \/ \E r \in Req : Receive(r) \/ Serve(r)
  \/ \E w \in Worker : Work(w) \/ Lapse(w)

\* The event loop resumes every handler; a worker process that is idle takes
\* work from a queue it serves and ends every task.
Fairness ==
  /\ \A r \in Req : WF_vars(Serve(r))
  /\ \A w \in Worker : WF_vars(Work(w))

Spec == Init /\ [][Next]_vars /\ Fairness

---------------------------------------------------------------------------
TypeOK ==
  /\ pc \in [Req -> PC]
  /\ path \in [Req -> Path]
  /\ outcome \in [Req -> {"none", "success", "error", "raised", "lost"}]
  /\ ready \in [Message -> Nat]
  /\ job \in [Worker -> Message \cup {None}]
  /\ at \in [Worker -> {"idle", "write", "ack"}]
  /\ lapsed \subseteq Worker
  /\ rows \in [Message -> Nat]
  /\ sent \subseteq Message
  /\ refused \subseteq Req \X {"http", "verification"}
  /\ failed \subseteq Message
  /\ returned \in [Message -> Nat]

\* A message the broker took waits in the queue, or counts there as not
\* acknowledged, or has its row, or its task has failed: no death of the
\* container and no lost connection loses it.
NothingForgotten ==
  \A m \in sent :
    \/ ready[m] > 0
    \/ Unacknowledged(m) # {}
    \/ rows[m] > 0
    \/ m \in failed

\* A record is written twice only because the push was repeated, which makes
\* two messages of it, or because the broker gave a message back: after a death,
\* a lost connection or the visibility timeout.  A message has no row unless it
\* was sent, and at most one more than the times it was given back.
RowsExplained ==
  \A m \in Message : rows[m] <= 1 + returned[m] /\ (rows[m] > 0 => m \in sent)

\* The record of request r exists, or the broker refused it, or its task failed.
Accounted(r) ==
  \/ <<r, "http">> \in refused
  \/ \E m \in Copies(r, "http") : rows[m] > 0 \/ m \in failed

\* Every response that came back to the middleware is accounted for in the
\* end, provided the worker serves the queue, or else its client got none,
\* because the process died before it sent the message.
ResponsesAudited ==
  \A r \in Req :
    (path[r] # "skipped" /\ outcome[r] \in {"success", "error"})
      ~> (Accounted(r) \/ outcome[r] = "lost")

---------------------------------------------------------------------------
\* Claim of the repository that the code does not keep.

\* audit_middleware.py:2: the context of every API call is captured.
EveryCallAudited ==
  \A r \in Req : (path[r] # "skipped" /\ pc[r] = "done") ~> Accounted(r)
=============================================================================
