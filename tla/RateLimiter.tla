---------------------------- MODULE RateLimiter ----------------------------
(***************************************************************************)
(* app/middleware/rate_limit_middleware.py: one Redis counter per API key  *)
(* or client address, an INCR per request, an EXPIRE by the request that   *)
(* saw 1, and an answer of 429 above the limit.  Any exception admits the  *)
(* request ("fail open").  A Redis call may fail before it is executed, or *)
(* after, its reply lost; a worker may die at any point.                   *)
(***************************************************************************)
EXTENDS Integers, FiniteSets

CONSTANTS
  Req,      \* HTTP requests
  Bucket,   \* clients: an API key, or an address without one
  Limit,    \* requests per window of each client
  Window    \* the ticks a counter lives after its EXPIRE

ASSUME LimiterAssumption ==
  /\ Limit \in [Bucket -> Nat \ {0}]
  /\ Window \in Nat \ {0}
  /\ IsFiniteSet(Req)

VARIABLES
  pc,       \* where each request is
  bucket,   \* of each request
  current,  \* what its INCR returned
  count,    \* the counter of each bucket, 0 when the key does not exist
  ttl,      \* ticks to its expiry, 0 when it has none
  age,      \* ticks since each request was counted, up to Window
  counted,  \* the requests counted in the present life of each key
  dropped   \* buckets whose EXPIRE was never executed

vars == <<pc, bucket, current, count, ttl, age, counted, dropped>>

PC == {"idle", "incr", "expire", "answer", "admitted", "refused", "open"}

Init ==
  /\ pc = [r \in Req |-> "idle"]
  /\ bucket \in [Req -> Bucket]
  /\ current = [r \in Req |-> 0]
  /\ count = [b \in Bucket |-> 0]
  /\ ttl = [b \in Bucket |-> 0]
  /\ age = [r \in Req |-> 0]
  /\ counted = [b \in Bucket |-> {}]
  /\ dropped = {}

Goto(r, from, to) == pc[r] = from /\ pc' = [pc EXCEPT ![r] = to]

Receive(r) ==
  /\ Goto(r, "idle", "incr")
  /\ UNCHANGED <<bucket, current, count, ttl, age, counted, dropped>>

\* Mutant: the decision is on an earlier GET, before requests counted since.
IncrAfterGet(r) ==
  LET b == bucket[r]
  IN  /\ Goto(r, "incr", IF count[b] = 0 THEN "expire" ELSE "answer")
      /\ \E read \in 0 .. count[b] : current' = [current EXCEPT ![r] = read + 1]
      /\ count' = [count EXCEPT ![b] = @ + 1]
      /\ counted' = [counted EXCEPT ![b] = @ \cup {r}]
      /\ age' = [age EXCEPT ![r] = 0]
      /\ UNCHANGED <<bucket, ttl, dropped>>

\* Mutant: the EXPIRE comes with the second request.
IncrExpireAtTwo(r) ==
  LET b == bucket[r]
  IN  /\ Goto(r, "incr", IF count[b] = 1 THEN "expire" ELSE "answer")
      /\ current' = [current EXCEPT ![r] = count[b] + 1]
      /\ count' = [count EXCEPT ![b] = @ + 1]
      /\ counted' = [counted EXCEPT ![b] = @ \cup {r}]
      /\ age' = [age EXCEPT ![r] = 0]
      /\ UNCHANGED <<bucket, ttl, dropped>>

Incr(r) ==
  LET b == bucket[r]
  IN  /\ Goto(r, "incr", IF count[b] = 0 THEN "expire" ELSE "answer")
      /\ current' = [current EXCEPT ![r] = count[b] + 1]
      /\ count' = [count EXCEPT ![b] = @ + 1]
      /\ counted' = [counted EXCEPT ![b] = @ \cup {r}]
      /\ age' = [age EXCEPT ![r] = 0]
      /\ UNCHANGED <<bucket, ttl, dropped>>

\* Mutant: a key lives a tick longer than the window.
SetExpiryLate(r) ==
  /\ Goto(r, "expire", "answer")
  /\ ttl' = [ttl EXCEPT ![bucket[r]] = Window + 1]
  /\ UNCHANGED <<bucket, current, count, age, counted, dropped>>

SetExpiry(r) ==
  /\ Goto(r, "expire", "answer")
  /\ ttl' = [ttl EXCEPT ![bucket[r]] = Window]
  /\ UNCHANGED <<bucket, current, count, age, counted, dropped>>

Admit(r) ==
  /\ Goto(r, "answer", "admitted")
  /\ current[r] <= Limit[bucket[r]]
  /\ UNCHANGED <<bucket, current, count, ttl, age, counted, dropped>>

\* Mutant: the request that reaches the limit is refused.
RefuseAtLimit(r) ==
  /\ Goto(r, "answer", "refused")
  /\ current[r] >= Limit[bucket[r]]
  /\ UNCHANGED <<bucket, current, count, ttl, age, counted, dropped>>

Refuse(r) ==
  /\ Goto(r, "answer", "refused")
  /\ current[r] > Limit[bucket[r]]
  /\ UNCHANGED <<bucket, current, count, ttl, age, counted, dropped>>

---------------------------------------------------------------------------
\* Failures.  An exception lets the request through whatever its count; with a
\* dead worker it is gone.  Both end in "open".
FailIncr(r) ==
  LET b == bucket[r]
  IN  /\ Goto(r, "incr", "open")
      /\ \/ UNCHANGED <<count, counted, dropped>>
         \/ /\ count' = [count EXCEPT ![b] = @ + 1]
            /\ counted' = [counted EXCEPT ![b] = @ \cup {r}]
            /\ dropped' = IF count[b] = 0 THEN dropped \cup {b} ELSE dropped
      /\ UNCHANGED <<bucket, current, ttl, age>>

FailExpire(r) ==
  LET b == bucket[r]
  IN  /\ Goto(r, "expire", "open")
      /\ \/ ttl' = [ttl EXCEPT ![b] = Window] /\ UNCHANGED dropped
         \/ dropped' = dropped \cup {b} /\ UNCHANGED ttl
      /\ UNCHANGED <<bucket, current, count, age, counted>>

\* The close of the connection fails, or the worker dies before its answer.
FailAnswer(r) ==
  /\ Goto(r, "answer", "open")
  /\ UNCHANGED <<bucket, current, count, ttl, age, counted, dropped>>

---------------------------------------------------------------------------
\* Redis removes the keys whose time is over.
Tick ==
  /\ ttl' = [b \in Bucket |-> IF ttl[b] > 0 THEN ttl[b] - 1 ELSE 0]
  /\ count' = [b \in Bucket |-> IF ttl[b] = 1 THEN 0 ELSE count[b]]
  /\ counted' = [b \in Bucket |-> IF ttl[b] = 1 THEN {} ELSE counted[b]]
  /\ age' = [r \in Req |->
       IF pc[r] \notin {"expire", "answer", "admitted"} THEN 0
       ELSE IF age[r] < Window THEN age[r] + 1 ELSE Window]
  /\ UNCHANGED <<pc, bucket, current, dropped>>

Step(r) == Incr(r) \/ SetExpiry(r) \/ Admit(r) \/ Refuse(r)

Failure(r) == FailIncr(r) \/ FailExpire(r) \/ FailAnswer(r)

Next == Tick \/ \E r \in Req : Receive(r) \/ Step(r) \/ Failure(r)

\* A handler goes on when its await is over; time passes.
Fairness == WF_vars(Tick) /\ \A r \in Req : WF_vars(Step(r))

Spec == Init /\ [][Next]_vars /\ Fairness

---------------------------------------------------------------------------
TypeOK ==
  /\ pc \in [Req -> PC]
  /\ bucket \in [Req -> Bucket]
  /\ current \in [Req -> Nat]
  /\ count \in [Bucket -> Nat]
  /\ ttl \in [Bucket -> 0 .. Window]
  /\ age \in [Req -> 0 .. Window]
  /\ counted \in [Bucket -> SUBSET Req]
  /\ dropped \subseteq Bucket

\* Those let through by their count in the present life of a bucket's key.
Admitted(b) == {r \in counted[b] : pc[r] = "admitted"}

\* However the round trips of concurrent requests interleave, no more than
\* Limit of those counted by one life of the key are let through by count.
WindowCap == \A b \in Bucket : Cardinality(Admitted(b)) <= Limit[b]

\* Nobody is refused for less: a request refused in one life of the key is one
\* of more than Limit that this life has counted, failed ones included.
RefusedOverLimit ==
  \A b \in Bucket : \A r \in counted[b] :
    pc[r] = "refused" => Cardinality(counted[b]) > Limit[b]

\* A client over its limit gets a new window, unless the EXPIRE of the
\* present one was never executed.
Recovers == \A b \in Bucket : count[b] > Limit[b] ~> (count[b] = 0 \/ b \in dropped)

\* What is left of the "sliding window" of the module's comments: the window of
\* the code is fixed, so the end of one life and the beginning of the next may
\* each admit Limit requests; more never fit in Window ticks, however late the
\* EXPIRE of a life comes.  Stated by a theorem, not by a run.
BurstCap ==
  \A b \in Bucket :
    Cardinality({r \in Req : bucket[r] = b /\ pc[r] = "admitted" /\ age[r] < Window})
      <= 2 * Limit[b]
=============================================================================
