-------------------------- MODULE AuditTrailProofs --------------------------
(***************************************************************************)
(* No message is forgotten and every row is explained, for any requests,   *)
(* worker processes and number of returns: a push or a return is worth one *)
(* write, and nothing else is.                                             *)
(***************************************************************************)
EXTENDS AuditTrail, FiniteSetTheorems, TLAPS

\* A message exists only after its sender's step.
SentInv ==
  \A m \in sent :
    /\ m.from = "verification" => pc[m.req] \in {"answer", "audit", "done"}
    /\ m.from = "http" => pc[m.req] = "done"

\* What waits, is held or was written was sent.
OriginInv ==
  /\ \A m \in Message : ready[m] > 0 => m \in sent
  /\ \A w \in Worker : at[w] = "idle" \/ job[w] \in sent
  /\ \A m \in Message : rows[m] > 0 => m \in sent

\* The processes that may still commit a row of message m.
Writers(m) == {w \in Worker : at[w] = "write" /\ job[w] = m}

\* Who acknowledges has written, and only a busy process loses its message.
HeldInv ==
  /\ \A w \in Worker : at[w] = "ack" => rows[job[w]] > 0
  /\ \A w \in lapsed : at[w] # "idle"

\* The rows a message has, and those that its copies in the queue and in the
\* processes may still become: one for the push and one for every return.
RowsInv ==
  \A m \in Message :
    /\ m \in sent => rows[m] + ready[m] + Cardinality(Writers(m)) <= 1 + returned[m]
    /\ m \notin sent => returned[m] = 0

IInv == TypeOK /\ SentInv /\ OriginInv /\ HeldInv /\ RowsInv /\ NothingForgotten

---------------------------------------------------------------------------
\* Both kinds of holders of a message are counted by natural numbers.
LEMMA Counted ==
  ASSUME NEW m
  PROVE  /\ Cardinality(Writers(m)) \in Nat
         /\ Cardinality(Unacknowledged(m)) \in Nat
         /\ IsFiniteSet(Writers(m)) /\ IsFiniteSet(Unacknowledged(m))
<1>1. IsFiniteSet(Writers(m)) /\ IsFiniteSet(Unacknowledged(m))
  BY AuditAssumption, FS_Subset DEF Writers, Unacknowledged
<1> QED BY <1>1, FS_CardinalityType

\* The invariant holds before any request.
LEMMA InitIInv == Init => IInv
<1> SUFFICES ASSUME Init
             PROVE  IInv
  OBVIOUS
<1> USE AuditAssumption DEF Init
<1>1. TypeOK /\ SentInv /\ OriginInv /\ HeldInv /\ NothingForgotten
  BY DEF TypeOK, PC, SentInv, OriginInv, HeldInv, NothingForgotten
<1>2. RowsInv
  BY DEF RowsInv
<1> QED BY <1>1, <1>2 DEF IInv

\* Every step keeps the types.
LEMMA TypeStep == TypeOK /\ OriginInv /\ [Next]_vars => TypeOK'
<1> SUFFICES ASSUME TypeOK, OriginInv, [Next]_vars
             PROVE  TypeOK'
  OBVIOUS
<1> USE AuditAssumption DEF TypeOK, PC
<1>1. CASE UNCHANGED vars
  BY <1>1 DEF vars, webVars, workerVars
<1>2. CASE Die
  BY <1>2, Counted DEF Die, webVars
<1>5. CASE Crash
  BY <1>5 DEF Crash, workerVars
<1>3. ASSUME NEW r \in Req, Receive(r) \/ Serve(r)
      PROVE  TypeOK'
  <2>1. ASSUME NEW from \in {"http", "verification"}, Delay(r, from)
        PROVE  ready' \in [Message -> Nat] /\ sent' \subseteq Message
                 /\ refused' \subseteq Req \X {"http", "verification"}
    BY <2>1 DEF Delay, Copies
  <2>2. CASE Receive(r)
    BY <2>2 DEF Receive, Goto, workerVars
  <2>3. CASE Announce(r)
    BY <2>3, <2>1 DEF Announce, Goto, workerVars
  <2>4. CASE DispatchAudit(r)
    BY <2>4, <2>1 DEF DispatchAudit, Goto, workerVars
  <2>5. CASE Raise(r)
    BY <2>5 DEF Raise, workerVars
  <2>6. ASSUME NEW status \in {"success", "error"}, Answer(r, status)
        PROVE  TypeOK'
    BY <2>6 DEF Answer, workerVars
  <2> QED BY <1>3, <2>2, <2>3, <2>4, <2>5, <2>6 DEF Serve
<1>4. ASSUME NEW w \in Worker, Work(w) \/ Lapse(w)
      PROVE  TypeOK'
  <2>1. CASE Take(w)
    BY <2>1 DEF Take, webVars
  <2>2. CASE Write(w)
    BY <2>2 DEF Write, OriginInv, webVars
  <2>3. CASE Ack(w)
    BY <2>3 DEF Ack, Release, webVars
  <2>4. CASE FailTask(w)
    BY <2>4 DEF FailTask, Release, OriginInv, webVars
  <2>5. CASE Lapse(w)
    BY <2>5 DEF Lapse, OriginInv, webVars
  <2> QED BY <1>4, <2>1, <2>2, <2>3, <2>4, <2>5 DEF Work
<1> QED BY <1>1, <1>2, <1>3, <1>4, <1>5 DEF Next

\* A message is pushed by a step that takes its request further, so never again.
LEMMA SentStep == TypeOK /\ SentInv /\ [Next]_vars => SentInv'
<1> SUFFICES ASSUME TypeOK, SentInv, [Next]_vars
             PROVE  SentInv'
  OBVIOUS
<1> USE DEF TypeOK, PC, SentInv
<1>1. CASE UNCHANGED vars
  BY <1>1 DEF vars, webVars
<1>2. CASE Die
  BY <1>2 DEF Die, webVars
<1>3. ASSUME NEW r \in Req, Receive(r) \/ Serve(r)
      PROVE  SentInv'
  <2>1. CASE Receive(r)
    BY <2>1 DEF Receive, Goto
  <2>2. CASE Announce(r)
    BY <2>2 DEF Announce, Delay, Copies, Goto, Message
  <2>3. CASE DispatchAudit(r)
    BY <2>3 DEF DispatchAudit, Delay, Copies, Goto, Message
  <2>4. CASE Raise(r)
    BY <2>4 DEF Raise
  <2>5. ASSUME NEW status \in {"success", "error"}, Answer(r, status)
        PROVE  SentInv'
    BY <2>5 DEF Answer, Message
  <2> QED BY <1>3, <2>1, <2>2, <2>3, <2>4, <2>5 DEF Serve
<1>4. ASSUME NEW w \in Worker, Work(w) \/ Lapse(w)
      PROVE  SentInv'
  BY <1>4 DEF Work, Take, Write, Ack, FailTask, Lapse, webVars
<1>5. CASE Crash
  <2>1. UNCHANGED sent /\ \A r \in Req : pc'[r] \in {pc[r], "done"}
    BY <1>5 DEF Crash
  <2>2. \A m \in sent : m.req \in Req
    BY DEF Message
  <2> QED BY <2>1, <2>2
<1> QED BY <1>1, <1>2, <1>3, <1>4, <1>5 DEF Next

\* The queue with one more copy of each message of a set.
Queued(pushed) == [m \in Message |-> IF m \in pushed THEN ready[m] + 1 ELSE ready[m]]

\* A request pushes only messages that were never sent, and leaves the worker alone.
LEMMA PushIsNew ==
  ASSUME TypeOK, SentInv, NEW r \in Req, Receive(r) \/ Serve(r)
  PROVE  /\ UNCHANGED workerVars
         /\ \E pushed \in SUBSET (Message \ sent) :
              ready' = Queued(pushed) /\ sent' = sent \cup pushed
<1> DEFINE Pushed == \E pushed \in SUBSET (Message \ sent) :
                       ready' = Queued(pushed) /\ sent' = sent \cup pushed
<1>1. ASSUME NEW from, Delay(r, from), Copies(r, from) \cap sent = {}
      PROVE  Pushed
  <2>1. CASE refused' = refused \cup {<<r, from>>} /\ UNCHANGED <<ready, sent>>
    <3>1. ready' = Queued({}) /\ sent' = sent \cup {}
      BY <2>1 DEF Queued, TypeOK
    <3> QED BY <3>1
  <2>2. CASE \E pushed \in SUBSET Copies(r, from) \ {{}} :
               ready' = Queued(pushed) /\ sent' = sent \cup pushed
    <3>1. PICK pushed \in SUBSET Copies(r, from) \ {{}} :
                 ready' = Queued(pushed) /\ sent' = sent \cup pushed
      BY <2>2
    <3>2. pushed \in SUBSET (Message \ sent)
      BY <3>1, <1>1 DEF Copies
    <3> QED BY <3>1, <3>2
  <2> QED BY <1>1, <2>1, <2>2 DEF Delay, Queued
<1>2. UNCHANGED <<ready, sent>> => Pushed
  <2> SUFFICES ASSUME UNCHANGED <<ready, sent>>
               PROVE  Pushed
    OBVIOUS
  <2>1. ready' = Queued({}) /\ sent' = sent \cup {}
    BY DEF Queued, TypeOK
  <2> QED BY <2>1
<1>3. CASE Receive(r)
  BY <1>3, <1>2 DEF Receive
<1>4. CASE Announce(r)
  <2>1. Copies(r, "verification") \cap sent = {}
    BY <1>4 DEF Announce, Goto, Copies, SentInv
  <2> QED BY <1>4, <2>1, <1>1 DEF Announce
<1>5. CASE DispatchAudit(r)
  <2>1. Copies(r, "http") \cap sent = {}
    BY <1>5 DEF DispatchAudit, Goto, Copies, SentInv
  <2> QED BY <1>5, <2>1, <1>1 DEF DispatchAudit
<1>6. CASE Raise(r)
  BY <1>6, <1>2 DEF Raise
<1>7. ASSUME NEW status \in {"success", "error"}, Answer(r, status)
      PROVE  UNCHANGED workerVars /\ Pushed
  BY <1>7, <1>2 DEF Answer
<1> QED BY <1>3, <1>4, <1>5, <1>6, <1>7 DEF Receive, Serve

\* A copy less in the hands of the processes, and how that counts.
LEMMA FreedWriter ==
  ASSUME NEW w, NEW m, w \in Writers(m)
  PROVE  Cardinality(Writers(m) \ {w}) = Cardinality(Writers(m)) - 1
BY Counted, FS_RemoveElement

\* A copy more.
LEMMA NewWriter ==
  ASSUME NEW w, NEW m, w \notin Writers(m)
  PROVE  Cardinality(Writers(m) \cup {w}) = Cardinality(Writers(m)) + 1
BY Counted, FS_AddElement

\* Every step keeps the account of each message's copies.
LEMMA CopiesStep == IInv /\ [Next]_vars => OriginInv' /\ HeldInv' /\ RowsInv'
<1> SUFFICES ASSUME IInv, [Next]_vars
             PROVE  OriginInv' /\ HeldInv' /\ RowsInv'
  OBVIOUS
<1> USE AuditAssumption DEF IInv, TypeOK
<1>1. CASE UNCHANGED vars \/ Crash
  <2>1. UNCHANGED <<ready, sent, job, at, lapsed, rows, returned>>
    BY <1>1 DEF vars, Crash, workerVars
  <2>2. \A m : Writers(m)' = Writers(m)
    BY <2>1 DEF Writers
  <2> QED BY <2>1, <2>2 DEF OriginInv, HeldInv, RowsInv
<1>2. CASE Die
  <2>1. UNCHANGED <<sent, rows>> /\ lapsed' = {} /\ \A w \in Worker : at'[w] = "idle"
    BY <1>2 DEF Die
  <2>2. \A m \in Message : Writers(m)' = {}
    BY <2>1 DEF Writers
  <2>3. ASSUME NEW m \in Message
        PROVE  /\ ready'[m] = ready[m] + Cardinality(Unacknowledged(m))
               /\ returned'[m] = returned[m] + Cardinality(Unacknowledged(m))
    BY <1>2 DEF Die
  <2>4. ASSUME NEW m \in Message, m \notin sent
        PROVE  Cardinality(Unacknowledged(m)) = 0
    <3>1. Unacknowledged(m) = {}
      BY <2>4 DEF Unacknowledged, OriginInv
    <3> QED BY <3>1, FS_EmptySet
  <2>5. OriginInv' /\ HeldInv'
    BY <2>1, <2>3, <2>4 DEF OriginInv, HeldInv
  <2>6. ASSUME NEW m \in Message
        PROVE  /\ m \in sent => rows[m] + ready'[m] + Cardinality(Writers(m)') <= 1 + returned'[m]
               /\ m \notin sent => returned'[m] = 0
    <3>1. Cardinality(Writers(m)') = 0
      BY <2>2, FS_EmptySet
    <3> QED BY <2>3, <2>4, <3>1, Counted DEF RowsInv
  <2> QED BY <2>1, <2>5, <2>6 DEF RowsInv
<1>3. ASSUME NEW r \in Req, Receive(r) \/ Serve(r)
      PROVE  OriginInv' /\ HeldInv' /\ RowsInv'
  <2>1. PICK pushed \in SUBSET (Message \ sent) :
               ready' = Queued(pushed) /\ sent' = sent \cup pushed
    BY <1>3, PushIsNew
  <2>2. UNCHANGED <<job, at, lapsed, rows, failed, returned>>
    BY <1>3, PushIsNew DEF workerVars
  <2>3. OriginInv' /\ HeldInv'
    BY <2>1, <2>2 DEF OriginInv, HeldInv, Queued
  <2>4. ASSUME NEW m \in Message
        PROVE  /\ m \in sent' => rows[m] + ready'[m] + Cardinality(Writers(m)') <= 1 + returned[m]
               /\ m \notin sent' => returned[m] = 0
    <3>1. Writers(m)' = Writers(m)
      BY <2>2 DEF Writers
    <3>2. CASE m \in pushed
      <4>1. Writers(m) = {}
        BY <3>2, <2>1 DEF Writers, OriginInv
      <4>2. Cardinality(Writers(m)') = 0
        BY <3>1, <4>1, FS_EmptySet
      <4>3. ready[m] = 0 /\ rows[m] = 0 /\ ready'[m] = 1 /\ returned[m] = 0
        BY <3>2, <2>1 DEF OriginInv, Queued, RowsInv
      <4> QED BY <4>2, <4>3
    <3>3. CASE m \notin pushed
      <4>1. ready'[m] = ready[m] /\ (m \in sent' <=> m \in sent)
        BY <3>3, <2>1 DEF Queued
      <4> QED BY <3>1, <4>1 DEF RowsInv
    <3> QED BY <3>2, <3>3
  <2> QED BY <2>2, <2>3, <2>4 DEF RowsInv
<1>4. ASSUME NEW w \in Worker, Take(w)
      PROVE  OriginInv' /\ HeldInv' /\ RowsInv'
  <2>1. PICK n \in Message :
          /\ ready[n] > 0
          /\ ready' = [ready EXCEPT ![n] = @ - 1]
          /\ job' = [job EXCEPT ![w] = n]
    BY <1>4 DEF Take
  <2>2. /\ at[w] = "idle" /\ at' = [at EXCEPT ![w] = "write"]
        /\ UNCHANGED <<sent, lapsed, rows, returned>>
    BY <1>4 DEF Take
  <2>3. OriginInv' /\ HeldInv'
    BY <2>1, <2>2 DEF OriginInv, HeldInv
  <2>4. ASSUME NEW m \in Message
        PROVE  ready'[m] + Cardinality(Writers(m)') = ready[m] + Cardinality(Writers(m))
    <3>1. CASE m = n
      <4>1. Writers(m)' = Writers(m) \cup {w} /\ w \notin Writers(m)
        BY <3>1, <2>1, <2>2 DEF Writers
      <4>2. Cardinality(Writers(m)') = Cardinality(Writers(m)) + 1
        BY <4>1, NewWriter
      <4>3. ready'[m] = ready[m] - 1
        BY <3>1, <2>1
      <4> QED BY <4>2, <4>3, Counted
    <3>2. CASE m # n
      <4>1. Writers(m)' = Writers(m)
        BY <3>2, <2>1, <2>2 DEF Writers
      <4> QED BY <3>2, <4>1, <2>1
    <3> QED BY <3>1, <3>2
  <2>5. \A m \in Message : Cardinality(Writers(m)) \in Nat /\ Cardinality(Writers(m)') \in Nat
    BY Counted, <2>2, <2>1, FS_Subset, FS_CardinalityType DEF Writers
  <2> QED BY <2>2, <2>1, <2>3, <2>4, <2>5 DEF RowsInv
<1>5. ASSUME NEW w \in Worker, Write(w) \/ Ack(w) \/ FailTask(w)
      PROVE  OriginInv' /\ HeldInv' /\ RowsInv'
  <2>1. at[w] # "idle" /\ job[w] \in sent /\ job[w] \in Message
    BY <1>5 DEF Write, Ack, FailTask, OriginInv
  <2>2. /\ UNCHANGED <<ready, sent, returned>>
        /\ at'[w] # "write"
        /\ \A v \in Worker \ {w} : at'[v] = at[v] /\ job'[v] = job[v]
        /\ at'[w] = "ack" => job'[w] = job[w] /\ rows'[job[w]] > 0
        /\ at'[w] \in {"idle", "ack"}
    BY <1>5, <2>1 DEF Write, Ack, FailTask, Release
  <2>3. /\ \A m \in Message \ {job[w]} : rows'[m] = rows[m]
        /\ rows'[job[w]] = rows[job[w]]
             \/ (at[w] = "write" /\ rows'[job[w]] = rows[job[w]] + 1)
    BY <1>5, <2>1 DEF Write, Ack, FailTask
  <2>4. OriginInv'
    <3>1. \A v \in Worker : at'[v] = "idle" \/ job'[v] \in sent
      BY <2>1, <2>2 DEF OriginInv
    <3>2. \A m \in Message : rows'[m] > 0 => m \in sent
      BY <2>1, <2>3 DEF OriginInv
    <3> QED BY <2>2, <3>1, <3>2 DEF OriginInv
  <2>5. HeldInv'
    <3>1. ASSUME NEW v \in Worker, at'[v] = "ack"
          PROVE  rows'[job'[v]] > 0
      <4>1. CASE v = w
        BY <4>1, <3>1, <2>2
      <4>2. CASE v # w
        <5>1. at[v] = "ack" /\ job'[v] = job[v] /\ job[v] \in Message
          BY <4>2, <3>1, <2>2 DEF OriginInv
        <5> QED BY <5>1, <2>1, <2>3 DEF HeldInv
      <4> QED BY <4>1, <4>2
    <3>2. \A v \in lapsed' : at'[v] # "idle"
      BY <1>5, <2>2 DEF HeldInv, Write, Ack, FailTask, Release
    <3> QED BY <3>1, <3>2 DEF HeldInv
  <2>6. ASSUME NEW m \in Message
        PROVE  m \in sent => rows'[m] + ready[m] + Cardinality(Writers(m)') <= 1 + returned[m]
    <3>1. Writers(m)' = Writers(m) \ {w}
      BY <2>2 DEF Writers
    <3>2. CASE w \in Writers(m)
      <4>1. Cardinality(Writers(m)') = Cardinality(Writers(m)) - 1 /\ job[w] = m
        BY <3>1, <3>2, FreedWriter DEF Writers
      <4> QED BY <4>1, <2>3, Counted DEF RowsInv
    <3>3. CASE w \notin Writers(m)
      <4>1. Writers(m)' = Writers(m)
        BY <3>1, <3>3
      <4>2. rows'[m] = rows[m]
        BY <3>3, <2>3 DEF Writers
      <4> QED BY <4>1, <4>2 DEF RowsInv
    <3> QED BY <3>2, <3>3
  <2> QED BY <2>2, <2>4, <2>5, <2>6 DEF RowsInv
<1>6. ASSUME NEW w \in Worker, Lapse(w)
      PROVE  OriginInv' /\ HeldInv' /\ RowsInv'
  <2>1. at[w] # "idle" /\ job[w] \in sent /\ job[w] \in Message
    BY <1>6 DEF Lapse, OriginInv
  <2>2. /\ UNCHANGED <<sent, job, at, rows>>
        /\ ready' = [ready EXCEPT ![job[w]] = @ + 1]
        /\ returned' = [returned EXCEPT ![job[w]] = @ + 1]
    BY <1>6 DEF Lapse
  <2>3. \A m : Writers(m)' = Writers(m)
    BY <2>2 DEF Writers
  <2>4. OriginInv' /\ HeldInv'
    BY <1>6, <2>1, <2>2 DEF OriginInv, HeldInv, Lapse
  <2>5. RowsInv'
    BY <2>1, <2>2, <2>3, Counted DEF RowsInv
  <2> QED BY <2>4, <2>5
<1> QED BY <1>1, <1>2, <1>3, <1>4, <1>5, <1>6 DEF Next, Work

\* Every step keeps a copy of each message, or what became of it.
LEMMA ForgottenStep == IInv /\ [Next]_vars => NothingForgotten'
<1> SUFFICES ASSUME IInv, [Next]_vars, NEW m \in sent'
             PROVE  ready'[m] > 0 \/ Unacknowledged(m)' # {} \/ rows'[m] > 0 \/ m \in failed'
  BY DEF NothingForgotten
<1> USE AuditAssumption DEF IInv, TypeOK
<1>0. m \in Message
  BY TypeStep
<1>1. CASE UNCHANGED vars \/ Crash
  BY <1>1 DEF vars, Crash, workerVars, NothingForgotten, Unacknowledged
<1>2. CASE Die
  <2>1. /\ m \in sent /\ UNCHANGED <<rows, failed>>
        /\ ready'[m] = ready[m] + Cardinality(Unacknowledged(m))
    BY <1>2, <1>0 DEF Die
  <2>2. Unacknowledged(m) # {} => Cardinality(Unacknowledged(m)) > 0
    BY Counted, FS_EmptySet
  <2> QED BY <2>1, <2>2, Counted DEF NothingForgotten
<1>3. ASSUME NEW r \in Req, Receive(r) \/ Serve(r)
      PROVE  ready'[m] > 0 \/ Unacknowledged(m)' # {} \/ rows'[m] > 0 \/ m \in failed'
  <2>1. PICK pushed \in SUBSET (Message \ sent) :
               ready' = Queued(pushed) /\ sent' = sent \cup pushed
    BY <1>3, PushIsNew
  <2>2. UNCHANGED <<rows, failed>> /\ Unacknowledged(m)' = Unacknowledged(m)
    BY <1>3, PushIsNew DEF workerVars, Unacknowledged
  <2> QED BY <1>0, <2>1, <2>2 DEF NothingForgotten, Queued
<1>4. ASSUME NEW w \in Worker, Take(w)
      PROVE  ready'[m] > 0 \/ Unacknowledged(m)' # {} \/ rows'[m] > 0 \/ m \in failed'
  <2>1. PICK n \in Message :
          /\ ready[n] > 0
          /\ ready' = [ready EXCEPT ![n] = @ - 1]
          /\ job' = [job EXCEPT ![w] = n]
    BY <1>4 DEF Take
  <2>2. /\ at[w] = "idle" /\ at' = [at EXCEPT ![w] = "write"]
        /\ UNCHANGED <<sent, lapsed, rows, failed>>
    BY <1>4 DEF Take
  <2>3. CASE m = n /\ w \notin lapsed
    <3>1. w \in Unacknowledged(m)'
      BY <2>1, <2>2, <2>3 DEF Unacknowledged
    <3> QED BY <3>1
  <2>4. CASE m # n
    <3>1. Unacknowledged(m)' = Unacknowledged(m) /\ ready'[m] = ready[m]
      BY <2>1, <2>2, <2>4, <1>0 DEF Unacknowledged
    <3> QED BY <2>2, <3>1 DEF NothingForgotten
  <2>5. w \notin lapsed
    BY <2>2 DEF HeldInv
  <2> QED BY <2>3, <2>4, <2>5
<1>5. ASSUME NEW w \in Worker, Write(w) \/ Ack(w) \/ FailTask(w)
      PROVE  ready'[m] > 0 \/ Unacknowledged(m)' # {} \/ rows'[m] > 0 \/ m \in failed'
  <2>1. /\ at[w] # "idle" /\ job[w] \in Message /\ m \in sent /\ ready' = ready
        /\ failed \subseteq failed'
    BY <1>5 DEF Write, Ack, FailTask, OriginInv
  <2>2. rows[m] > 0 => rows'[m] > 0
    BY <1>0, <1>5, <2>1 DEF Write, Ack, FailTask
  <2>3. ASSUME NEW v \in Unacknowledged(m), v # w
        PROVE  v \in Unacknowledged(m)'
    BY <1>5, <2>3 DEF Write, Ack, FailTask, Release, Unacknowledged
  <2>4. w \in Unacknowledged(m) => rows'[m] > 0 \/ m \in failed'
    BY <1>5, <1>0, <2>2 DEF Write, Ack, FailTask, Unacknowledged, HeldInv
  <2> QED BY <2>1, <2>2, <2>3, <2>4 DEF NothingForgotten
<1>6. ASSUME NEW w \in Worker, Lapse(w)
      PROVE  ready'[m] > 0 \/ Unacknowledged(m)' # {} \/ rows'[m] > 0 \/ m \in failed'
  <2>1. /\ at[w] # "idle" /\ job[w] \in Message /\ m \in sent
        /\ ready' = [ready EXCEPT ![job[w]] = @ + 1]
        /\ UNCHANGED <<rows, failed, job, at>> /\ lapsed' = lapsed \cup {w}
    BY <1>6 DEF Lapse, OriginInv
  <2>2. CASE job[w] = m
    BY <2>1, <2>2, <1>0
  <2>3. CASE job[w] # m
    <3>1. Unacknowledged(m)' = Unacknowledged(m) /\ ready'[m] = ready[m]
      BY <2>1, <2>3, <1>0 DEF Unacknowledged
    <3> QED BY <2>1, <3>1 DEF NothingForgotten
  <2> QED BY <2>2, <2>3
<1> QED BY <1>1, <1>2, <1>3, <1>4, <1>5, <1>6 DEF Next, Work

---------------------------------------------------------------------------
\* The invariant holds in every reachable state.
LEMMA Invariance == Spec => []IInv
<1>1. IInv /\ [Next]_vars => IInv'
  BY TypeStep, SentStep, CopiesStep, ForgottenStep DEF IInv
<1> QED BY InitIInv, <1>1, PTL DEF Spec

\* Type correctness of the audit trail.
THEOREM TypeCorrect == Spec => []TypeOK
<1>1. IInv => TypeOK
  BY DEF IInv
<1> QED BY <1>1, Invariance, PTL

\* A message the broker took is queued, not acknowledged, written, or its task
\* has failed, however often the container dies or the broker gives it back.
THEOREM NothingIsForgotten == Spec => []NothingForgotten
<1>1. IInv => NothingForgotten
  BY DEF IInv
<1> QED BY <1>1, Invariance, PTL

\* No message has a row that was not sent, nor more rows than one and one for
\* every time the broker gave it back.
THEOREM RowsAreExplained == Spec => []RowsExplained
<1>1. IInv => RowsExplained
  BY Counted DEF IInv, TypeOK, OriginInv, RowsInv, RowsExplained
<1> QED BY <1>1, Invariance, PTL
=============================================================================
