--------------------------- MODULE VerificationLog ---------------------------
(***************************************************************************)
(* What POST /api/v1/verify promises, with every verification an instant.  *)
(* A request is admitted while its key and its organization are open.  If  *)
(* it is recorded, it is so at once, with a row that some content of the   *)
(* rules makes of its payload and of its sight: what it was told of the    *)
(* phone and the address.  The sight misses no verification recorded       *)
(* earlier with the same key, and counts nobody but other requests.        *)
(***************************************************************************)
EXTENDS Naturals, FiniteSets

CONSTANTS
  Req, Call, Counter,
  None,              \* an absent phone or address
  Sight, NoSight,    \* what a request may be told, and nothing
  NoRow,             \* no verification
  Judgements(_, _)   \* the rows the rules may make of a call and a sight

VARIABLES
  call,       \* what each client sends
  standing,   \* of each request: "outside", "admitted", "recorded" or "ended"
  closed,     \* the requests whose key is revoked or organization deactivated
  ledger,     \* the recorded verifications
  seen,       \* the sight each was judged by
  gone        \* the requests each counter has forgotten

vars == <<call, standing, closed, ledger, seen, gone>>

Init ==
  /\ call \in [Req -> Call]
  /\ standing = [r \in Req |-> "outside"]
  /\ closed = {}
  /\ ledger = [r \in Req |-> NoRow]
  /\ seen = [r \in Req |-> NoSight]
  /\ gone = [c \in Counter |-> {}]

\* The verifications recorded with r's key that counter c remembers.
Earlier(r, c) ==
  {q \in Req : /\ standing[q] = "recorded" /\ call[q].key = call[r].key
               /\ c \in {call[q].phone, call[q].ip} /\ q \notin gone[c]}

\* The other requests that got past authentication, whatever their key.
Others(r) == {q \in Req \ {r} : standing[q] # "outside"}

TruePhone(r, sight) ==
  LET p == call[r].phone
  IN  /\ p # None /\ Earlier(r, p) # {} => sight.phoneSeen
      /\ sight.phoneSeen => p # None /\ \E q \in Others(r) : call[q].phone = p

TrueCount(r, sight) ==
  LET i == call[r].ip
  IN  /\ i # None => Cardinality(Earlier(r, i)) <= sight.ipCount
      /\ sight.ipCount <= Cardinality({q \in Others(r) : call[q].ip = i})

---------------------------------------------------------------------------
Admit(r) ==
  /\ standing[r] = "outside" /\ r \notin closed
  /\ standing' = [standing EXCEPT ![r] = "admitted"]
  /\ UNCHANGED <<call, closed, ledger, seen, gone>>

Record(r) ==
  /\ standing[r] = "admitted" /\ call[r].op = "submit"
  /\ standing' = [standing EXCEPT ![r] = "recorded"]
  /\ \E sight \in Sight :
       /\ TruePhone(r, sight) /\ TrueCount(r, sight)
       /\ seen' = [seen EXCEPT ![r] = sight]
       /\ \E row \in Judgements(call[r], sight) : ledger' = [ledger EXCEPT ![r] = row]
  /\ UNCHANGED <<call, closed, gone>>

\* Refused, failed, or a read.
End(r) ==
  /\ standing[r] \in {"outside", "admitted"}
  /\ standing' = [standing EXCEPT ![r] = "ended"]
  /\ UNCHANGED <<call, closed, ledger, seen, gone>>

\* A key is revoked or an organization deactivated, for good.
Close ==
  /\ \E R \in SUBSET Req : closed' = closed \cup R
  /\ UNCHANGED <<call, standing, ledger, seen, gone>>

Forget(c) ==
  /\ \E R \in SUBSET Req : gone' = [gone EXCEPT ![c] = @ \cup R]
  /\ UNCHANGED <<call, standing, closed, ledger, seen>>

Next ==
  \/ \E r \in Req : Admit(r) \/ Record(r) \/ End(r)
  \/ Close
  \/ \E c \in Counter : Forget(c)

Spec == Init /\ [][Next]_vars
=============================================================================
