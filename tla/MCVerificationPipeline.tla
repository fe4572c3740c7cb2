----------------------- MODULE MCVerificationPipeline -----------------------
(***************************************************************************)
(* Instances of VerificationPipeline for TLC.                              *)
(***************************************************************************)
EXTENDS VerificationPipeline, TLC

CONSTANTS r1, r2, r3, k1, o1, o2, p1, i1, d1, reuse, format, local, foreign

OneKeyOrg == (k1 :> o1)

CallWith(op, phone, ip, device) ==
  [key |-> k1, op |-> op, phone |-> phone, ip |-> ip, device |-> device,
   disposable |-> TRUE, badPan |-> TRUE]

\* Submissions that meet on the key, the phone and the IP.
CounterCalls == {CallWith("submit", p1, i1, None)}

\* A submission that meets others at its key and at the rules alone, and a read.
RowCalls == {CallWith("submit", None, None, d1), CallWith("read", None, None, None)}

RuleRow(owner, kind, impact, active) ==
  [owner |-> owner, kind |-> kind, impact |-> impact, active |-> active,
   threshold |-> 2]

OneRule == {(reuse :> RuleRow(Global, "phone_reused", 35, TRUE))}

\* A global rule, a rule of the organization that is switched on and off and
\* takes the total over 100, and a rule of another organization.  All three fire
\* for a submission of RowCalls if they are active and its own.
RowRules ==
  {(format :> RuleRow(Global, "invalid_pan_format", 35, TRUE))
     @@ (local :> RuleRow(o1, "disposable_email", 70, on))
     @@ (foreign :> RuleRow(o2, "disposable_email", 20, TRUE)) : on \in BOOLEAN}

ReqSymmetry == Permutations(Req)
=============================================================================
