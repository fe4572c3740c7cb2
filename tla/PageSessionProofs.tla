------------------------- MODULE PageSessionProofs -------------------------
(***************************************************************************)
(* The page's session, for any tabs, calls and tokens: a token on its way  *)
(* to the page is known to nobody else, and who holds or presents a spent  *)
(* token waits for its successor, lost it, or shared the token.            *)
(***************************************************************************)
EXTENDS PageSession, TLAPS

Presents(c) == call[c].pc \in {"refreshing", "replied", "adrift"}
Waits(c) == call[c].pc \in {"refreshing", "replied"}
Brings(c) == call[c].pc = "replied" /\ call[c].answer = "ok"

\* Calls belong to tabs and present what was issued.
CallInv ==
  \A c \in Call :
    /\ call[c].pc \in {"sent", "refreshing", "replied", "retrying"} => call[c].tab \in Tab
    /\ Presents(c) => call[c].token \in Issued

\* The page holds what was issued.
HeldInv == (\A b \in Tab : mem[b] \in Issued \cup {None}) /\ stored \in Issued \cup {None}

\* The token an answer brings is live, and nobody has it yet.
SecretInv ==
  \A c \in Call : Brings(c) =>
    /\ call[c].given \in Token /\ state[call[c].given] = "live"
    /\ call[c].given # stored
    /\ \A b \in Tab : mem[b] # call[c].given
    /\ \A d \in Call : Presents(d) => call[d].token # call[c].given
    /\ \A d \in Call : Brings(d) /\ call[d].given = call[c].given => d = c

\* A token that two tabs hold, two calls present, or a tab holds that another
\* one's call presents, is shared.
SharedInv ==
  /\ \A a, b \in Tab : mem[a] = mem[b] /\ mem[a] # None => a = b \/ mem[a] \in shared
  /\ \A c, d \in Call : Presents(c) /\ Presents(d) /\ call[c].token = call[d].token =>
       c = d \/ call[c].token \in shared
  /\ \A c \in Call : Waits(c) =>
       /\ \A b \in Tab : mem[b] = call[c].token => b = call[c].tab \/ mem[b] \in shared
       /\ stored = call[c].token => mem[call[c].tab] = stored \/ stored \in shared

\* t is spent, and its successor is lost or is on its way to a call of B.
Spent(t, B) ==
  state[t] = "revoked" => t \in lost \/ \E c \in Call : Brings(c) /\ call[c].token = t /\ call[c].tab \in B

SpentInv ==
  /\ stored # None => Spent(stored, Tab)
  /\ \A b \in Tab : mem[b] # None => Spent(mem[b], {b}) \/ mem[b] \in shared
  /\ \A c \in Call : call[c].pc \in {"refreshing", "adrift"} /\ state[call[c].token] = "revoked" =>
       call[c].token \in lost \cup shared

\* A refusal on its way to the page has a cause.
CauseInv ==
  \A c \in Call : call[c].pc = "replied" /\ call[c].answer = "refused" =>
    call[c].token \in expired \cup barred \cup lost \cup shared

TokenInv == CallInv /\ HeldInv /\ SecretInv /\ SharedInv /\ SpentInv /\ CauseInv

IInv == TypeOK /\ TokenInv

---------------------------------------------------------------------------
\* No token is None.
LEMMA NoneIsNoToken == None \notin Token
BY PageAssumption DEF None, Token

\* The invariant holds when every tab is signed out.
LEMMA InitIInv == Init => IInv
BY NoneIsNoToken
DEF Init, F!Init, NoCall, IInv, TokenInv, TypeOK, CallState, Holding, CallInv, HeldInv, SecretInv,
    SharedInv, SpentInv, Spent, CauseInv, Presents, Waits, Brings

\* What the server's steps make of the store.
LEMMA StoreMoves ==
  ASSUME TypeOK
  PROVE  /\ \A t \in Token : F!Plant(t) =>
              /\ state[t] = "absent" /\ state' = [state EXCEPT ![t] = "live"]
              /\ parent' = parent
         /\ \A t, u \in Token : F!Rotate(t, u) =>
              /\ state[t] = "live" /\ state[u] = "absent"
              /\ state' = [state EXCEPT ![t] = "revoked", ![u] = "live"]
              /\ parent' \in [Token -> Holding]
         /\ \A t, u \in Token : F!Fork(t, u) =>
              /\ state[t] = "revoked" /\ state[u] = "absent"
              /\ state' = [state EXCEPT ![u] = "live"]
              /\ parent' \in [Token -> Holding]
BY DEF F!Plant, F!Rotate, F!Fork, TypeOK, Holding

\* A call at rest.
LEMMA NoCallIs ==
  /\ NoCall \in CallState /\ NoCall.pc = "idle"
  /\ \A b \in Tab : [NoCall EXCEPT !.pc = "sent", !.tab = b] \in CallState
  /\ \A b \in Tab : [NoCall EXCEPT !.pc = "sent", !.tab = b].pc = "sent"
  /\ \A b \in Tab : [NoCall EXCEPT !.pc = "sent", !.tab = b].tab = b
  /\ \A b \in Tab : [NoCall EXCEPT !.pc = "retrying", !.tab = b] \in CallState
  /\ \A b \in Tab : [NoCall EXCEPT !.pc = "retrying", !.tab = b].pc = "retrying"
  /\ \A b \in Tab : [NoCall EXCEPT !.pc = "retrying", !.tab = b].tab = b
BY DEF NoCall, CallState, Holding

\* What an abandoned call is.
LEMMA AbandonedIs ==
  ASSUME NEW k \in CallState
  PROVE  /\ Abandoned(k) \in CallState
         /\ Abandoned(k).pc \in {"idle", "adrift"}
         /\ Abandoned(k).pc = "adrift" => k.pc \in {"refreshing", "adrift"} /\ Abandoned(k).token = k.token
<1>1. CASE k.pc \in {"refreshing", "adrift"}
  <2>1. Abandoned(k) = [k EXCEPT !.pc = "adrift", !.tab = None]
    BY <1>1 DEF Abandoned
  <2>2. Abandoned(k) = [pc |-> "adrift", tab |-> None, token |-> k.token, live |-> k.live,
                        answer |-> k.answer, given |-> k.given]
    BY <2>1 DEF CallState
  <2> QED BY <1>1, <2>2 DEF CallState
<1>2. CASE k.pc \notin {"refreshing", "adrift"}
  <2>1. Abandoned(k) = NoCall
    BY <1>2 DEF Abandoned
  <2> QED BY <2>1 DEF NoCall, CallState, Holding
<1> QED BY <1>1, <1>2

\* A reply concerns its own call alone.
LEMMA ReplyIs ==
  ASSUME TypeOK, NEW c \in Call, NEW what \in {"ok", "cut", "refused", "lost"},
         NEW u \in Holding, Reply(c, what, u)
  PROVE  /\ call' \in [Call -> CallState]
         /\ \A d \in Call \ {c} : call'[d] = call[d]
         /\ \/ /\ call[c].pc = "refreshing" /\ call'[c].pc = "replied"
               /\ call'[c].tab = call[c].tab /\ call'[c].token = call[c].token
               /\ call'[c].answer = what /\ call'[c].given = u
            \/ call[c].pc = "adrift" /\ call'[c] = NoCall
<1>1. CASE call[c].pc = "refreshing"
  BY <1>1 DEF Reply, TypeOK, CallState
<1>2. CASE call[c].pc # "refreshing"
  <2>1. call[c].pc = "adrift" /\ call' = [call EXCEPT ![c] = NoCall]
    BY <1>2 DEF Reply
  <2> QED BY <2>1, NoCallIs DEF TypeOK
<1> QED BY <1>1, <1>2

\* A refresh presents the token its tab holds.
LEMMA RefreshIs ==
  ASSUME TypeOK, CallInv, NEW c \in Call, Refresh(c)
  PROVE  /\ call' \in [Call -> CallState]
         /\ \A d \in Call \ {c} : call'[d] = call[d]
         /\ call[c].pc = "sent" /\ call'[c].pc = "refreshing" /\ call[c].tab \in Tab
         /\ call'[c].tab = call[c].tab
         /\ call'[c].token = mem[call[c].tab] /\ mem[call[c].tab] \in Token
<1> DEFINE t == mem[call[c].tab]
<1>1. call[c].pc = "sent" /\ call[c].tab \in Tab /\ t \in Token
  BY DEF Refresh, CallInv, TypeOK, Holding
<1>2. call' = [call EXCEPT ![c] = [call[c] EXCEPT !.pc = "refreshing", !.token = t,
                                        !.live = (state[t] = "live")]]
  BY DEF Refresh, TypeOK
<1> DEFINE k == [call[c] EXCEPT !.pc = "refreshing", !.token = t, !.live = (state[t] = "live")]
<1>3. k \in CallState /\ k.pc = "refreshing" /\ k.tab = call[c].tab /\ k.token = t
  BY <1>1 DEF TypeOK, CallState, Holding
<1> HIDE DEF k
<1>4. call' = [call EXCEPT ![c] = k]
  BY <1>2 DEF k
<1> QED BY <1>1, <1>3, <1>4 DEF TypeOK

\* A call goes on after its refresh.
LEMMA ContinueIs ==
  ASSUME TypeOK, CallInv, NEW c \in Call, call[c].pc = "replied", Continue(c)
  PROVE  /\ call' \in [Call -> CallState]
         /\ \A d \in Call \ {c} : call'[d] = call[d]
         /\ call'[c].pc = "retrying" /\ call'[c].tab \in Tab
BY NoCallIs DEF Continue, CallInv, TypeOK

\* Every step keeps the types.
LEMMA TypeStep == TypeOK /\ CallInv /\ [Next]_vars => TypeOK'
<1> SUFFICES ASSUME TypeOK, CallInv, [Next]_vars
             PROVE  TypeOK'
  OBVIOUS
<1> USE DEF TypeOK
<1>1. CASE UNCHANGED vars
  BY <1>1 DEF vars, page, server, history
<1>2. ASSUME NEW b \in Tab
      PROVE  SignOut(b) \/ Reload(b) \/ (\E t \in Token : SignIn(b, t)) => TypeOK'
  <2>1. CASE SignOut(b)
    BY <2>1 DEF SignOut, Forget, server, history, Holding
  <2>2. CASE Reload(b)
    BY <2>2, AbandonedIs DEF Reload, server, Refreshing
  <2>3. ASSUME NEW t \in Token, SignIn(b, t)
        PROVE  TypeOK'
    BY <2>3, StoreMoves DEF SignIn, history, Holding
  <2> QED BY <2>1, <2>2, <2>3
<1>3. ASSUME NEW c \in Call
      PROVE  Step(c) \/ (\E b \in Tab : Begin(c, b)) => TypeOK'
  <2>1. NoCall \in CallState
    BY NoCallIs
  <2>2. ASSUME NEW b \in Tab, Begin(c, b)
        PROVE  TypeOK'
    BY NoCallIs, <2>2 DEF Begin, page, server, history
  <2>3. CASE Finish(c) \/ GiveUp(c) \/ Retry(c)
    BY <2>1, <2>3 DEF Finish, GiveUp, Retry, page, server, history
  <2>4. CASE Refresh(c)
    <3>1. mem[call[c].tab] \in Token
      BY <2>4, RefreshIs
    <3>2. call' \in [Call -> CallState]
      BY <2>4, RefreshIs
    <3>3. shared' \subseteq Token
      BY <2>4, <3>1 DEF Refresh
    <3> QED BY <2>4, <3>2, <3>3 DEF Refresh, page, server
  <2>5. CASE Rotate(c)
    <3>1. call[c].token \in Token
      BY <2>5 DEF Rotate, Reply, CallInv, Presents, Issued
    <3>2. PICK u \in Token, what \in {"ok", "cut", "lost"} :
            /\ Reply(c, what, IF what = "ok" THEN u ELSE None)
            /\ F!Rotate(call[c].token, u) \/ F!Fork(call[c].token, u)
            /\ lost' \subseteq lost \cup {call[c].token}
      BY <2>5 DEF Rotate
    <3>3. call' \in [Call -> CallState]
      BY <3>2, ReplyIs DEF Holding
    <3>4. state' \in [Token -> {"absent", "live", "revoked"}] /\ parent' \in [Token -> Holding]
      BY <3>1, <3>2, StoreMoves
    <3> QED BY <2>5, <3>1, <3>2, <3>3, <3>4 DEF Rotate, page
  <2>6. CASE Refuse(c) \/ FailRefresh(c)
    BY <2>6, ReplyIs DEF Refuse, FailRefresh, page, server, history, Holding
  <2>7. CASE Store(c) \/ Fall(c)
    <3>1. call' \in [Call -> CallState]
      BY <2>7, ContinueIs DEF Store, Fall
    <3> QED BY <2>7, <3>1 DEF Store, Fall, Forget, server, history, CallState, Holding
  <2> QED BY <2>2, <2>3, <2>4, <2>5, <2>6, <2>7 DEF Step, Serve, Take
<1>4. ASSUME NEW t \in Token, ExpireRefresh(t)
      PROVE  TypeOK'
  BY <1>4 DEF ExpireRefresh, page, history
<1>5. ASSUME NEW T \in SUBSET Issued, Deactivate(T)
      PROVE  TypeOK'
  BY <1>5 DEF Deactivate, Issued, page, history
<1> QED BY <1>1, <1>2, <1>3, <1>4, <1>5 DEF Next

---------------------------------------------------------------------------
\* A sign-out takes tokens from the page alone.
LEMMA SignOutStep ==
  ASSUME IInv, NEW b \in Tab, SignOut(b)
  PROVE  TokenInv'
<1> USE NoneIsNoToken
    DEF IInv, TypeOK, TokenInv, SignOut, Forget, server, history, Presents, Waits, Brings
<1>1. CallInv'
  BY DEF CallInv, Issued
<1>2. HeldInv'
  BY DEF HeldInv, Issued
<1>3. SecretInv'
  BY DEF SecretInv
<1>4. SharedInv'
  BY DEF SharedInv, CallInv, Issued
<1>5. SpentInv'
  BY DEF SpentInv, Spent
<1>6. CauseInv'
  BY DEF CauseInv
<1> QED BY <1>1, <1>2, <1>3, <1>4, <1>5, <1>6

\* A sign-in brings a token nobody knows.
LEMMA SignInStep ==
  ASSUME IInv, NEW b \in Tab, NEW t \in Token, SignIn(b, t)
  PROVE  TokenInv'
<1> USE NoneIsNoToken DEF IInv, TypeOK, TokenInv, Presents, Waits, Brings
<1>1. /\ mem' = [mem EXCEPT ![b] = t] /\ stored' = t
      /\ UNCHANGED <<call, expired, barred, lost, shared>>
      /\ state[t] = "absent" /\ state' = [state EXCEPT ![t] = "live"]
  BY StoreMoves DEF SignIn, history
<1>2. CallInv'
  BY <1>1 DEF CallInv, Issued
<1>3. HeldInv'
  BY <1>1 DEF HeldInv, Issued
<1>4. SecretInv'
  BY <1>1 DEF SecretInv, CallInv, Issued
<1>5. SharedInv'
  BY <1>1 DEF SharedInv, CallInv, HeldInv, Issued
<1>6. SpentInv'
  BY <1>1 DEF SpentInv, Spent, CallInv, HeldInv, Issued
<1>7. CauseInv'
  BY <1>1 DEF CauseInv
<1> QED BY <1>2, <1>3, <1>4, <1>5, <1>6, <1>7

\* A call that neither presents nor brings a token may begin or end.
LEMMA QuietStep ==
  ASSUME IInv, NEW c \in Call, UNCHANGED <<mem, stored, state, expired, barred, lost, shared>>,
         call' \in [Call -> CallState], \A d \in Call \ {c} : call'[d] = call[d],
         ~Brings(c), ~Presents(c)', call'[c].pc = "idle" \/ call'[c].tab \in Tab
  PROVE  TokenInv'
<1> USE NoneIsNoToken DEF IInv, TypeOK, TokenInv
<1>1. \A d \in Call : (Presents(d)' => d # c /\ Presents(d)) /\ (Waits(d)' => d # c /\ Waits(d))
  BY DEF Presents, Waits
<1>2. \A d \in Call : Brings(d)' <=> Brings(d)
  BY DEF Brings, Presents
<1>3. CallInv'
  BY <1>1 DEF CallInv, Issued
<1>4. HeldInv'
  BY DEF HeldInv, Issued
<1>5. SecretInv'
  BY <1>1, <1>2 DEF SecretInv
<1>6. SharedInv'
  BY <1>1 DEF SharedInv
<1>7. SpentInv'
  <2>1. \A d \in Call : call'[d].pc \in {"refreshing", "adrift"} => d # c
    BY DEF Presents
  <2>2. \A d \in Call : Brings(d) => d # c
    OBVIOUS
  <2> QED BY <1>2, <2>1, <2>2 DEF SpentInv, Spent
<1>8. CauseInv'
  <2>1. \A d \in Call : call'[d].pc = "replied" => d # c
    BY DEF Presents
  <2> QED BY <2>1 DEF CauseInv
<1> QED BY <1>3, <1>4, <1>5, <1>6, <1>7, <1>8

\* A refresh that leaves shares its token if another one is under way.
LEMMA RefreshStep ==
  ASSUME IInv, NEW c \in Call, Refresh(c)
  PROVE  TokenInv'
<1> USE NoneIsNoToken DEF IInv, TypeOK, TokenInv
<1> DEFINE t == mem[call[c].tab]
<1>1. /\ UNCHANGED <<mem, stored, state, expired, barred, lost>>
      /\ shared \subseteq shared' /\ (Refreshing(t) # {} => t \in shared')
  BY DEF Refresh, page, server
<1>2. /\ call[c].pc = "sent" /\ call'[c].pc = "refreshing" /\ call[c].tab \in Tab
      /\ call'[c].tab = call[c].tab /\ call'[c].token = t /\ t \in Token
      /\ \A d \in Call \ {c} : call'[d] = call[d]
  BY RefreshIs
<1>3. \A d \in Call : Presents(d) /\ call[d].token = t => t \in shared'
  BY <1>1 DEF Refreshing, Presents
<1>4. \A d \in Call : Brings(d)' <=> Brings(d)
  BY <1>2 DEF Brings
<1> HIDE DEF t
<1>5. t \in Issued /\ t # None
  BY <1>2 DEF t, HeldInv
<1>6. CallInv'
  BY <1>1, <1>2, <1>5 DEF CallInv, Presents, Issued
<1>7. HeldInv'
  BY <1>1 DEF HeldInv, Issued
<1>8. SecretInv'
  <2>1. \A d \in Call : Brings(d) => call[d].given # t
    BY <1>2 DEF SecretInv, t
  <2> QED BY <1>1, <1>2, <1>4, <2>1 DEF SecretInv, Presents, Brings
<1>9. SharedInv'
  <2>1. \A b \in Tab : mem[b] = t => b = call[c].tab \/ t \in shared
    BY <1>2, <1>5 DEF SharedInv, t
  <2>2. \A d, e \in Call : Presents(d)' /\ Presents(e)' /\ call'[d].token = call'[e].token =>
          d = e \/ call'[d].token \in shared'
    <3>1. \A d \in Call \ {c} : Presents(d)' <=> Presents(d)
      BY <1>2 DEF Presents
    <3> QED BY <1>1, <1>2, <1>3, <3>1 DEF SharedInv
  <2>3. ASSUME NEW d \in Call, Waits(d)'
        PROVE  /\ \A b \in Tab : mem[b] = call'[d].token => b = call'[d].tab \/ mem[b] \in shared'
               /\ stored = call'[d].token => mem[call'[d].tab] = stored \/ stored \in shared'
    <3>1. CASE d = c
      BY <1>1, <1>2, <2>1, <3>1 DEF t
    <3>2. CASE d # c
      BY <1>1, <1>2, <2>3, <3>2 DEF SharedInv, Waits
    <3> QED BY <3>1, <3>2
  <2> QED BY <1>1, <2>2, <2>3 DEF SharedInv
<1>10. SpentInv'
  <2>1. \A d \in Call : Brings(d) => d # c
    BY <1>2 DEF Brings
  <2>2. \A u, B : Spent(u, B) => Spent(u, B)'
    BY <1>1, <1>2, <1>4, <2>1 DEF Spent
  <2>3. state[t] = "revoked" => t \in lost \cup shared'
    <3>1. Spent(t, {call[c].tab}) \/ t \in shared
      BY <1>2, <1>5 DEF SpentInv, t
    <3> QED BY <1>1, <1>3, <3>1 DEF Spent, Brings, Presents
  <2>4. \A d \in Call : call'[d].pc \in {"refreshing", "adrift"} /\ state[call'[d].token] = "revoked"
          => call'[d].token \in lost \cup shared'
    BY <1>1, <1>2, <2>3 DEF SpentInv
  <2> QED BY <1>1, <2>2, <2>4 DEF SpentInv
<1>11. CauseInv'
  BY <1>1, <1>2 DEF CauseInv
<1> QED BY <1>6, <1>7, <1>8, <1>9, <1>10, <1>11

\* Tokens expire without the page's doing.
LEMMA ExpireStep ==
  ASSUME IInv, NEW t \in Token, ExpireRefresh(t)
  PROVE  TokenInv'
<1> USE DEF IInv, TypeOK, TokenInv, ExpireRefresh, page, history, Presents, Waits, Brings
<1>1. CallInv' /\ HeldInv' /\ SecretInv' /\ SharedInv' /\ SpentInv'
  BY DEF CallInv, HeldInv, SecretInv, SharedInv, SpentInv, Spent, Issued
<1>2. CauseInv'
  BY DEF CauseInv
<1> QED BY <1>1, <1>2

\* Accounts are deactivated without the page's doing.
LEMMA DeactivateStep ==
  ASSUME IInv, NEW T \in SUBSET Issued, Deactivate(T)
  PROVE  TokenInv'
<1> USE DEF IInv, TypeOK, TokenInv, Deactivate, page, history, Presents, Waits, Brings
<1>1. CallInv' /\ HeldInv' /\ SecretInv' /\ SharedInv' /\ SpentInv'
  BY DEF CallInv, HeldInv, SecretInv, SharedInv, SpentInv, Spent, Issued
<1>2. CauseInv'
  BY DEF CauseInv
<1> QED BY <1>1, <1>2

\* An answer without tokens changes nothing but its call.
LEMMA EmptyReplyStep ==
  ASSUME IInv, NEW c \in Call, Refuse(c) \/ FailRefresh(c)
  PROVE  TokenInv'
<1> USE NoneIsNoToken DEF IInv, TypeOK, TokenInv
<1>1. /\ UNCHANGED <<mem, stored, state, expired, barred, lost, shared>>
      /\ \E what \in {"refused", "lost"} :
           /\ Reply(c, what, None)
           /\ what = "refused" => state[call[c].token] = "revoked" \/ call[c].token \in expired \cup barred
  BY DEF Refuse, FailRefresh, page, server, history
<1>2. PICK what \in {"refused", "lost"} :
        /\ Reply(c, what, None)
        /\ what = "refused" => state[call[c].token] = "revoked" \/ call[c].token \in expired \cup barred
  BY <1>1
<1>3. /\ \A d \in Call \ {c} : call'[d] = call[d]
      /\ \/ /\ call[c].pc = "refreshing" /\ call'[c].pc = "replied"
            /\ call'[c].tab = call[c].tab /\ call'[c].token = call[c].token
            /\ call'[c].answer = what
         \/ call[c].pc = "adrift" /\ call'[c].pc = "idle"
  <2>1. None \in Holding
    BY DEF Holding
  <2> HIDE DEF IInv, TokenInv, TypeOK
  <2>2. TypeOK
    BY DEF IInv
  <2>3. /\ \A d \in Call \ {c} : call'[d] = call[d]
        /\ \/ /\ call[c].pc = "refreshing" /\ call'[c].pc = "replied"
              /\ call'[c].tab = call[c].tab /\ call'[c].token = call[c].token
              /\ call'[c].answer = what /\ call'[c].given = None
           \/ call[c].pc = "adrift" /\ call'[c] = NoCall
    BY <1>2, <2>1, <2>2, ReplyIs
  <2>4. NoCall.pc = "idle"
    BY NoCallIs
  <2> QED BY <2>3, <2>4
<1>4. \A d \in Call : (Presents(d)' => Presents(d) /\ call'[d].token = call[d].token)
        /\ (Waits(d)' => Waits(d) /\ call'[d].token = call[d].token /\ call'[d].tab = call[d].tab)
  BY <1>3 DEF Presents, Waits
<1>5. /\ \A d \in Call : Brings(d)' <=> Brings(d)
      /\ \A d \in Call : Brings(d) => d # c
  BY <1>3 DEF Brings
<1>6. CallInv'
  BY <1>1, <1>3, <1>4 DEF CallInv, Issued
<1>7. HeldInv'
  BY <1>1 DEF HeldInv, Issued
<1>8. SecretInv'
  BY <1>1, <1>3, <1>4, <1>5 DEF SecretInv
<1>9. SharedInv'
  BY <1>1, <1>4 DEF SharedInv
<1>10. SpentInv'
  <2>1. \A u, B : Spent(u, B) => Spent(u, B)'
    BY <1>1, <1>3, <1>5 DEF Spent
  <2>2. \A d \in Call : call'[d].pc \in {"refreshing", "adrift"} => call'[d] = call[d]
    BY <1>3
  <2> QED BY <1>1, <2>1, <2>2 DEF SpentInv
<1>11. CauseInv'
  <2>1. call'[c].pc = "replied" /\ call'[c].answer = "refused" =>
          call[c].token \in expired \cup barred \cup lost \cup shared
    BY <1>2, <1>3 DEF SpentInv
  <2> QED BY <1>1, <1>3, <2>1 DEF CauseInv
<1> QED BY <1>6, <1>7, <1>8, <1>9, <1>10, <1>11

\* A rotation spends the token that was presented and gives its successor to
\* the call that waits, or to nobody.
LEMMA RotateStep ==
  ASSUME IInv, NEW c \in Call, Rotate(c)
  PROVE  TokenInv'
<1> USE NoneIsNoToken DEF IInv, TypeOK, TokenInv
<1> DEFINE t == call[c].token
<1>1. PICK u \in Token, what \in {"ok", "cut", "lost"} :
        /\ Reply(c, what, IF what = "ok" THEN u ELSE None)
        /\ F!Rotate(t, u) \/ F!Fork(t, u)
        /\ lost' = IF call[c].pc = "adrift" \/ what # "ok" THEN lost \cup {t} ELSE lost
  BY DEF Rotate
<1>2. UNCHANGED <<mem, stored, expired, barred, shared>>
  BY DEF Rotate, page
<1>3. /\ \A d \in Call \ {c} : call'[d] = call[d]
      /\ \/ /\ call[c].pc = "refreshing" /\ call'[c].pc = "replied"
            /\ call'[c].tab = call[c].tab /\ call'[c].token = t
            /\ call'[c].answer = what /\ (what = "ok" => call'[c].given = u)
         \/ call[c].pc = "adrift" /\ call'[c].pc = "idle"
  <2> DEFINE given == IF what = "ok" THEN u ELSE None
  <2>1. given \in Holding /\ (what = "ok" => given = u)
    BY DEF Holding
  <2>2. Reply(c, what, given)
    BY <1>1
  <2> HIDE DEF IInv, TokenInv, TypeOK, given
  <2>3. TypeOK
    BY DEF IInv
  <2>4. /\ \A d \in Call \ {c} : call'[d] = call[d]
        /\ \/ /\ call[c].pc = "refreshing" /\ call'[c].pc = "replied"
              /\ call'[c].tab = call[c].tab /\ call'[c].token = t
              /\ call'[c].answer = what /\ call'[c].given = given
           \/ call[c].pc = "adrift" /\ call'[c] = NoCall
    BY <2>1, <2>2, <2>3, ReplyIs
  <2>5. NoCall.pc = "idle"
    BY NoCallIs
  <2> QED BY <2>1, <2>4, <2>5
<1> HIDE DEF t
<1>4. t \in Token /\ t \in Issued /\ Presents(c)
  BY <1>3 DEF CallInv, Presents, Issued, t
<1>5. /\ state[u] = "absent" /\ state'[u] = "live" /\ u # t /\ state[t] # "absent"
      /\ \A v \in Token \ {t, u} : state'[v] = state[v]
      /\ state'[t] = "revoked"
  BY <1>1, <1>4, StoreMoves DEF Issued
<1>6. \A d \in Call : (Presents(d)' => Presents(d) /\ call'[d].token = call[d].token)
        /\ (Waits(d)' => Waits(d) /\ call'[d].token = call[d].token /\ call'[d].tab = call[d].tab)
  BY <1>3 DEF Presents, Waits, t
<1>7. /\ \A d \in Call \ {c} : Brings(d)' <=> Brings(d)
      /\ ~Brings(c) /\ (Brings(c)' => call'[c].given = u)
  BY <1>3 DEF Brings
<1>8. Issued \subseteq Issued' /\ u \notin Issued
  BY <1>5 DEF Issued
<1>9. CallInv'
  BY <1>3, <1>6, <1>8 DEF CallInv
<1>10. HeldInv'
  BY <1>2, <1>8 DEF HeldInv
<1>11. SecretInv'
  <2>1. \A d \in Call : Brings(d) => call[d].given \in Token \ {t, u} /\ state[call[d].given] = "live"
    BY <1>4, <1>5 DEF SecretInv, t
  <2>2. /\ u # stored /\ \A b \in Tab : mem[b] # u
        /\ \A d \in Call : Presents(d) => call[d].token # u
    BY <1>8 DEF HeldInv, CallInv
  <2>3. ASSUME NEW d \in Call, Brings(d)'
        PROVE  /\ call'[d].given \in Token /\ state'[call'[d].given] = "live"
               /\ call'[d].given # stored
               /\ \A b \in Tab : mem[b] # call'[d].given
               /\ \A e \in Call : Presents(e)' => call'[e].token # call'[d].given
               /\ \A e \in Call : Brings(e)' /\ call'[e].given = call'[d].given => e = d
    <3>1. CASE d = c
      BY <1>3, <1>5, <1>6, <1>7, <2>1, <2>2, <2>3, <3>1
    <3>2. CASE d # c
      <4>1. Brings(d) /\ call'[d] = call[d]
        BY <1>3, <1>7, <2>3, <3>2
      <4> QED BY <1>3, <1>5, <1>6, <1>7, <2>1, <4>1 DEF SecretInv
    <3> QED BY <3>1, <3>2
  <2> QED BY <1>2, <2>3 DEF SecretInv
<1>12. SharedInv'
  BY <1>2, <1>6 DEF SharedInv
<1>13. SpentInv'
  <2>1. ASSUME NEW v \in Issued, NEW B, v # t, Spent(v, B)
        PROVE  Spent(v, B)'
    <3>1. state'[v] = state[v]
      BY <1>5, <1>8, <2>1 DEF Issued
    <3>2. \A d \in Call : Brings(d) => Brings(d)' /\ call'[d] = call[d]
      BY <1>3, <1>7
    <3> QED BY <1>1, <2>1, <3>1, <3>2 DEF Spent
  <2>2. t \in lost' \/ (Waits(c) /\ Brings(c)' /\ call'[c].token = t /\ call'[c].tab = call[c].tab)
    BY <1>1, <1>3 DEF Brings, Waits
  <2>3. call[c].tab \in Tab \/ t \in lost'
    BY <2>2 DEF CallInv, Waits
  <2>4. stored # None => Spent(stored, Tab)'
    <3>1. CASE stored = t
      BY <1>2, <2>2, <2>3, <3>1 DEF Spent
    <3>2. CASE stored # t
      BY <1>2, <2>1, <3>2 DEF SpentInv, HeldInv
    <3> QED BY <3>1, <3>2
  <2>5. ASSUME NEW b \in Tab, mem[b] # None
        PROVE  Spent(mem[b], {b})' \/ mem[b] \in shared
    <3>1. CASE mem[b] = t
      <4>1. Waits(c) => b = call[c].tab \/ t \in shared
        BY <3>1 DEF SharedInv, t
      <4> QED BY <1>2, <2>2, <3>1, <4>1 DEF Spent
    <3>2. CASE mem[b] # t
      BY <1>2, <2>1, <2>5, <3>2 DEF SpentInv, HeldInv
    <3> QED BY <3>1, <3>2
  <2>6. ASSUME NEW d \in Call, call'[d].pc \in {"refreshing", "adrift"},
               state'[call'[d].token] = "revoked"
        PROVE  call'[d].token \in lost' \cup shared
    <3>1. d # c /\ call'[d] = call[d] /\ Presents(d)
      BY <1>3, <2>6 DEF Presents
    <3>2. CASE call[d].token = t
      BY <1>4, <3>1, <3>2 DEF SharedInv, t
    <3>3. CASE call[d].token # t
      <4>1. call[d].token \in Token \ {u}
        BY <1>8, <3>1 DEF CallInv, Issued
      <4>2. call[d].token \in lost \cup shared
        BY <1>5, <2>6, <3>1, <3>3, <4>1 DEF SpentInv
      <4> QED BY <1>1, <3>1, <4>2
    <3> QED BY <3>2, <3>3
  <2> QED BY <1>2, <2>4, <2>5, <2>6 DEF SpentInv
<1>14. CauseInv'
  BY <1>1, <1>2, <1>3 DEF CauseInv
<1> QED BY <1>9, <1>10, <1>11, <1>12, <1>13, <1>14

\* The tokens of an answer are live, and known to its tab alone until then.
LEMMA StoreStep ==
  ASSUME IInv, NEW c \in Call, Store(c)
  PROVE  TokenInv'
<1> USE NoneIsNoToken DEF IInv, TypeOK, TokenInv
<1> DEFINE a == call[c].tab
           u == call[c].given
<1>1. /\ Brings(c) /\ call[c].pc = "replied"
      /\ mem' = [mem EXCEPT ![a] = u] /\ stored' = u
      /\ UNCHANGED <<state, expired, barred, lost, shared>>
  BY DEF Store, server, history, Brings
<1>2. /\ \A d \in Call \ {c} : call'[d] = call[d]
      /\ call'[c].pc = "retrying" /\ call'[c].tab \in Tab
  BY <1>1, ContinueIs DEF Store
<1>3. a \in Tab
  BY <1>1 DEF CallInv
<1>4. /\ u \in Token /\ u \in Issued /\ state[u] = "live" /\ u # stored
      /\ \A b \in Tab : mem[b] # u
      /\ \A d \in Call : Presents(d) => call[d].token # u
      /\ \A d \in Call : Brings(d) /\ call[d].given = u => d = c
  BY <1>1 DEF SecretInv, Issued
<1> HIDE DEF a, u
<1>5. mem'[a] = u /\ \A b \in Tab \ {a} : mem'[b] = mem[b]
  BY <1>1, <1>3
<1>6. \A d \in Call :
        /\ Presents(d)' => Presents(d) /\ d # c
        /\ Waits(d)' => Waits(d) /\ d # c
        /\ Brings(d)' <=> Brings(d) /\ d # c
  BY <1>2 DEF Presents, Waits, Brings
<1>7. CallInv'
  BY <1>1, <1>2, <1>6 DEF CallInv, Issued
<1>8. HeldInv'
  BY <1>1, <1>4, <1>5 DEF HeldInv, Issued
<1>9. SecretInv'
  BY <1>1, <1>2, <1>4, <1>5, <1>6 DEF SecretInv
<1>10. SharedInv'
  BY <1>1, <1>2, <1>4, <1>5, <1>6 DEF SharedInv, Waits, Presents
<1>11. SpentInv'
  <2>1. Spent(stored, Tab)'
    BY <1>1, <1>4 DEF Spent
  <2>2. ASSUME NEW b \in Tab, mem'[b] # None
        PROVE  Spent(mem[b], {b})' \/ mem'[b] \in shared
    <3>1. CASE b = a
      BY <1>1, <1>4, <1>5, <3>1 DEF Spent
    <3>2. CASE b # a
      <4>1. mem'[b] = mem[b]
        BY <1>5, <3>2
      <4>2. Spent(mem[b], {b}) \/ mem[b] \in shared
        BY <2>2, <4>1 DEF SpentInv
      <4> QED BY <1>1, <1>2, <1>6, <3>2, <4>1, <4>2 DEF Spent, a
    <3> QED BY <3>1, <3>2
  <2>3. \A d \in Call : call'[d].pc \in {"refreshing", "adrift"} => call'[d] = call[d]
    BY <1>2
  <2> QED BY <1>1, <2>1, <2>2, <2>3 DEF SpentInv
<1>12. CauseInv'
  BY <1>1, <1>2 DEF CauseInv
<1> QED BY <1>7, <1>8, <1>9, <1>10, <1>11, <1>12

\* A page that is refused is signed out, whatever it holds by then.
LEMMA FallStep ==
  ASSUME IInv, NEW c \in Call, Fall(c)
  PROVE  TokenInv'
<1> USE NoneIsNoToken DEF IInv, TypeOK, TokenInv
<1> DEFINE a == call[c].tab
<1>1. /\ ~Brings(c) /\ call[c].pc = "replied"
      /\ mem' = [mem EXCEPT ![a] = None] /\ stored' = None
      /\ UNCHANGED <<state, expired, barred, lost, shared>>
  BY DEF Fall, Forget, server, history, Brings
<1>2. /\ \A d \in Call \ {c} : call'[d] = call[d]
      /\ call'[c].pc = "retrying" /\ call'[c].tab \in Tab
  BY <1>1, ContinueIs DEF Fall
<1>3. a \in Tab
  BY <1>1 DEF CallInv
<1> HIDE DEF a
<1>4. mem'[a] = None /\ \A b \in Tab \ {a} : mem'[b] = mem[b]
  BY <1>1, <1>3
<1>5. \A d \in Call :
        /\ Presents(d)' => Presents(d) /\ d # c
        /\ Waits(d)' => Waits(d) /\ d # c
        /\ Brings(d)' <=> Brings(d)
        /\ Brings(d) => d # c
  BY <1>1, <1>2 DEF Presents, Waits, Brings
<1>6. CallInv'
  BY <1>1, <1>2, <1>5 DEF CallInv, Issued
<1>7. HeldInv'
  BY <1>1, <1>4 DEF HeldInv, Issued
<1>8. SecretInv'
  BY <1>1, <1>2, <1>4, <1>5 DEF SecretInv
<1>9. SharedInv'
  <2>1. \A d \in Call : Presents(d) => call[d].token # None
    BY DEF CallInv, Issued
  <2> QED BY <1>1, <1>2, <1>4, <1>5, <2>1 DEF SharedInv, Waits, Presents
<1>10. SpentInv'
  <2>1. ASSUME NEW b \in Tab, mem'[b] # None
        PROVE  Spent(mem[b], {b})' \/ mem'[b] \in shared
    <3>1. mem'[b] = mem[b]
      BY <1>4, <2>1
    <3>2. Spent(mem[b], {b}) \/ mem[b] \in shared
      BY <2>1, <3>1 DEF SpentInv
    <3> QED BY <1>1, <1>2, <1>5, <3>1, <3>2 DEF Spent
  <2>2. \A d \in Call : call'[d].pc \in {"refreshing", "adrift"} => call'[d] = call[d]
    BY <1>2
  <2> QED BY <1>1, <2>1, <2>2 DEF SpentInv
<1>11. CauseInv'
  BY <1>1, <1>2 DEF CauseInv
<1> QED BY <1>6, <1>7, <1>8, <1>9, <1>10, <1>11

\* A reload drops the tab's calls: answers on their way to it are lost.
LEMMA ReloadStep ==
  ASSUME IInv, NEW b \in Tab, Reload(b)
  PROVE  TokenInv'
<1> USE NoneIsNoToken DEF IInv, TypeOK, TokenInv
<1>1. /\ mem' = [mem EXCEPT ![b] = stored]
      /\ UNCHANGED <<stored, state, expired, barred>>
      /\ lost \subseteq lost' /\ shared \subseteq shared'
  BY DEF Reload, server
<1>2. \A d \in Call : call'[d] = IF call[d].tab = b THEN Abandoned(call[d]) ELSE call[d]
  BY DEF Reload
<1>3. \A d \in Call : Presents(d) /\ call[d].tab = b /\ call[d].pc = "replied" =>
        call[d].token \in lost'
  <2> SUFFICES ASSUME NEW d \in Call, Presents(d), call[d].tab = b, call[d].pc = "replied"
               PROVE  call[d].token \in lost'
    OBVIOUS
  <2>1. call[d].token \in Token /\ d \in Refreshing(call[d].token)
    BY DEF CallInv, Issued, Refreshing
  <2> QED BY <2>1 DEF Reload
<1>4. \A a \in Tab \ {b} : mem[a] = stored /\ stored # None => stored \in shared'
  BY DEF Reload, Holding
<1>5. mem'[b] = stored /\ \A a \in Tab \ {b} : mem'[a] = mem[a]
  BY <1>1
<1>6. \A d \in Call : call[d] \in CallState
  OBVIOUS
<1>7. \A d \in Call :
        /\ Presents(d)' => Presents(d) /\ call'[d].token = call[d].token
        /\ Waits(d)' => Waits(d) /\ call'[d] = call[d] /\ call[d].tab # b
        /\ Brings(d)' <=> Brings(d) /\ call[d].tab # b
  BY <1>2, <1>6, AbandonedIs DEF Presents, Waits, Brings
<1>8. CallInv'
  <2>1. \A d \in Call : call'[d].pc \in {"sent", "refreshing", "replied", "retrying"} =>
          call'[d] = call[d]
    BY <1>2, <1>6, AbandonedIs
  <2> QED BY <1>1, <1>7, <2>1 DEF CallInv, Issued
<1>9. HeldInv'
  BY <1>1, <1>5 DEF HeldInv, Issued
<1>10. SecretInv'
  <2>1. \A d \in Call : Brings(d)' => call'[d] = call[d]
    BY <1>2, <1>7
  <2> QED BY <1>1, <1>5, <1>7, <2>1 DEF SecretInv
<1>11. SharedInv'
  <2>1. \A a, e \in Tab : mem'[a] = mem'[e] /\ mem'[a] # None => a = e \/ mem'[a] \in shared'
    BY <1>1, <1>4, <1>5 DEF SharedInv
  <2>2. \A c, d \in Call : Presents(c)' /\ Presents(d)' /\ call'[c].token = call'[d].token =>
          c = d \/ call'[c].token \in shared'
    BY <1>1, <1>7 DEF SharedInv
  <2>3. ASSUME NEW c \in Call, Waits(c)'
        PROVE  /\ \A a \in Tab : mem'[a] = call'[c].token => a = call'[c].tab \/ mem'[a] \in shared'
               /\ stored = call'[c].token => mem'[call'[c].tab] = stored \/ stored \in shared'
    <3>1. Waits(c) /\ call'[c] = call[c] /\ call[c].tab \in Tab \ {b} /\ call[c].token # None
      BY <1>7, <2>3 DEF CallInv, Waits, Presents, Issued
    <3>2. stored = call[c].token => stored \in shared'
      BY <1>1, <1>4, <3>1 DEF SharedInv
    <3>3. \A a \in Tab : mem'[a] = call[c].token => a = call[c].tab \/ mem'[a] \in shared'
      BY <1>1, <1>5, <3>1, <3>2 DEF SharedInv
    <3> QED BY <3>1, <3>2, <3>3
  <2> QED BY <1>1, <2>1, <2>2, <2>3 DEF SharedInv
<1>12. SpentInv'
  <2>1. ASSUME NEW t, NEW B, Spent(t, B)
        PROVE  Spent(t, B)'
    <3>1. CASE \E c \in Call : Brings(c) /\ call[c].token = t /\ call[c].tab \in B
      <4>1. PICK c \in Call : Brings(c) /\ call[c].token = t /\ call[c].tab \in B
        BY <3>1
      <4>2. CASE call[c].tab = b
        BY <1>3, <4>1, <4>2 DEF Spent, Brings, Presents
      <4>3. CASE call[c].tab # b
        BY <1>2, <1>7, <4>1, <4>3 DEF Spent
      <4> QED BY <4>2, <4>3
    <3>2. CASE state[t] = "revoked" => t \in lost
      BY <1>1, <3>2 DEF Spent
    <3> QED BY <2>1, <3>1, <3>2 DEF Spent
  <2>2. stored # None => Spent(stored, Tab)'
    BY <1>1, <2>1 DEF SpentInv
  <2>3. ASSUME stored # None
        PROVE  Spent(stored, {b})' \/ stored \in shared'
    <3>1. CASE \E c \in Call : Brings(c) /\ call[c].token = stored /\ call[c].tab \in Tab
      <4>1. PICK c \in Call : Brings(c) /\ call[c].token = stored /\ call[c].tab \in Tab
        BY <3>1
      <4>2. CASE call[c].tab = b
        BY <1>1, <1>3, <4>1, <4>2 DEF Spent, Brings, Presents
      <4>3. CASE call[c].tab # b
        BY <1>1, <1>4, <2>3, <4>1, <4>3 DEF SharedInv, Brings, Waits
      <4> QED BY <4>2, <4>3
    <3>2. CASE state[stored] = "revoked" => stored \in lost
      BY <1>1, <3>2 DEF Spent
    <3> QED BY <2>3, <3>1, <3>2 DEF SpentInv, Spent
  <2>4. ASSUME NEW a \in Tab, mem'[a] # None
        PROVE  Spent(mem[a], {a})' \/ mem'[a] \in shared'
    <3>1. CASE a = b
      BY <1>1, <1>5, <2>3, <2>4, <3>1 DEF Spent
    <3>2. CASE a # b
      <4>1. mem'[a] = mem[a]
        BY <1>5, <3>2
      <4>2. Spent(mem[a], {a}) \/ mem[a] \in shared
        BY <2>4, <4>1 DEF SpentInv
      <4>3. \A t : t = mem[a] /\ Spent(mem[a], {a}) => Spent(t, {a})'
        BY <2>1
      <4>4. Spent(mem[a], {a}) => Spent(mem[a], {a})'
        BY <4>1, <4>3 DEF Spent
      <4> QED BY <1>1, <4>1, <4>2, <4>4
    <3> QED BY <3>1, <3>2
  <2>5. ASSUME NEW d \in Call, call'[d].pc \in {"refreshing", "adrift"},
               state'[call'[d].token] = "revoked"
        PROVE  call'[d].token \in lost' \cup shared'
    <3>1. call[d].pc \in {"refreshing", "adrift"} /\ call'[d].token = call[d].token
      BY <1>2, <1>6, <2>5, AbandonedIs
    <3> QED BY <1>1, <2>5, <3>1 DEF SpentInv
  <2> QED BY <1>1, <2>2, <2>4, <2>5 DEF SpentInv
<1>13. CauseInv'
  <2>1. \A d \in Call : call'[d].pc = "replied" => call'[d] = call[d]
    BY <1>2, <1>6, AbandonedIs
  <2> QED BY <1>1, <2>1 DEF CauseInv
<1> QED BY <1>8, <1>9, <1>10, <1>11, <1>12, <1>13

---------------------------------------------------------------------------
\* Every step keeps what is known of the tokens.
LEMMA TokenStep == IInv /\ [Next]_vars => TokenInv'
<1> SUFFICES ASSUME IInv, [Next]_vars
             PROVE  TokenInv'
  OBVIOUS
<1>1. CASE UNCHANGED vars
  BY <1>1
  DEF IInv, TokenInv, vars, page, server, history, CallInv, HeldInv, SecretInv, SharedInv,
      SpentInv, Spent, CauseInv, Presents, Waits, Brings, Issued
<1>2. ASSUME NEW c \in Call, Step(c) \/ \E b \in Tab : Begin(c, b)
      PROVE  TokenInv'
  <2>1. TypeOK /\ CallInv
    BY DEF IInv, TokenInv
  <2>2. ASSUME NEW b \in Tab, Begin(c, b)
        PROVE  TokenInv'
    <3>1. /\ call' \in [Call -> CallState] /\ \A d \in Call \ {c} : call'[d] = call[d]
          /\ call'[c].pc = "sent" /\ call'[c].tab \in Tab
      BY <2>1, <2>2, NoCallIs DEF Begin, TypeOK
    <3> QED BY <2>2, <3>1, QuietStep DEF Begin, Brings, Presents, page, server, history
  <2>3. CASE Finish(c) \/ GiveUp(c) \/ Retry(c)
    <3>1. /\ call' \in [Call -> CallState] /\ \A d \in Call \ {c} : call'[d] = call[d]
          /\ call'[c].pc = "idle"
      BY <2>1, <2>3, NoCallIs DEF Finish, GiveUp, Retry, TypeOK
    <3> QED BY <2>3, <3>1, QuietStep
            DEF Finish, GiveUp, Retry, Brings, Presents, page, server, history
  <2> QED BY <1>2, <2>2, <2>3, RefreshStep, EmptyReplyStep, RotateStep, StoreStep, FallStep
          DEF Step, Serve, Take
<1> QED BY <1>1, <1>2, SignOutStep, SignInStep, ReloadStep, ExpireStep, DeactivateStep DEF Next

\* The invariant holds in every reachable state.
LEMMA Invariance == Spec => []IInv
<1>1. IInv /\ [Next]_vars => IInv'
  BY TypeStep, TokenStep DEF IInv, TokenInv
<1> QED BY InitIInv, <1>1, PTL DEF Spec

\* Type correctness of the page's session.
THEOREM TypeCorrect == Spec => []TypeOK
<1>1. IInv => TypeOK
  BY DEF IInv
<1> QED BY <1>1, Invariance, PTL

\* A spent token in localStorage waits for its successor or has lost it.
THEOREM StoredTokenIsUsable == Spec => []StoredTokenUsable
<1>1. IInv => StoredTokenUsable
  BY DEF IInv, TokenInv, SpentInv, Spent, StoredTokenUsable, Refreshing, Brings
<1> QED BY <1>1, Invariance, PTL

\* A refusal that signs the page out was of a token that had expired, whose
\* account was deactivated, whose successor was lost or which was shared.
THEOREM RefusalsHaveCause == Spec => RefusedForCause
<1>1. IInv /\ [Next]_vars =>
        [\A c \in Call :
           call[c].pc = "replied" /\ call[c].answer = "refused" /\ ~(call'[c].pc = "replied")
           => call[c].token \in expired \cup barred \cup lost \cup shared]_vars
  BY DEF IInv, TokenInv, CauseInv
<1> QED BY <1>1, Invariance, PTL DEF Spec, RefusedForCause
=============================================================================
