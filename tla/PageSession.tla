---------------------------- MODULE PageSession ----------------------------
(***************************************************************************)
(* The sign-in session of the web page (ui/index.html) as a client of the  *)
(* token store: apiFetch carries an access token, answers a 401 with one   *)
(* refresh and one retry, and signs the page out when the refresh fails.   *)
(* Tabs keep their tokens in memory and share localStorage, which they     *)
(* read only when they load.  The store is TokenForest, which AuthSession  *)
(* implements.  An access token is named by the refresh token it was       *)
(* issued with: the page always gets, keeps and drops the two together.    *)
(***************************************************************************)
EXTENDS Integers, FiniteSets

CONSTANTS
  Tab,
  Call,        \* apiFetch invocations, each used again when it has ended
  N,           \* bound: tokens ever issued
  MaxEnded     \* bound: refresh tokens that expire and sign-ins whose account is deactivated

ASSUME PageAssumption == N \in Nat /\ MaxEnded \in Nat

Token == 1..N  \* in the order they are issued
None == 0      \* signed out

VARIABLES
  mem,         \* state.accessToken and state.refreshToken of each tab
  stored,      \* vt_access and vt_refresh in localStorage
  call,        \* the calls under way
  state,       \* the store: see TokenForest
  parent,
  expired,     \* refresh tokens past their expires_at
  barred,      \* refresh tokens of deactivated accounts
  lost,        \* history: spent, and the answer did not reach the page
  shared       \* history: held by two tabs, or presented twice at once

page == <<mem, stored>>
server == <<state, parent, expired, barred>>
history == <<lost, shared>>
vars == <<page, call, server, history>>

F == INSTANCE TokenForest

---------------------------------------------------------------------------
Holding == Token \cup {None}

\* A call: its tab, the token its refresh presents, whether that token was
\* live when the refresh left, and what has come back.
CallState ==
  [pc     : {"idle", "sent", "refreshing", "replied", "retrying", "adrift"},
   tab    : Tab \cup {None},
   token  : Holding,
   live   : BOOLEAN,
   answer : {"none", "ok", "cut", "refused", "lost"},
   given  : Holding]

NoCall == [pc |-> "idle", tab |-> None, token |-> None, live |-> FALSE,
           answer |-> "none", given |-> None]

\* Refreshes of t that are under way.
Refreshing(t) ==
  {c \in Call : call[c].pc \in {"refreshing", "replied", "adrift"} /\ call[c].token = t}

Issued == {t \in Token : state[t] # "absent"}

\* The token the server draws next.
Fresh(t) == \A u \in Token : u < t <=> u \in Issued

Init ==
  /\ mem = [b \in Tab |-> None]
  /\ stored = None
  /\ call = [c \in Call |-> NoCall]
  /\ F!Init
  /\ expired = {} /\ barred = {} /\ lost = {} /\ shared = {}

---------------------------------------------------------------------------
\* doLogin and doRegister, from the answer that carries the tokens.  The page
\* may hold tokens by then: of a refresh answered after it was signed out.
SignIn(b, t) ==
  /\ Fresh(t) /\ F!Plant(t)
  /\ mem' = [mem EXCEPT ![b] = t]
  /\ stored' = t
  /\ UNCHANGED <<call, expired, barred, history>>

\* doLogout: the page forgets its tokens and does not tell the server.
Forget(b) ==
  /\ mem' = [mem EXCEPT ![b] = None]
  /\ stored' = None

SignOut(b) ==
  /\ Forget(b)
  /\ UNCHANGED <<call, server, history>>

\* A call whose tab is gone: a refresh that has left is still served.
Abandoned(k) ==
  IF k.pc \in {"refreshing", "adrift"} THEN [k EXCEPT !.pc = "adrift", !.tab = None] ELSE NoCall

\* The tab is loaded again.
Reload(b) ==
  /\ mem' = [mem EXCEPT ![b] = stored]
  /\ call' = [c \in Call |-> IF call[c].tab = b THEN Abandoned(call[c]) ELSE call[c]]
  /\ lost' = lost \cup {t \in Token : \E c \in Refreshing(t) :
                             call[c].tab = b /\ call[c].pc = "replied"}
  /\ shared' = shared \cup {t \in Token : t = stored /\ \E a \in Tab \ {b} : mem[a] = t}
  /\ UNCHANGED <<stored, server>>

---------------------------------------------------------------------------
\* apiFetch sends the request with the access token of the moment, if any.
Begin(c, b) ==
  /\ call[c].pc = "idle"
  /\ call' = [call EXCEPT ![c] = [NoCall EXCEPT !.pc = "sent", !.tab = b]]
  /\ UNCHANGED <<page, server, history>>

\* get_current_user lets the token through, or the answer is another error,
\* or the network fails.
Finish(c) ==
  /\ call[c].pc = "sent"
  /\ call' = [call EXCEPT ![c] = NoCall]
  /\ UNCHANGED <<page, server, history>>

\* A 401, as any access token may have expired; doTokenRefresh presents the
\* refresh token that the page holds by now.
Refresh(c) ==
  /\ call[c].pc = "sent" /\ mem[call[c].tab] # None
  /\ LET t == mem[call[c].tab]
     IN  /\ call' = [call EXCEPT ![c].pc = "refreshing", ![c].token = t,
                                 ![c].live = (state[t] = "live")]
         /\ shared' = IF Refreshing(t) # {} THEN shared \cup {t} ELSE shared
  /\ UNCHANGED <<page, server, lost>>

---------------------------------------------------------------------------
\* The server's side of the refresh.  Nobody listens to a call adrift.
Reply(c, what, u) ==
  \/ /\ call[c].pc = "refreshing"
     /\ call' = [call EXCEPT ![c].pc = "replied", ![c].live = FALSE,
                             ![c].answer = what, ![c].given = u]
  \/ /\ call[c].pc = "adrift"
     /\ call' = [call EXCEPT ![c] = NoCall]

\* The new pair is stored; its answer arrives, breaks off in its body or is
\* lost.  A token spent meanwhile is renewed again only for a request that
\* overlapped the one that spent it.
Rotate(c) ==
  /\ call[c].token \notin expired \cup barred
  /\ \E u \in Token, what \in {"ok", "cut", "lost"} :
       /\ Fresh(u)
       /\ Reply(c, what, IF what = "ok" THEN u ELSE None)
       /\ F!Rotate(call[c].token, u) \/ (call[c].live /\ F!Fork(call[c].token, u))
       /\ lost' = IF call[c].pc = "adrift" \/ what # "ok"
                    THEN lost \cup {call[c].token} ELSE lost
  /\ UNCHANGED <<page, expired, barred, shared>>

\* The three refusals of refresh: a revoked token, an expired one, and an
\* account that is deactivated, whose token stays live as the rotation is rolled back.
Refuse(c) ==
  /\ Reply(c, "refused", None)
  /\ state[call[c].token] = "revoked" \/ call[c].token \in expired \cup barred
  /\ UNCHANGED <<page, server, history>>

\* A 429, a 500 or no connection: nothing is rotated.
FailRefresh(c) ==
  /\ Reply(c, "lost", None)
  /\ UNCHANGED <<page, server, history>>

---------------------------------------------------------------------------
Continue(c) == call' = [call EXCEPT ![c] = [NoCall EXCEPT !.pc = "retrying", !.tab = call[c].tab]]

\* Mutants: localStorage is not updated; the page's own copy is not.
StoreForReload(c) ==
  /\ call[c].pc = "replied" /\ call[c].answer = "ok"
  /\ stored' = call[c].given
  /\ Continue(c)
  /\ UNCHANGED <<mem, server, history>>

StoreInMemory(c) ==
  /\ call[c].pc = "replied" /\ call[c].answer = "ok"
  /\ mem' = [mem EXCEPT ![call[c].tab] = call[c].given]
  /\ Continue(c)
  /\ UNCHANGED <<stored, server, history>>

\* The answer is ok: its tokens replace whatever the page holds by now.
Store(c) ==
  /\ call[c].pc = "replied" /\ call[c].answer = "ok"
  /\ mem' = [mem EXCEPT ![call[c].tab] = call[c].given]
  /\ stored' = call[c].given
  /\ Continue(c)
  /\ UNCHANGED <<server, history>>

\* The answer is not ok, or there is none: doLogout.
Fall(c) ==
  /\ call[c].pc = "replied" /\ call[c].answer \in {"refused", "lost"}
  /\ Forget(call[c].tab)
  /\ Continue(c)
  /\ UNCHANGED <<server, history>>

\* res.json() throws: apiFetch returns null and the page keeps its tokens.
GiveUp(c) ==
  /\ call[c].pc = "replied" /\ call[c].answer = "cut"
  /\ call' = [call EXCEPT ![c] = NoCall]
  /\ UNCHANGED <<page, server, history>>

\* The retry's result is apiFetch's, a second 401 or an exception included.
Retry(c) ==
  /\ call[c].pc = "retrying"
  /\ call' = [call EXCEPT ![c] = NoCall]
  /\ UNCHANGED <<page, server, history>>

---------------------------------------------------------------------------
\* The bound: what E and T come to if E has expired and T is deactivated.
Bounded(E, T) ==
  Cardinality(E) + Cardinality({t \in T : parent[t] = None}) <= MaxEnded

ExpireRefresh(t) ==
  /\ t \in Issued \ expired
  /\ expired' = expired \cup {t}
  /\ Bounded(expired', barred)
  /\ UNCHANGED <<page, call, state, parent, barred, history>>

\* users.is_active is cleared: T is what came of one sign-in or of several.
Deactivate(T) ==
  /\ T # {} /\ T \cap barred = {}
  /\ \A t \in Issued : parent[t] # None => (t \in T <=> parent[t] \in T)
  /\ barred' = barred \cup T
  /\ Bounded(expired, barred')
  /\ UNCHANGED <<page, call, state, parent, expired, history>>

Serve(c) == Rotate(c) \/ Refuse(c) \/ FailRefresh(c)
Take(c) == Store(c) \/ Fall(c) \/ GiveUp(c)
Step(c) == Finish(c) \/ Refresh(c) \/ Serve(c) \/ Take(c) \/ Retry(c)

Next ==
  \/ \E b \in Tab : SignOut(b) \/ Reload(b) \/ \E t \in Token : SignIn(b, t)
  \/ \E c \in Call : Step(c) \/ \E b \in Tab : Begin(c, b)
  \/ \E t \in Token : ExpireRefresh(t)
  \/ \E T \in SUBSET Issued : Deactivate(T)

Spec == Init /\ [][Next]_vars

---------------------------------------------------------------------------
TypeOK ==
  /\ mem \in [Tab -> Holding]
  /\ stored \in Holding
  /\ call \in [Call -> CallState]
  /\ state \in [Token -> {"absent", "live", "revoked"}]
  /\ parent \in [Token -> Holding]
  /\ expired \subseteq Token /\ barred \subseteq Token
  /\ lost \subseteq Token /\ shared \subseteq Token

\* What a reload would sign in with is not spent, unless the page is waiting
\* for the answer that replaces it or that answer never reached it: no order
\* of late answers, sign-outs and other tabs brings a spent token back.
StoredTokenUsable ==
  stored # None /\ state[stored] = "revoked" =>
    Refreshing(stored) # {} \/ stored \in lost

\* A refresh is refused, which signs the page out, only if the token had
\* expired, its account was deactivated, the answer that replaced it was lost, or
\* two calls or tabs used it at once: no refusal comes of calls made one at a
\* time in one tab whose answers arrive.  This is about refusals alone.  A refresh
\* that gets a 429, a 500 or no answer signs the page out with a token that may
\* still be good (FailRefresh, then Fall).
RefusedForCause ==
  [][\A c \in Call :
       call[c].pc = "replied" /\ call[c].answer = "refused" /\ ~(call'[c].pc = "replied")
       => call[c].token \in expired \cup barred \cup lost \cup shared]_vars
=============================================================================
