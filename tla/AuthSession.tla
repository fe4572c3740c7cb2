---------------------------- MODULE AuthSession ----------------------------
(***************************************************************************)
(* Login, refresh-token rotation and logout (app/services/auth_service.py) *)
(* as concurrent database transactions: every statement is a step, an      *)
(* UPDATE waits for the row lock and keeps it, and get_db commits when the *)
(* handler returns and rolls back when it raises, AuthenticationError      *)
(* included.                                                               *)
(***************************************************************************)
EXTENDS Integers, FiniteSets

CONSTANTS
  Req,     \* HTTP requests, each sent at most once
  Token,   \* refresh tokens
  User,    \* accounts; registered beforehand
  None     \* no token, no transaction; as a presented token: an unknown one

ASSUME SessionAssumption == None \notin Req /\ None \notin Token /\ None \notin User

VARIABLES
  pc,       \* where each request is
  job,      \* what it asks for
  seen,     \* the state of the presented token as the request read it
  draft,    \* the token it has inserted, uncommitted
  row,      \* the committed refresh_tokens
  expired,  \* tokens past their expires_at
  holder,   \* the transaction that holds the row lock of each token
  active,   \* users.is_active
  known,    \* the tokens clients have received
  outcome   \* the HTTP status each client got

vars == <<pc, job, seen, draft, row, expired, holder, active, known, outcome>>

---------------------------------------------------------------------------
Job == [op : {"none", "login", "refresh", "logout"},
        user : User \cup {None}, token : Token \cup {None}]

NoJob == [op |-> "none", user |-> None, token |-> None]

\* The family of a token is named by the token of the login that began it.
Row == [state   : {"absent", "live", "revoked"},
        session : Token \cup {None},
        user    : User \cup {None},
        parent  : Token \cup {None}]

NoRow == [state |-> "absent", session |-> None, user |-> None, parent |-> None]

PC == {"idle", "finduser", "find", "family", "expire", "raise", "revoke",
       "owner", "issue", "commit", "done"}

Stored == {t \in Token : row[t] # NoRow}

\* A token nobody has drawn yet.
Fresh == {t \in Token \ Stored : \A r \in Req : draft[r] # t}

Family(t) == {u \in Stored : row[u].session = row[t].session}

TokenOf(r) == job[r].token

\* The user the request's new token will belong to.
UserOf(r) == IF job[r].op = "login" THEN job[r].user ELSE row[TokenOf(r)].user

---------------------------------------------------------------------------
Init ==
  /\ pc = [r \in Req |-> "idle"]
  /\ job = [r \in Req |-> NoJob]
  /\ seen = [r \in Req |-> "absent"]
  /\ draft = [r \in Req |-> None]
  /\ row = [t \in Token |-> NoRow]
  /\ expired = {}
  /\ holder = [t \in Token |-> None]
  /\ active = [u \in User |-> TRUE]
  /\ known = {}
  /\ outcome = [r \in Req |-> "none"]

Goto(r, from, to) == pc[r] = from /\ pc' = [pc EXCEPT ![r] = to]

\* Mutant: the failed transaction keeps its locks.
RollbackLeaky(r, status) ==
  /\ pc' = [pc EXCEPT ![r] = "done"]
  /\ draft' = [draft EXCEPT ![r] = None]
  /\ outcome' = [outcome EXCEPT ![r] = status]
  /\ UNCHANGED holder

\* get_db on an exception: nothing the transaction wrote remains.
Rollback(r, status) ==
  /\ pc' = [pc EXCEPT ![r] = "done"]
  /\ draft' = [draft EXCEPT ![r] = None]
  /\ holder' = [t \in Token |-> IF holder[t] = r THEN None ELSE holder[t]]
  /\ outcome' = [outcome EXCEPT ![r] = status]

\* A client asks to log in, or presents a token it has received or made up.
Receive(r) ==
  /\ pc[r] = "idle"
  /\ \/ /\ \E u \in User :
             job' = [job EXCEPT ![r] = [op |-> "login", user |-> u, token |-> None]]
        /\ pc' = [pc EXCEPT ![r] = "finduser"]
     \/ /\ \E op \in {"refresh", "logout"}, t \in known \cup {None} :
             job' = [job EXCEPT ![r] = [op |-> op, user |-> None, token |-> t]]
        /\ pc' = [pc EXCEPT ![r] = "find"]
  /\ UNCHANGED <<seen, draft, row, expired, holder, active, known, outcome>>

---------------------------------------------------------------------------
\* login: the credentials are those of an active user, or the answer is 401.
FindUser(r) ==
  /\ Goto(r, "finduser", "issue")
  /\ active[job[r].user]
  /\ UNCHANGED <<job, seen, draft, row, expired, holder, active, known, outcome>>

RejectLogin(r) ==
  /\ pc[r] = "finduser"
  /\ Rollback(r, "401")
  /\ UNCHANGED <<job, seen, row, expired, active, known>>

\* Mutant: the expiry is not checked.
FindTokenAnyAge(r) ==
  /\ pc[r] = "find" /\ TokenOf(r) # None
  /\ seen' = [seen EXCEPT ![r] = row[TokenOf(r)].state]
  /\ pc' = [pc EXCEPT ![r] =
       IF row[TokenOf(r)].state = "revoked"
         THEN IF job[r].op = "refresh" THEN "family" ELSE "commit"
         ELSE "revoke"]
  /\ UNCHANGED <<job, draft, row, expired, holder, active, known, outcome>>

\* refresh and logout, the SELECT by hash and the branches on what it read.
FindToken(r) ==
  /\ pc[r] = "find" /\ TokenOf(r) # None
  /\ seen' = [seen EXCEPT ![r] = row[TokenOf(r)].state]
  /\ pc' = [pc EXCEPT ![r] =
       IF row[TokenOf(r)].state = "revoked"
         THEN IF job[r].op = "refresh" THEN "family" ELSE "commit"
         ELSE IF job[r].op = "refresh" /\ TokenOf(r) \in expired THEN "expire"
         ELSE "revoke"]
  /\ UNCHANGED <<job, draft, row, expired, holder, active, known, outcome>>

RejectUnknown(r) ==
  /\ pc[r] = "find" /\ TokenOf(r) = None /\ job[r].op = "refresh"
  /\ Rollback(r, "401")
  /\ UNCHANGED <<job, seen, row, expired, active, known>>

LogoutUnknown(r) ==
  /\ TokenOf(r) = None /\ job[r].op = "logout"
  /\ Goto(r, "find", "commit")
  /\ UNCHANGED <<job, seen, draft, row, expired, holder, active, known, outcome>>

\* Reuse detected: the UPDATE of the whole family, then AuthenticationError.
RevokeSession(r) ==
  /\ Goto(r, "family", "raise")
  /\ \A t \in Family(TokenOf(r)) : holder[t] = None
  /\ holder' = [t \in Token |-> IF t \in Family(TokenOf(r)) THEN r ELSE holder[t]]
  /\ UNCHANGED <<job, seen, draft, row, expired, active, known, outcome>>

\* Expired: the UPDATE of the token, then AuthenticationError.
RevokeExpired(r) ==
  /\ Goto(r, "expire", "raise")
  /\ holder[TokenOf(r)] = None
  /\ holder' = [holder EXCEPT ![TokenOf(r)] = r]
  /\ UNCHANGED <<job, seen, draft, row, expired, active, known, outcome>>

Raise(r) ==
  /\ pc[r] = "raise"
  /\ Rollback(r, "401")
  /\ UNCHANGED <<job, seen, row, expired, active, known>>

\* The UPDATE of the presented token, by its id: it waits for the row lock
\* and does not look again at is_revoked.
Revoke(r) ==
  /\ Goto(r, "revoke", IF job[r].op = "refresh" THEN "owner" ELSE "commit")
  /\ holder[TokenOf(r)] = None
  /\ holder' = [holder EXCEPT ![TokenOf(r)] = r]
  /\ UNCHANGED <<job, seen, draft, row, expired, active, known, outcome>>

\* Mutant: the owner's account is not checked.
FindOwnerAnyState(r) ==
  /\ Goto(r, "owner", "issue")
  /\ UNCHANGED <<job, seen, draft, row, expired, holder, active, known, outcome>>

FindOwner(r) ==
  /\ Goto(r, "owner", "issue")
  /\ active[UserOf(r)]
  /\ UNCHANGED <<job, seen, draft, row, expired, holder, active, known, outcome>>

RejectOwner(r) ==
  /\ pc[r] = "owner" /\ ~active[UserOf(r)]
  /\ Rollback(r, "401")
  /\ UNCHANGED <<job, seen, row, expired, active, known>>

\* _issue_tokens.
IssueTokens(r) ==
  /\ Goto(r, "issue", "commit")
  /\ \E t \in Fresh : draft' = [draft EXCEPT ![r] = t]
  /\ UNCHANGED <<job, seen, row, expired, holder, active, known, outcome>>

\* Mutant: every token begins a session of its own.
NewRowOwnSession(r) ==
  [state |-> "live", session |-> draft[r], user |-> UserOf(r), parent |-> TokenOf(r)]

\* The row the request has inserted.
NewRow(r) ==
  [state   |-> "live",
   session |-> IF job[r].op = "login" THEN draft[r] ELSE row[TokenOf(r)].session,
   user    |-> UserOf(r),
   parent  |-> TokenOf(r)]

\* Mutants: the old row's UPDATE is lost; the token is handed out before a
\* COMMIT that may fail; an answer without a token is taken for one.
CommitInsertOnly(r) ==
  /\ Goto(r, "commit", "done")
  /\ row' = [t \in Token |-> IF t = draft[r] THEN NewRow(r) ELSE row[t]]
  /\ draft' = [draft EXCEPT ![r] = None]
  /\ holder' = [t \in Token |-> IF holder[t] = r THEN None ELSE holder[t]]
  /\ outcome' = [outcome EXCEPT ![r] = "200"]
  /\ known' = known \cup ({draft[r]} \ {None})
  /\ UNCHANGED <<job, seen, expired, active>>

AnswerThenCommit(r) ==
  /\ Goto(r, "commit", "done")
  /\ \/ row' = [t \in Token |->
          IF t = draft[r] THEN NewRow(r)
          ELSE IF holder[t] = r THEN [row[t] EXCEPT !.state = "revoked"]
          ELSE row[t]]
     \/ row' = row
  /\ draft' = [draft EXCEPT ![r] = None]
  /\ holder' = [t \in Token |-> IF holder[t] = r THEN None ELSE holder[t]]
  /\ outcome' = [outcome EXCEPT ![r] = "200"]
  /\ known' = known \cup ({draft[r]} \ {None})
  /\ UNCHANGED <<job, seen, expired, active>>

CommitAnyAnswer(r) ==
  /\ Goto(r, "commit", "done")
  /\ row' = [t \in Token |->
       IF t = draft[r] THEN NewRow(r)
       ELSE IF holder[t] = r THEN [row[t] EXCEPT !.state = "revoked"]
       ELSE row[t]]
  /\ draft' = [draft EXCEPT ![r] = None]
  /\ holder' = [t \in Token |-> IF holder[t] = r THEN None ELSE holder[t]]
  /\ outcome' = [outcome EXCEPT ![r] = "200"]
  /\ known' = known \cup {draft[r]}
  /\ UNCHANGED <<job, seen, expired, active>>

\* get_db on success.  The answer, and with it the new token, may be lost.
Commit(r) ==
  /\ Goto(r, "commit", "done")
  /\ row' = [t \in Token |->
       IF t = draft[r] THEN NewRow(r)
       ELSE IF holder[t] = r THEN [row[t] EXCEPT !.state = "revoked"]
       ELSE row[t]]
  /\ draft' = [draft EXCEPT ![r] = None]
  /\ holder' = [t \in Token |-> IF holder[t] = r THEN None ELSE holder[t]]
  /\ \/ outcome' = [outcome EXCEPT ![r] = "200"] /\ known' = known \cup ({draft[r]} \ {None})
     \/ outcome' = [outcome EXCEPT ![r] = "500"] /\ known' = known
  /\ UNCHANGED <<job, seen, expired, active>>

\* A database error, or the death of the worker.
Fail(r) ==
  /\ pc[r] \notin {"idle", "done"}
  /\ Rollback(r, "500")
  /\ UNCHANGED <<job, seen, row, expired, active, known>>

---------------------------------------------------------------------------
\* Outside the requests: time passes; an operator deactivates an account.
ExpireToken(t) ==
  /\ t \in Stored \ expired
  /\ expired' = expired \cup {t}
  /\ UNCHANGED <<pc, job, seen, draft, row, holder, active, known, outcome>>

DeactivateUser(u) ==
  /\ active[u]
  /\ active' = [active EXCEPT ![u] = FALSE]
  /\ UNCHANGED <<pc, job, seen, draft, row, expired, holder, known, outcome>>

Wait(r) == RevokeSession(r) \/ RevokeExpired(r) \/ Revoke(r)

Step(r) ==
  \/ FindUser(r) \/ RejectLogin(r) \/ FindToken(r) \/ RejectUnknown(r)
  \/ LogoutUnknown(r) \/ Wait(r) \/ Raise(r) \/ FindOwner(r) \/ RejectOwner(r)
  \/ IssueTokens(r) \/ Commit(r)

Next ==
  \/ \E r \in Req : Receive(r) \/ Step(r) \/ Fail(r)
  \/ \E t \in Token : ExpireToken(t)
  \/ \E u \in User : DeactivateUser(u)

\* Handlers go on when their await is over, and PostgreSQL grants a row lock
\* to its waiters in turn.
Fairness == \A r \in Req : WF_vars(Step(r)) /\ SF_vars(Wait(r))

Spec == Init /\ [][Next]_vars /\ Fairness

---------------------------------------------------------------------------
TypeOK ==
  /\ pc \in [Req -> PC]
  /\ job \in [Req -> Job]
  /\ seen \in [Req -> {"absent", "live", "revoked"}]
  /\ draft \in [Req -> Token \cup {None}]
  /\ row \in [Token -> Row]
  /\ expired \subseteq Token
  /\ holder \in [Token -> Req \cup {None}]
  /\ active \in [User -> BOOLEAN]
  /\ known \subseteq Token
  /\ outcome \in [Req -> {"none", "200", "401", "500"}]

\* A rotation is all or nothing: wherever a new token is stored, the one it
\* replaces is revoked, and both belong to one session and one user.
RotationAtomic ==
  \A t \in Stored : row[t].parent # None =>
    LET p == row[t].parent
    IN  /\ row[p].state = "revoked"
        /\ row[p].session = row[t].session /\ row[p].user = row[t].user

\* No client is given a token that is not stored, whatever fails.
KnownIsStored == known \subseteq Stored

\* The presented token is revoked or past its expiry.
Spent(r) ==
  TokenOf(r) # None /\ (row[TokenOf(r)].state = "revoked" \/ TokenOf(r) \in expired)

\* r is a refresh and has drawn or been given a new token.
Renews(r) == job[r].op = "refresh" /\ (draft[r] # None \/ outcome[r] = "200")

\* A refresh that reads its token after the token's revocation (by a rotation
\* or a logout) has committed, or after it has expired, never renews it.
SpentIsRefused ==
  \A r \in Req : [](pc[r] = "find" /\ Spent(r) => []~Renews(r))

\* A request that starts when the account is deactivated gets no token for it.
DeactivatedIsRefused ==
  \A r \in Req, u \in User :
    [](pc[r] \in {"idle", "find", "finduser"} /\ ~active[u]
       => [](draft[r] # None => UserOf(r) # u))

\* Every request is answered: waiting for row locks always ends.
Answered == \A r \in Req : pc[r] # "idle" ~> pc[r] = "done"

\* The store is a forest of tokens that changes one instant at a time.
Forest == INSTANCE TokenForest
            WITH state  <- [t \in Token |-> row[t].state],
                 parent <- [t \in Token |-> row[t].parent]

ForestSpec == Forest!Spec

---------------------------------------------------------------------------
\* Claim of the repository that the code does not keep.

\* app/services/auth_service.py:95: a reused token revokes its whole family.
ReuseRevokesFamily ==
  \A r \in Req : outcome[r] = "401" /\ seen[r] = "revoked" =>
    \A t \in Family(TokenOf(r)) : row[t].state = "revoked"
=============================================================================
