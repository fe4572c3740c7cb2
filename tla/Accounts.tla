------------------------------ MODULE Accounts ------------------------------
(***************************************************************************)
(* Registration (app/services/auth_service.py) and creation of an          *)
(* organization (app/services/organization_service.py) as concurrent       *)
(* transactions.  Addresses and slugs are tested and then inserted;        *)
(* between the two only the UNIQUE indexes of the database stand.  An      *)
(* INSERT of a value that another open transaction has inserted waits for  *)
(* that transaction to end, and fails if it has committed.                 *)
(*                                                                         *)
(* A request stores at most one organization and one user, which are named *)
(* by the request.                                                         *)
(***************************************************************************)
EXTENDS Naturals, FiniteSets

CONSTANTS
  Req,        \* HTTP requests, each sent at most once
  Spelling,   \* e-mail addresses as clients write them
  Lower,      \* the lower-case form of each
  Name, Slug, MaxSuffix, Candidate,   \* see Registry
  None,       \* nothing
  Somebody,   \* the random placeholder owner of an organization
  Call        \* the calls clients make, a subset of CallType

CallType == [op : {"register", "create"}, email : Spelling, name : Name]

Address == {Lower[e] : e \in Spelling}

ASSUME AccountsAssumption ==
  /\ Lower \in [Spelling -> Spelling]
  /\ \A e \in Spelling : Lower[Lower[e]] = Lower[e]
  /\ MaxSuffix \in Nat
  /\ Candidate \in [Name -> [0 .. MaxSuffix -> Slug]]
  /\ None \notin Req \cup Spelling \cup Slug
  /\ Somebody \notin Req /\ Somebody # None
  /\ Call \subseteq CallType

VARIABLES
  pc,        \* where each request is
  call,      \* what each client sends
  caller,    \* the user who is signed in, for create
  suffix,    \* the candidate slug being tried
  newOrg,    \* the organization each open transaction has written
  newUser,   \* and the address of its user
  org,       \* the committed organizations
  user,      \* the addresses of the committed users
  outcome    \* the HTTP status each client got

vars == <<pc, call, caller, suffix, newOrg, newUser, org, user, outcome>>

---------------------------------------------------------------------------
Org == [slug : Slug \cup {None}, owner : Req \cup {Somebody, None}]

NoOrg == [slug |-> None, owner |-> None]

PC == {"idle", "email", "probe", "org", "user", "owner", "commit", "done"}

Slugs == {org[r].slug : r \in Req} \ {None}
Users == {r \in Req : user[r] # None}

AddressOf(r) == Lower[call[r].email]
SlugOf(r) == Candidate[call[r].name][suffix[r]]

Init ==
  /\ pc = [r \in Req |-> "idle"]
  /\ call \in [Req -> Call]
  /\ caller = [r \in Req |-> None]
  /\ suffix = [r \in Req |-> 0]
  /\ newOrg = [r \in Req |-> NoOrg]
  /\ newUser = [r \in Req |-> None]
  /\ org = [r \in Req |-> NoOrg]
  /\ user = [r \in Req |-> None]
  /\ outcome = [r \in Req |-> "none"]

Goto(r, from, to) == pc[r] = from /\ pc' = [pc EXCEPT ![r] = to]

\* Mutant: the failed transaction stays open.
RollbackLeaky(r, status) ==
  /\ pc' = [pc EXCEPT ![r] = "done"]
  /\ outcome' = [outcome EXCEPT ![r] = status]
  /\ UNCHANGED <<newOrg, newUser>>

\* get_db on an exception.
Rollback(r, status) ==
  /\ pc' = [pc EXCEPT ![r] = "done"]
  /\ newOrg' = [newOrg EXCEPT ![r] = NoOrg]
  /\ newUser' = [newUser EXCEPT ![r] = None]
  /\ outcome' = [outcome EXCEPT ![r] = status]

\* A visitor registers, or a signed-in user creates another organization.
Receive(r) ==
  /\ \/ call[r].op = "register" /\ Goto(r, "idle", "email") /\ UNCHANGED caller
     \/ /\ call[r].op = "create" /\ Goto(r, "idle", "probe")
        /\ \E u \in Users : caller' = [caller EXCEPT ![r] = u]
  /\ UNCHANGED <<call, suffix, newOrg, newUser, org, user, outcome>>

---------------------------------------------------------------------------
CheckEmail(r) ==
  /\ Goto(r, "email", "probe")
  /\ \A s \in Users : user[s] # AddressOf(r)
  /\ UNCHANGED <<call, caller, suffix, newOrg, newUser, org, user, outcome>>

RejectEmail(r) ==
  /\ pc[r] = "email"
  /\ \E s \in Users : user[s] = AddressOf(r)
  /\ Rollback(r, "409")
  /\ UNCHANGED <<call, caller, suffix, org, user>>

\* _unique_slug, one get_by_slug at a time.
TakeSlug(r) ==
  /\ Goto(r, "probe", "org")
  /\ SlugOf(r) \notin Slugs
  /\ UNCHANGED <<call, caller, suffix, newOrg, newUser, org, user, outcome>>

\* Mutant: every second suffix is skipped.
TrySuffixTwice(r) ==
  /\ pc[r] = "probe" /\ SlugOf(r) \in Slugs /\ suffix[r] + 1 < MaxSuffix
  /\ suffix' = [suffix EXCEPT ![r] = @ + 2]
  /\ UNCHANGED <<pc, call, caller, newOrg, newUser, org, user, outcome>>

TrySuffix(r) ==
  /\ pc[r] = "probe" /\ SlugOf(r) \in Slugs /\ suffix[r] < MaxSuffix
  /\ suffix' = [suffix EXCEPT ![r] = @ + 1]
  /\ UNCHANGED <<pc, call, caller, newOrg, newUser, org, user, outcome>>

---------------------------------------------------------------------------
\* An open transaction other than r's has inserted the slug, or the address.
SlugPending(r)  == \E s \in Req \ {r} : newOrg[s].slug = SlugOf(r)
EmailPending(r) == \E s \in Req \ {r} : newUser[s] = AddressOf(r)

\* Mutant: the organization is committed before its user is stored.
InsertOrgAndCommit(r) ==
  /\ Goto(r, "org", IF call[r].op = "register" THEN "user" ELSE "commit")
  /\ ~SlugPending(r) /\ SlugOf(r) \notin Slugs
  /\ LET o == [slug  |-> SlugOf(r),
               owner |-> IF call[r].op = "register" THEN Somebody ELSE caller[r]]
     IN  newOrg' = [newOrg EXCEPT ![r] = o] /\ org' = [org EXCEPT ![r] = o]
  /\ UNCHANGED <<call, caller, suffix, newUser, user, outcome>>

InsertOrg(r) ==
  /\ Goto(r, "org", IF call[r].op = "register" THEN "user" ELSE "commit")
  /\ ~SlugPending(r) /\ SlugOf(r) \notin Slugs
  /\ newOrg' = [newOrg EXCEPT ![r] =
       [slug  |-> SlugOf(r),
        owner |-> IF call[r].op = "register" THEN Somebody ELSE caller[r]]]
  /\ UNCHANGED <<call, caller, suffix, newUser, org, user, outcome>>

\* IntegrityError: no handler of its own, so the answer is a 500.
DuplicateSlug(r) ==
  /\ pc[r] = "org" /\ ~SlugPending(r) /\ SlugOf(r) \in Slugs
  /\ Rollback(r, "500")
  /\ UNCHANGED <<call, caller, suffix, org, user>>

\* Mutant: the address is stored as it was written.
InsertUserAsWritten(r) ==
  /\ Goto(r, "user", "owner")
  /\ \A s \in Req : call[r].email # user[s] /\ (s # r => newUser[s] # call[r].email)
  /\ newUser' = [newUser EXCEPT ![r] = call[r].email]
  /\ UNCHANGED <<call, caller, suffix, newOrg, org, user, outcome>>

InsertUser(r) ==
  /\ Goto(r, "user", "owner")
  /\ ~EmailPending(r) /\ \A s \in Users : user[s] # AddressOf(r)
  /\ newUser' = [newUser EXCEPT ![r] = AddressOf(r)]
  /\ UNCHANGED <<call, caller, suffix, newOrg, org, user, outcome>>

DuplicateEmail(r) ==
  /\ pc[r] = "user" /\ ~EmailPending(r) /\ \E s \in Users : user[s] = AddressOf(r)
  /\ Rollback(r, "500")
  /\ UNCHANGED <<call, caller, suffix, org, user>>

\* The owner replaces the placeholder; the tokens are issued (AuthSession).
SetOwner(r) ==
  /\ Goto(r, "owner", "commit")
  /\ newOrg' = [newOrg EXCEPT ![r].owner = r]
  /\ UNCHANGED <<call, caller, suffix, newUser, org, user, outcome>>

\* Mutant: the answer is sent before a COMMIT that may fail.
AnswerThenCommit(r) ==
  /\ Goto(r, "commit", "done")
  /\ \/ org' = [org EXCEPT ![r] = newOrg[r]] /\ user' = [user EXCEPT ![r] = newUser[r]]
     \/ UNCHANGED <<org, user>>
  /\ newOrg' = [newOrg EXCEPT ![r] = NoOrg]
  /\ newUser' = [newUser EXCEPT ![r] = None]
  /\ outcome' = [outcome EXCEPT ![r] = "201"]
  /\ UNCHANGED <<call, caller, suffix>>

\* get_db on success; the answer may be lost.
Commit(r) ==
  /\ Goto(r, "commit", "done")
  /\ org' = [org EXCEPT ![r] = newOrg[r]]
  /\ user' = [user EXCEPT ![r] = newUser[r]]
  /\ newOrg' = [newOrg EXCEPT ![r] = NoOrg]
  /\ newUser' = [newUser EXCEPT ![r] = None]
  /\ \E status \in {"201", "500"} : outcome' = [outcome EXCEPT ![r] = status]
  /\ UNCHANGED <<call, caller, suffix>>

Fail(r) ==
  /\ pc[r] \notin {"idle", "done"}
  /\ Rollback(r, "500")
  /\ UNCHANGED <<call, caller, suffix, org, user>>

Wait(r) == InsertOrg(r) \/ DuplicateSlug(r) \/ InsertUser(r) \/ DuplicateEmail(r)

Step(r) == \/ CheckEmail(r) \/ RejectEmail(r) \/ TakeSlug(r) \/ TrySuffix(r)
           \/ Wait(r) \/ SetOwner(r) \/ Commit(r)

Next == \E r \in Req : Receive(r) \/ Step(r) \/ Fail(r)

\* Handlers go on when their await is over.  A transaction that waits at an
\* index is woken by the end of the one it waits for.
Fairness == \A r \in Req : WF_vars(Step(r)) /\ SF_vars(Wait(r))

Spec == Init /\ [][Next]_vars /\ Fairness

---------------------------------------------------------------------------
TypeOK ==
  /\ pc \in [Req -> PC]
  /\ call \in [Req -> Call]
  /\ caller \in [Req -> Req \cup {None}]
  /\ suffix \in [Req -> 0 .. MaxSuffix]
  /\ newOrg \in [Req -> Org]
  /\ newUser \in [Req -> Address \cup {None}]
  /\ org \in [Req -> Org]
  /\ user \in [Req -> Address \cup {None}]
  /\ outcome \in [Req -> {"none", "201", "409", "500"}]

\* Every organization has an owner who has an account, and the organization of
\* a registration is owned by the user registered with it; no user is stored
\* without an organization.
OwnerExists ==
  /\ \A r \in Req : org[r] # NoOrg =>
       /\ org[r].owner \in Users
       /\ call[r].op = "register" => org[r].owner = r
  /\ \A r \in Users : org[r] # NoOrg

\* A 201 means the organization is stored, a 409 that somebody has an account
\* of that address, and in that case the request stored nothing.
AnswersAreTrue ==
  \A r \in Req :
    /\ outcome[r] = "201" => org[r] # NoOrg
    /\ outcome[r] = "409" => /\ org[r] = NoOrg /\ r \notin Users
                             /\ \E s \in Users : user[s] = AddressOf(r)

\* Every request is answered: neither the search for a free suffix nor the
\* wait at an index lasts for ever.
Answered == \A r \in Req : pc[r] # "idle" ~> pc[r] = "done"

\* Addresses by the account that has them.
Home(a) == IF \E r \in Users : AddressOf(r) = a
             THEN org[CHOOSE r \in Users : AddressOf(r) = a].slug ELSE None

\* However requests overlap, each one that commits stores at that instant the
\* first free slug of its name, for an address that had no account.
Instant == INSTANCE Registry WITH slugs <- Slugs, home <- [a \in Address |-> Home(a)]

RegistrySpec == Instant!Spec
=============================================================================
