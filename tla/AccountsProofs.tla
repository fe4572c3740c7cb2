--------------------------- MODULE AccountsProofs ---------------------------
(***************************************************************************)
(* Safety of registration for any requests, names and addresses, and the   *)
(* proof that it implements Registry.  The inductive invariant says what a *)
(* transaction has written at each pc, that no slug and no address is      *)
(* written twice, and that every slug a request has skipped is taken.      *)
(***************************************************************************)
EXTENDS Accounts, TLAPS

\* What an open transaction has written, by where it is.
DraftInv ==
  \A r \in Req :
    /\ pc[r] \in {"email", "user", "owner"} => call[r].op = "register"
    /\ pc[r] \in {"idle", "email", "probe", "org", "done"} =>
         newOrg[r] = NoOrg /\ newUser[r] = None
    /\ pc[r] \in {"user", "owner", "commit"} => newOrg[r].slug = SlugOf(r)
    /\ pc[r] = "user" => newUser[r] = None
    /\ pc[r] \in {"owner", "commit"} =>
         newUser[r] = IF call[r].op = "register" THEN AddressOf(r) ELSE None
    /\ pc[r] = "commit" =>
         newOrg[r].owner = IF call[r].op = "register" THEN r ELSE caller[r]
    /\ call[r].op = "create" /\ pc[r] # "idle" => caller[r] \in Users

\* What a request has committed.
LedgerInv ==
  \A r \in Req :
    /\ pc[r] # "done" => org[r] = NoOrg /\ user[r] = None /\ outcome[r] = "none"
    /\ org[r] # NoOrg => /\ org[r].slug = SlugOf(r) /\ org[r].owner \in Users
                         /\ call[r].op = "register" => org[r].owner = r
    /\ user[r] # None => /\ org[r] # NoOrg /\ call[r].op = "register"
                         /\ user[r] = AddressOf(r)

\* No two requests have written one slug, or one address.
UniqueInv ==
  \A r, s \in Req : r # s =>
    /\ newOrg[r].slug # None => /\ newOrg[s].slug # newOrg[r].slug
                                /\ org[s].slug # newOrg[r].slug
    /\ org[r].slug # None => org[s].slug # org[r].slug
    /\ newUser[r] # None => newUser[s] # newUser[r] /\ user[s] # newUser[r]
    /\ user[r] # None => user[s] # user[r]

\* The candidates before the one a request is at are taken.
ProbeInv ==
  \A r \in Req : \A j \in 0 .. MaxSuffix :
    j < suffix[r] => Candidate[call[r].name][j] \in Slugs

IInv == TypeOK /\ DraftInv /\ LedgerInv /\ UniqueInv /\ ProbeInv /\ AnswersAreTrue

---------------------------------------------------------------------------
\* The values a request writes are of their types.
LEMMA ValueTypes ==
  ASSUME TypeOK, NEW r \in Req
  PROVE  /\ NoOrg \in Org /\ NoOrg.slug = None
         /\ SlugOf(r) \in Slug /\ SlugOf(r) # None
         /\ AddressOf(r) \in Address /\ AddressOf(r) # None
         /\ call[r].op \in {"register", "create"}
<1>1. call[r] \in CallType
  BY AccountsAssumption DEF TypeOK
<1>2. call[r].email \in Spelling /\ call[r].name \in Name
      /\ call[r].op \in {"register", "create"}
  BY <1>1 DEF CallType
<1>3. Candidate[call[r].name] \in [0 .. MaxSuffix -> Slug]
  BY <1>2, AccountsAssumption
<1>4. SlugOf(r) \in Slug
  BY <1>3 DEF SlugOf, TypeOK
<1>5. AddressOf(r) \in Address /\ AddressOf(r) \in Spelling
  BY <1>2, AccountsAssumption DEF AddressOf, Address
<1> QED
  BY <1>2, <1>4, <1>5, AccountsAssumption DEF NoOrg, Org

\* Committed organizations and accounts stay, and a call never changes.
LEMMA Growth ==
  ASSUME TypeOK, LedgerInv, [Next]_vars
  PROVE  /\ call' = call
         /\ \A r \in Req : /\ org[r] # NoOrg => org'[r] = org[r]
                           /\ user[r] # None => user'[r] = user[r]
         /\ Users \subseteq Users' /\ Slugs \subseteq Slugs'
<1>1. call' = call /\ \A r \in Req : /\ org[r] # NoOrg => org'[r] = org[r]
                                     /\ user[r] # None => user'[r] = user[r]
  <2>1. CASE \E r \in Req : Commit(r)
    BY <2>1 DEF Commit, Goto, TypeOK, LedgerInv
  <2>2. CASE ~\E r \in Req : Commit(r)
    BY <2>2 DEF vars, Next, Step, Wait, Receive, CheckEmail, RejectEmail, TakeSlug,
      TrySuffix, InsertOrg, DuplicateSlug, InsertUser, DuplicateEmail, SetOwner, Fail
  <2> QED
    BY <2>1, <2>2
<1>2. Users \subseteq Users'
  BY <1>1 DEF Users
<1>3. Slugs \subseteq Slugs'
  <2> SUFFICES ASSUME NEW r \in Req, org[r].slug # None
               PROVE  org'[r].slug = org[r].slug
    BY DEF Slugs
  <2>1. org[r] # NoOrg
    BY DEF NoOrg
  <2> QED
    BY <1>1, <2>1
<1> QED
  BY <1>1, <1>2, <1>3

\* Every step keeps the types.
LEMMA TypeStep == TypeOK /\ DraftInv /\ [Next]_vars => TypeOK'
<1> SUFFICES ASSUME TypeOK, DraftInv, [Next]_vars
             PROVE  TypeOK'
  OBVIOUS
<1> USE ValueTypes DEF TypeOK, PC
<1>1. CASE UNCHANGED vars
  BY <1>1 DEF vars
<1>2. ASSUME NEW r \in Req, Receive(r) PROVE TypeOK'
  BY <1>2 DEF Receive, Goto, Users
<1>3. ASSUME NEW r \in Req, CheckEmail(r) PROVE TypeOK'
  BY <1>3 DEF CheckEmail, Goto
<1>4. ASSUME NEW r \in Req, RejectEmail(r) PROVE TypeOK'
  BY <1>4 DEF RejectEmail, Rollback
<1>5. ASSUME NEW r \in Req, TakeSlug(r) PROVE TypeOK'
  BY <1>5 DEF TakeSlug, Goto
<1>6. ASSUME NEW r \in Req, TrySuffix(r) PROVE TypeOK'
  BY <1>6, AccountsAssumption DEF TrySuffix
<1>7. ASSUME NEW r \in Req, InsertOrg(r) PROVE TypeOK'
  <2>1. call[r].op = "create" => caller[r] \in Req
    BY <1>7 DEF InsertOrg, Goto, DraftInv, Users
  <2>2. [slug |-> SlugOf(r),
         owner |-> IF call[r].op = "register" THEN Somebody ELSE caller[r]] \in Org
    BY <2>1 DEF Org
  <2> QED
    BY <1>7, <2>2 DEF InsertOrg, Goto
<1>8. ASSUME NEW r \in Req, DuplicateSlug(r) PROVE TypeOK'
  BY <1>8 DEF DuplicateSlug, Rollback
<1>9. ASSUME NEW r \in Req, InsertUser(r) PROVE TypeOK'
  BY <1>9 DEF InsertUser, Goto
<1>10. ASSUME NEW r \in Req, DuplicateEmail(r) PROVE TypeOK'
  BY <1>10 DEF DuplicateEmail, Rollback
<1>11. ASSUME NEW r \in Req, SetOwner(r) PROVE TypeOK'
  BY <1>11 DEF SetOwner, Goto, Org
<1>12. ASSUME NEW r \in Req, Commit(r) PROVE TypeOK'
  BY <1>12 DEF Commit, Goto
<1>13. ASSUME NEW r \in Req, Fail(r) PROVE TypeOK'
  BY <1>13 DEF Fail, Rollback
<1> QED
  BY <1>1, <1>2, <1>3, <1>4, <1>5, <1>6, <1>7, <1>8, <1>9, <1>10, <1>11, <1>12, <1>13
  DEF Next, Step, Wait

\* Every step keeps what drafts are.
LEMMA DraftStep == IInv /\ [Next]_vars => DraftInv'
<1> SUFFICES ASSUME IInv, [Next]_vars, NEW q \in Req
             PROVE  DraftInv!(q)'
  BY DEF DraftInv
<1> DEFINE Goal == DraftInv!(q)'
<1>0. TypeOK /\ DraftInv!(q) /\ call' = call /\ Users \subseteq Users'
  BY Growth DEF IInv, DraftInv
<1> USE <1>0, ValueTypes DEF TypeOK, SlugOf, AddressOf
<1>1. CASE UNCHANGED vars
  BY <1>1 DEF vars
<1>2. ASSUME NEW r \in Req, Receive(r) PROVE Goal
  BY <1>2 DEF Receive, Goto
<1>3. ASSUME NEW r \in Req, CheckEmail(r) PROVE Goal
  BY <1>3 DEF CheckEmail, Goto
<1>4. ASSUME NEW r \in Req, RejectEmail(r) PROVE Goal
  BY <1>4 DEF RejectEmail, Rollback
<1>5. ASSUME NEW r \in Req, TakeSlug(r) PROVE Goal
  BY <1>5 DEF TakeSlug, Goto
<1>6. ASSUME NEW r \in Req, TrySuffix(r) PROVE Goal
  BY <1>6 DEF TrySuffix
<1>7. ASSUME NEW r \in Req, InsertOrg(r) PROVE Goal
  BY <1>7 DEF InsertOrg, Goto
<1>8. ASSUME NEW r \in Req, DuplicateSlug(r) PROVE Goal
  BY <1>8 DEF DuplicateSlug, Rollback
<1>9. ASSUME NEW r \in Req, InsertUser(r) PROVE Goal
  BY <1>9 DEF InsertUser, Goto
<1>10. ASSUME NEW r \in Req, DuplicateEmail(r) PROVE Goal
  BY <1>10 DEF DuplicateEmail, Rollback
<1>11. ASSUME NEW r \in Req, SetOwner(r) PROVE Goal
  BY <1>11 DEF SetOwner, Goto, Org
<1>12. ASSUME NEW r \in Req, Commit(r) PROVE Goal
  BY <1>12 DEF Commit, Goto
<1>13. ASSUME NEW r \in Req, Fail(r) PROVE Goal
  BY <1>13 DEF Fail, Rollback
<1> QED
  BY <1>1, <1>2, <1>3, <1>4, <1>5, <1>6, <1>7, <1>8, <1>9, <1>10, <1>11, <1>12, <1>13
  DEF Next, Step, Wait
---------------------------------------------------------------------------
\* A step that commits nothing keeps what is committed.
LEMMA NoCommit ==
  ASSUME [Next]_vars, ~\E r \in Req : Commit(r)
  PROVE  /\ UNCHANGED <<call, org, user>>
         /\ Users' = Users /\ Slugs' = Slugs
<1>1. UNCHANGED <<call, org, user>>
  BY DEF vars, Next, Step, Wait, Receive, CheckEmail, RejectEmail, TakeSlug, TrySuffix,
         InsertOrg, DuplicateSlug, InsertUser, DuplicateEmail, SetOwner, Fail
<1> QED
  BY <1>1 DEF Users, Slugs

\* Only a commit writes what others see, and it writes what it says.
LEMMA LedgerStep == IInv /\ [Next]_vars => LedgerInv'
<1> SUFFICES ASSUME IInv, [Next]_vars, NEW q \in Req
             PROVE  LedgerInv!(q)'
  BY DEF LedgerInv
<1>0. TypeOK /\ LedgerInv!(q) /\ call' = call /\ Users \subseteq Users'
  BY Growth DEF IInv, LedgerInv
<1>1. ASSUME NEW r \in Req, Commit(r) PROVE LedgerInv!(q)'
  <2>1. CASE q # r
    <3>1. pc'[q] = pc[q] /\ org'[q] = org[q] /\ user'[q] = user[q] /\ outcome'[q] = outcome[q]
          /\ suffix' = suffix
      BY <1>0, <1>1, <2>1 DEF Commit, Goto, TypeOK
    <3> QED
      BY <1>0, <3>1 DEF SlugOf, AddressOf
  <2>2. CASE q = r
    <3>1. pc[r] = "commit" /\ DraftInv!(r) /\ suffix' = suffix
      BY <1>1 DEF Commit, Goto, IInv, DraftInv
    <3>2. pc'[r] = "done" /\ org'[r] = newOrg[r] /\ user'[r] = newUser[r]
      BY <1>0, <1>1 DEF Commit, Goto, TypeOK
    <3>3. org'[r].slug = SlugOf(r) /\ SlugOf(r) # None /\ org'[r] # NoOrg
      BY <1>0, <3>1, <3>2, ValueTypes
    <3>4. call[r].op = "register" => user'[r] = AddressOf(r) /\ r \in Users'
      BY <1>0, <3>1, <3>2, ValueTypes DEF Users
    <3>5. org'[r].owner \in Users' /\ (call[r].op = "register" => org'[r].owner = r)
      BY <1>0, <3>1, <3>2, <3>4, ValueTypes
    <3> QED
      BY <1>0, <2>2, <3>1, <3>2, <3>3, <3>4, <3>5 DEF SlugOf, AddressOf
  <2> QED
    BY <2>1, <2>2
<1>2. CASE ~\E r \in Req : Commit(r)
  <2>1. UNCHANGED <<call, org, user>> /\ Users' = Users
    BY <1>2, NoCommit
  <2>2. /\ pc'[q] # "done" => pc[q] # "done" /\ outcome'[q] = outcome[q]
        /\ suffix'[q] # suffix[q] => pc[q] # "done"
    BY <1>0, <1>2 DEF TypeOK, vars, Next, Step, Wait, Receive, Goto, Rollback, CheckEmail,
      RejectEmail, TakeSlug, TrySuffix, InsertOrg, DuplicateSlug, InsertUser,
      DuplicateEmail, SetOwner, Fail
  <2> QED
    BY <1>0, <2>1, <2>2, ValueTypes DEF SlugOf, AddressOf
<1> QED
  BY <1>1, <1>2

\* The UNIQUE indexes keep slugs and addresses apart.
LEMMA UniqueStep == IInv /\ [Next]_vars => UniqueInv'
<1> SUFFICES ASSUME IInv, [Next]_vars
             PROVE  UniqueInv'
  OBVIOUS
<1> USE DEF IInv, TypeOK
<1>1. ASSUME NEW r \in Req, InsertOrg(r) PROVE UniqueInv'
  <2>1. UNCHANGED <<org, user, newUser>> /\ newOrg'[r].slug = SlugOf(r)
        /\ \A s \in Req \ {r} : newOrg'[s] = newOrg[s]
    BY <1>1 DEF InsertOrg
  <2>2. \A s \in Req \ {r} : newOrg[s].slug # SlugOf(r)
    BY <1>1 DEF InsertOrg, SlugPending
  <2>3. \A s \in Req : org[s].slug # SlugOf(r)
    BY <1>1, ValueTypes DEF InsertOrg, Slugs
  <2>4. org[r].slug = None
    BY <1>1, ValueTypes DEF InsertOrg, Goto, LedgerInv
  <2> QED
    BY <2>1, <2>2, <2>3, <2>4 DEF UniqueInv
<1>2. ASSUME NEW r \in Req, InsertUser(r) PROVE UniqueInv'
  <2>1. UNCHANGED <<org, user, newOrg>> /\ newUser'[r] = AddressOf(r)
        /\ \A s \in Req \ {r} : newUser'[s] = newUser[s]
    BY <1>2 DEF InsertUser
  <2>2. \A s \in Req \ {r} : newUser[s] # AddressOf(r)
    BY <1>2 DEF InsertUser, EmailPending
  <2>3. \A s \in Req : user[s] # AddressOf(r)
    BY <1>2, ValueTypes DEF InsertUser, Users
  <2> QED
    BY <2>1, <2>2, <2>3 DEF UniqueInv
<1>3. ASSUME NEW r \in Req, SetOwner(r) PROVE UniqueInv'
  <2>1. \A s \in Req : newOrg'[s].slug = newOrg[s].slug
    BY <1>3 DEF SetOwner, Org
  <2> QED
    BY <1>3, <2>1 DEF SetOwner, UniqueInv
<1>4. ASSUME NEW r \in Req, Commit(r) PROVE UniqueInv'
  <2>1. /\ org'[r] = newOrg[r] /\ user'[r] = newUser[r]
        /\ newOrg'[r].slug = None /\ newUser'[r] = None
        /\ \A s \in Req \ {r} : /\ org'[s] = org[s] /\ user'[s] = user[s]
                                /\ newOrg'[s] = newOrg[s] /\ newUser'[s] = newUser[s]
    BY <1>4, ValueTypes DEF Commit
  <2> QED
    BY <2>1 DEF UniqueInv
<1>5. ASSUME NEW r \in Req, NEW status, Rollback(r, status), UNCHANGED <<org, user>>
      PROVE  UniqueInv'
  <2>1. /\ newOrg'[r].slug = None /\ newUser'[r] = None
        /\ \A s \in Req \ {r} : newOrg'[s] = newOrg[s] /\ newUser'[s] = newUser[s]
    BY <1>5, ValueTypes DEF Rollback
  <2> QED
    BY <1>5, <2>1 DEF UniqueInv
<1>6. CASE UNCHANGED <<org, user, newOrg, newUser>>
  BY <1>6 DEF UniqueInv
<1> QED
  BY <1>1, <1>2, <1>3, <1>4, <1>5, <1>6
  DEF vars, Next, Step, Wait, Receive, CheckEmail, RejectEmail, TakeSlug, TrySuffix,
      DuplicateSlug, DuplicateEmail, Fail

\* A suffix is passed over only when its slug is taken, and slugs stay taken.
LEMMA ProbeStep == IInv /\ [Next]_vars => ProbeInv'
<1> SUFFICES ASSUME IInv, [Next]_vars, NEW q \in Req, NEW j \in 0 .. MaxSuffix,
                    j < suffix'[q]
             PROVE  Candidate[call[q].name][j] \in Slugs'
  BY Growth DEF ProbeInv, IInv
<1>1. Slugs \subseteq Slugs'
  BY Growth DEF IInv
<1>2. CASE suffix'[q] = suffix[q]
  BY <1>1, <1>2 DEF IInv, ProbeInv
<1>3. CASE suffix'[q] # suffix[q]
  <2>1. TrySuffix(q)
    BY <1>3 DEF IInv, TypeOK, vars, Next, Step, Wait, Receive, CheckEmail, RejectEmail,
      TakeSlug, TrySuffix, InsertOrg, DuplicateSlug, InsertUser, DuplicateEmail,
      SetOwner, Commit, Fail
  <2>2. suffix'[q] = suffix[q] + 1 /\ SlugOf(q) \in Slugs /\ suffix[q] \in Nat /\ j \in Nat
    BY <2>1, AccountsAssumption DEF TrySuffix, IInv, TypeOK
  <2>3. j < suffix[q] \/ j = suffix[q]
    BY <2>2
  <2> QED
    BY <1>1, <2>2, <2>3 DEF IInv, ProbeInv, SlugOf
<1> QED
  BY <1>2, <1>3

\* A status is given once, when it is true, and stays true.
LEMMA AnswerStep == IInv /\ [Next]_vars => AnswersAreTrue'
<1> SUFFICES ASSUME IInv, [Next]_vars, NEW q \in Req
             PROVE  AnswersAreTrue!(q)'
  BY DEF AnswersAreTrue
<1> USE DEF IInv, TypeOK
<1>0. /\ call' = call /\ Users \subseteq Users'
      /\ \A r \in Req : /\ org[r] # NoOrg => org'[r] = org[r]
                        /\ user[r] # None => user'[r] = user[r]
  BY Growth
<1>1. CASE outcome'[q] = outcome[q]
  <2>1. CASE outcome[q] = "none"
    BY <1>1, <2>1 DEF AnswersAreTrue
  <2>2. CASE outcome[q] # "none"
    <3>1. pc[q] = "done"
      BY <2>2 DEF LedgerInv
    <3>2. org'[q] = org[q] /\ user'[q] = user[q]
      BY <3>1 DEF vars, Next, Step, Wait, Receive, Goto, CheckEmail, RejectEmail, TakeSlug,
        TrySuffix, InsertOrg, DuplicateSlug, InsertUser, DuplicateEmail, SetOwner, Commit, Fail
    <3>3. \A s \in Users : s \in Users' /\ user'[s] = user[s]
      BY <1>0 DEF Users
    <3>4. q \notin Users => q \notin Users'
      BY <3>2 DEF Users
    <3>5. AnswersAreTrue!(q)
      BY DEF AnswersAreTrue
    <3>6. (\E s \in Users : user[s] = AddressOf(q)) =>
            \E s \in Users' : user'[s] = AddressOf(q)'
      BY <1>0, <3>3 DEF AddressOf
    <3> QED
      BY <1>1, <3>2, <3>4, <3>5, <3>6
  <2> QED
    BY <2>1, <2>2
<1>2. CASE outcome'[q] # outcome[q]
  <2>1. CASE RejectEmail(q)
    <3>1. outcome'[q] = "409" /\ UNCHANGED <<call, org, user>>
      BY <2>1 DEF RejectEmail, Rollback
    <3>2. org[q] = NoOrg /\ q \notin Users /\ \E s \in Users : user[s] = AddressOf(q)
      BY <2>1 DEF RejectEmail, LedgerInv, Users
    <3> QED
      BY <3>1, <3>2 DEF Users, AddressOf
  <2>2. CASE Commit(q)
    <3>1. outcome'[q] \in {"201", "500"} /\ org'[q] = newOrg[q] /\ pc[q] = "commit"
      BY <2>2 DEF Commit, Goto
    <3>2. newOrg[q] # NoOrg
      BY <3>1, ValueTypes DEF DraftInv
    <3> QED
      BY <3>1, <3>2
  <2>3. CASE ~RejectEmail(q) /\ ~Commit(q)
    <3>1. outcome'[q] = "500"
      BY <1>2, <2>3 DEF vars, Next, Step, Wait, Receive, Rollback, CheckEmail, RejectEmail,
        TakeSlug, TrySuffix, InsertOrg, DuplicateSlug, InsertUser, DuplicateEmail, SetOwner,
        Commit, Fail
    <3> QED
      BY <3>1
  <2> QED
    BY <2>1, <2>2, <2>3
<1> QED
  BY <1>1, <1>2

\* IInv is an invariant.
LEMMA Inductive == Spec => []IInv
<1>1. Init => IInv
  <2> SUFFICES ASSUME Init PROVE IInv
    OBVIOUS
  <2>1. TypeOK
    BY AccountsAssumption DEF Init, TypeOK, PC, Org, NoOrg
  <2>2. UniqueInv /\ ProbeInv
    BY <2>1, AccountsAssumption DEF Init, UniqueInv, ProbeInv, NoOrg, TypeOK
  <2> QED
    BY <2>1, <2>2 DEF Init, IInv, DraftInv, LedgerInv, AnswersAreTrue
<1>2. IInv /\ [Next]_vars => IInv'
  BY TypeStep, DraftStep, LedgerStep, UniqueStep, ProbeStep, AnswerStep DEF IInv
<1> QED
  BY <1>1, <1>2, PTL DEF Spec

---------------------------------------------------------------------------
\* Every variable keeps its type: stored addresses are in lower case
\* (auth_service.py:56).
THEOREM TypeCorrect == Spec => []TypeOK
<1>1. IInv => TypeOK
  BY DEF IInv
<1> QED
  BY <1>1, Inductive, PTL

\* Every organization has an owner who has an account, and no user is stored
\* without an organization (auth_service.py:47-68).
THEOREM OwnerExistsHolds == Spec => []OwnerExists
<1>1. IInv => OwnerExists
  BY DEF IInv, LedgerInv, OwnerExists, Users
<1> QED
  BY <1>1, Inductive, PTL

\* A 201 is stored, and a 409 names an address that has an account
\* (auth_service.py:43-45).
THEOREM AnswersAreTrueHold == Spec => []AnswersAreTrue
<1>1. IInv => AnswersAreTrue
  BY DEF IInv
<1> QED
  BY <1>1, Inductive, PTL

---------------------------------------------------------------------------
\* The account of an address is the only one, and an address nobody has
\* stored has none.
HomeInv ==
  \A a \in Address :
    /\ \A r \in Req : user[r] = a => Home(a) = org[r].slug
    /\ (\A r \in Req : user[r] # a) => Home(a) = None

LEMMA HomeOf == LedgerInv /\ UniqueInv => HomeInv
<1> SUFFICES ASSUME LedgerInv, UniqueInv, NEW a \in Address
             PROVE  HomeInv!(a)
  BY DEF HomeInv
<1>1. a # None
  BY AccountsAssumption DEF Address
<1>2. \A r \in Users : AddressOf(r) = user[r]
  BY DEF Users, LedgerInv
<1>3. ASSUME NEW r \in Req, user[r] = a PROVE Home(a) = org[r].slug
  <2>1. r \in Users /\ AddressOf(r) = a
    BY <1>1, <1>2, <1>3 DEF Users
  <2>2. \A s \in Users : AddressOf(s) = a => s = r
    BY <1>1, <1>2, <1>3 DEF UniqueInv, Users
  <2> QED
    BY <2>1, <2>2 DEF Home
<1>4. ASSUME \A r \in Req : user[r] # a PROVE Home(a) = None
  BY <1>2, <1>4 DEF Home, Users
<1> QED
  BY <1>3, <1>4

\* A commit is the registration or the creation it asked for.
LEMMA CommitRegistry ==
  ASSUME IInv, [Next]_vars, NEW r \in Req, Commit(r)
  PROVE  Instant!Next
<1> DEFINE n == call[r].name
           i == suffix[r]
<1>1. TypeOK /\ DraftInv /\ LedgerInv /\ UniqueInv /\ HomeInv
  BY HomeOf DEF IInv
<1>2. TypeOK' /\ HomeInv'
  <2>1. LedgerInv' /\ UniqueInv'
    BY LedgerStep, UniqueStep
  <2>2. HomeInv'
    BY <2>1, HomeOf, PTL
  <2> QED
    BY <2>2, TypeStep DEF IInv
<1>3. n \in Name /\ i \in 0 .. MaxSuffix /\ Candidate[n][i] = SlugOf(r)
      /\ SlugOf(r) \in Slug /\ SlugOf(r) # None
  BY <1>1, ValueTypes, AccountsAssumption DEF TypeOK, CallType, SlugOf
<1>4. /\ pc[r] = "commit" /\ call' = call /\ suffix' = suffix
      /\ org' = [org EXCEPT ![r] = newOrg[r]] /\ user' = [user EXCEPT ![r] = newUser[r]]
      /\ newOrg[r].slug = SlugOf(r) /\ org[r] = NoOrg /\ user[r] = None
  BY <1>1 DEF Commit, Goto, DraftInv, LedgerInv
<1>5. SlugOf(r) \notin Slugs
  BY <1>1, <1>3, <1>4, ValueTypes DEF Slugs, UniqueInv
<1>6. Instant!FirstFree(n, i)
  BY <1>3, <1>5 DEF Instant!FirstFree, IInv, ProbeInv
<1>7. Slugs' = Slugs \cup {SlugOf(r)}
  <2>1. org'[r].slug = SlugOf(r) /\ \A s \in Req \ {r} : org'[s] = org[s]
    BY <1>1, <1>4 DEF TypeOK
  <2>2. org[r].slug = None
    BY <1>1, <1>4, ValueTypes
  <2> QED
    BY <1>3, <2>1, <2>2 DEF Slugs
<1>8. ASSUME NEW a \in Address, a # newUser[r] PROVE Home(a)' = Home(a)
  <2>1. CASE \E s \in Req : user[s] = a
    <3>1. PICK s \in Req : user[s] = a
      BY <2>1
    <3>2. s # r /\ org'[s] = org[s] /\ user'[s] = a
      BY <1>1, <1>4, <3>1, AccountsAssumption DEF TypeOK, Address
    <3>3. Home(a) = org[s].slug
      BY <1>1, <3>1 DEF HomeInv
    <3>4. Home(a)' = org'[s].slug
      BY <1>2, <3>2 DEF HomeInv
    <3> QED
      BY <3>2, <3>3, <3>4
  <2>2. CASE \A s \in Req : user[s] # a
    <3>1. \A s \in Req : user'[s] # a
      BY <1>1, <1>4, <1>8, <2>2 DEF TypeOK
    <3> QED
      BY <1>1, <1>2, <2>2, <3>1 DEF HomeInv
  <2> QED
    BY <2>1, <2>2
<1>9. CASE call[r].op = "create"
  <2>1. newUser[r] = None
    BY <1>1, <1>4, <1>9 DEF DraftInv
  <2>2. \A a \in Address : Home(a)' = Home(a)
    BY <1>8, <2>1, AccountsAssumption DEF Address
  <2>3. Instant!Create(n, i)
    BY <1>3, <1>6, <1>7, <2>2 DEF Instant!Create
  <2> QED
    BY <1>3, <2>3 DEF Instant!Next
<1>10. CASE call[r].op = "register"
  <2>1. newUser[r] = AddressOf(r) /\ AddressOf(r) \in Address /\ AddressOf(r) # None
    BY <1>1, <1>4, <1>10, ValueTypes DEF DraftInv
  <2>2. Home(AddressOf(r)) = None
    <3>1. \A s \in Req : user[s] # AddressOf(r)
      BY <1>1, <1>4, <2>1 DEF UniqueInv
    <3> QED
      BY <1>1, <2>1, <3>1 DEF HomeInv
  <2>3. \A a \in Address : Home(a)' = IF a = AddressOf(r) THEN SlugOf(r) ELSE Home(a)
    <3>1. ASSUME NEW a \in Address, a = newUser[r] PROVE Home(a)' = SlugOf(r)
      <4>1. user'[r] = a /\ org'[r].slug = SlugOf(r)
        BY <1>1, <1>4, <3>1 DEF TypeOK
      <4> QED
        BY <1>2, <4>1 DEF HomeInv
    <3> QED
      BY <1>8, <2>1, <3>1
  <2>4. Instant!Register(AddressOf(r), n, i)
    BY <1>3, <1>6, <1>7, <2>1, <2>2, <2>3 DEF Instant!Register
  <2> QED
    BY <1>3, <2>1, <2>4 DEF Instant!Next
<1> QED
  BY <1>1, <1>9, <1>10, ValueTypes

\* Registration implements the registry: a commit is a Register or a Create of
\* the first free slug, and every other step is a stutter
\* (auth_service.py:35-71, organization_service.py:32-54, 84-91).
THEOREM Implements == Spec => RegistrySpec
<1>1. Init => Instant!Init
  <2> SUFFICES ASSUME Init PROVE Instant!Init
    OBVIOUS
  <2>1. Slugs = {} /\ Users = {}
    BY DEF Init, Slugs, Users, NoOrg
  <2>2. \A a \in Address : Home(a) = None
    BY <2>1 DEF Home
  <2> QED
    BY <2>1, <2>2 DEF Instant!Init
<1>2. IInv /\ [Next]_vars => [Instant!Next]_Instant!vars
  <2> SUFFICES ASSUME IInv, [Next]_vars
               PROVE  Instant!Next \/ UNCHANGED Instant!vars
    OBVIOUS
  <2>1. CASE \E r \in Req : Commit(r)
    BY <2>1, CommitRegistry
  <2>2. CASE ~\E r \in Req : Commit(r)
    <3>1. UNCHANGED <<call, org, user>> /\ Users' = Users /\ Slugs' = Slugs
      BY <2>2, NoCommit
    <3>2. \A a \in Address : Home(a)' = Home(a)
      BY <3>1 DEF Home, AddressOf
    <3> QED
      BY <3>1, <3>2 DEF Instant!vars
  <2> QED
    BY <2>1, <2>2
<1> QED
  BY <1>1, <1>2, Inductive, PTL DEF Spec, RegistrySpec, Instant!Spec

---------------------------------------------------------------------------
\* An INSERT waits for the transaction that has inserted its slug, or its
\* address, and has not ended.
WaitsFor(r, s) ==
  /\ r # s
  /\ \/ pc[r] = "org" /\ newOrg[s].slug = SlugOf(r)
     \/ pc[r] = "user" /\ newUser[s] = AddressOf(r)

\* Two waits in a row end at a transaction that waits for nobody.
NoCircularWait ==
  \A q, r, s, t \in Req : ~(WaitsFor(q, r) /\ WaitsFor(r, s) /\ WaitsFor(s, t))

\* Registrations never deadlock at the two unique indexes, whatever names and
\* addresses they share: all insert the organization before the user, so who
\* is waited for at the slug may wait at the address, and who is waited for
\* at the address has both.
THEOREM DeadlockFree == Spec => []NoCircularWait
<1>1. IInv => NoCircularWait
  <2> SUFFICES ASSUME IInv, NEW q \in Req, NEW r \in Req, NEW s \in Req, NEW t \in Req,
                      WaitsFor(q, r), WaitsFor(r, s), WaitsFor(s, t)
               PROVE  FALSE
    BY DEF NoCircularWait
  <2>1. ASSUME NEW u \in Req, NEW v \in Req, WaitsFor(u, v)
        PROVE  /\ pc[v] \in {"user", "owner", "commit"}
               /\ pc[u] = "user" => pc[v] \in {"owner", "commit"}
    BY <2>1, ValueTypes DEF WaitsFor, IInv, DraftInv, TypeOK, PC
  <2>2. pc[r] = "user"
    BY <2>1 DEF WaitsFor
  <2>3. pc[s] \in {"owner", "commit"}
    BY <2>1, <2>2
  <2> QED
    BY <2>3 DEF WaitsFor
<1> QED
  BY <1>1, Inductive, PTL
=============================================================================
