------------------------- MODULE AuthSessionProofs -------------------------
(***************************************************************************)
(* Safety of the refresh-token sessions for any requests, tokens and       *)
(* users, and the proof that they implement TokenForest.  The inductive    *)
(* invariant relates where a request is to what it presented, what it has  *)
(* drawn and which rows it has locked.                                     *)
(***************************************************************************)
EXTENDS AuthSession, TLAPS

\* A request presents stored tokens only, and is where its operation leads.
JobInv ==
  \A r \in Req :
    /\ pc[r] \in {"family", "expire", "revoke", "owner"} => TokenOf(r) # None
    /\ TokenOf(r) # None => TokenOf(r) \in Stored /\ job[r].op \in {"refresh", "logout"}
    /\ pc[r] = "finduser" => job[r].op = "login" /\ job[r].user \in User
    /\ pc[r] = "find" => job[r].op \in {"refresh", "logout"}
    /\ pc[r] \in {"family", "expire", "owner"} => job[r].op = "refresh"
    /\ pc[r] = "revoke" => job[r].op \in {"refresh", "logout"}
    /\ pc[r] = "issue" => job[r].op \in {"login", "refresh"}
    /\ pc[r] = "commit" => job[r].op # "none" /\ (job[r].op = "logout" <=> draft[r] = None)
    /\ pc[r] \in {"issue", "commit"} /\ job[r].op = "login" =>
         job[r].user \in User /\ TokenOf(r) = None
    /\ pc[r] \in {"issue", "commit"} /\ job[r].op = "refresh" => TokenOf(r) # None

\* Drawn tokens are new, and nobody else's.
DraftInv ==
  \A r \in Req :
    draft[r] # None => /\ pc[r] = "commit" /\ draft[r] \notin Stored
                       /\ \A s \in Req : draft[s] = draft[r] => s = r

\* Row locks: a transaction that will write a token's row holds its lock, and
\* one that commits holds no other.
LockInv ==
  /\ \A t \in Token : holder[t] # None =>
       /\ t \in Stored
       /\ pc[holder[t]] \in {"raise", "owner", "issue", "commit"}
       /\ pc[holder[t]] # "raise" => t = TokenOf(holder[t])
  /\ \A r \in Req :
       pc[r] \in {"owner", "issue", "commit"} /\ job[r].op = "refresh" =>
         holder[TokenOf(r)] = r

\* Stored rows are whole, and a token with a child is revoked.
RowInv ==
  /\ \A t \in Stored :
       /\ row[t].state # "absent" /\ row[t].user \in User
       /\ row[t].parent # None =>
            LET p == row[t].parent
            IN  /\ p \in Stored /\ row[p].state = "revoked"
                /\ row[p].session = row[t].session /\ row[p].user = row[t].user
  /\ known \subseteq Stored

AnswerInv == \A r \in Req : pc[r] # "done" => outcome[r] = "none"

IInv == TypeOK /\ JobInv /\ DraftInv /\ LockInv /\ RowInv /\ AnswerInv

---------------------------------------------------------------------------
\* The rows and jobs of the initial state are rows and jobs.
LEMMA ConstantTypes == NoRow \in Row /\ NoJob \in Job
BY DEF NoRow, Row, NoJob, Job

\* The token a request presents is a token wherever the code uses its row.
LEMMA Presented ==
  ASSUME TypeOK, JobInv, NEW r \in Req
  PROVE  /\ TokenOf(r) \in Token \cup {None}
         /\ TokenOf(r) # None => TokenOf(r) \in Token /\ TokenOf(r) \in Stored
         /\ pc[r] \in {"family", "expire", "revoke", "owner"} => TokenOf(r) \in Token
         /\ pc[r] \in {"issue", "commit"} /\ job[r].op = "refresh" => TokenOf(r) \in Token
<1>1. job[r] \in Job
  BY DEF TypeOK
<1>2. TokenOf(r) \in Token \cup {None}
  BY <1>1 DEF Job, TokenOf
<1>3. TokenOf(r) # None => TokenOf(r) \in Stored
  BY DEF JobInv
<1> QED
  BY <1>2, <1>3 DEF JobInv

\* The row of a commit is a whole one.
LEMMA NewRowType ==
  ASSUME TypeOK, JobInv, RowInv, NEW r \in Req, pc[r] = "commit", draft[r] # None
  PROVE  /\ NewRow(r) \in Row /\ NewRow(r) # NoRow /\ NewRow(r).user \in User
         /\ NewRow(r).parent = TokenOf(r)
<1>1. job[r] \in Job /\ draft[r] \in Token
  BY DEF TypeOK
<1>2. CASE job[r].op = "login"
  BY <1>1, <1>2 DEF NewRow, UserOf, TokenOf, JobInv, Row, NoRow
<1>3. CASE job[r].op = "refresh"
  <2>1. TokenOf(r) \in Stored /\ row[TokenOf(r)] \in Row
    BY <1>3 DEF JobInv, TypeOK, Stored
  <2> QED
    BY <1>1, <1>3, <2>1 DEF NewRow, UserOf, TokenOf, RowInv, Row, NoRow, Job
<1>4. job[r].op = "login" \/ job[r].op = "refresh"
  BY <1>1 DEF JobInv, Job
<1> QED
  BY <1>2, <1>3, <1>4

\* Every step keeps the types.
LEMMA TypeStep ==
  TypeOK /\ JobInv /\ RowInv /\ [Next]_vars => TypeOK'
<1> SUFFICES ASSUME TypeOK, JobInv, RowInv, [Next]_vars
             PROVE  TypeOK'
  OBVIOUS
<1> USE ConstantTypes DEF TypeOK, PC, Job
<1>1. CASE UNCHANGED vars
  BY <1>1 DEF vars
<1>2. ASSUME NEW r \in Req, Receive(r) PROVE TypeOK'
  <2>1. job' \in [Req -> Job]
    BY <1>2 DEF Receive
  <2> QED
    BY <1>2, <2>1 DEF Receive
<1>3. ASSUME NEW r \in Req, FindUser(r) PROVE TypeOK'
  BY <1>3 DEF FindUser, Goto
<1>4. ASSUME NEW r \in Req, RejectLogin(r) PROVE TypeOK'
  BY <1>4 DEF RejectLogin, Rollback
<1>5. ASSUME NEW r \in Req, FindToken(r) PROVE TypeOK'
  <2>1. row[TokenOf(r)].state \in {"absent", "live", "revoked"}
    BY <1>5 DEF FindToken, TokenOf, Row
  <2> QED
    BY <1>5, <2>1 DEF FindToken
<1>6. ASSUME NEW r \in Req, RejectUnknown(r) PROVE TypeOK'
  BY <1>6 DEF RejectUnknown, Rollback
<1>7. ASSUME NEW r \in Req, LogoutUnknown(r) PROVE TypeOK'
  BY <1>7 DEF LogoutUnknown, Goto
<1>8. ASSUME NEW r \in Req, RevokeSession(r) PROVE TypeOK'
  BY <1>8 DEF RevokeSession, Goto
<1>9. ASSUME NEW r \in Req, RevokeExpired(r) PROVE TypeOK'
  BY <1>9 DEF RevokeExpired, Goto
<1>10. ASSUME NEW r \in Req, Raise(r) PROVE TypeOK'
  BY <1>10 DEF Raise, Rollback
<1>11. ASSUME NEW r \in Req, Revoke(r) PROVE TypeOK'
  BY <1>11 DEF Revoke, Goto
<1>12. ASSUME NEW r \in Req, FindOwner(r) PROVE TypeOK'
  BY <1>12 DEF FindOwner, Goto
<1>13. ASSUME NEW r \in Req, RejectOwner(r) PROVE TypeOK'
  BY <1>13 DEF RejectOwner, Rollback
<1>14. ASSUME NEW r \in Req, IssueTokens(r) PROVE TypeOK'
  BY <1>14 DEF IssueTokens, Goto, Fresh, Stored
<1>15. ASSUME NEW r \in Req, Commit(r) PROVE TypeOK'
  <2>1. draft[r] # None => NewRow(r) \in Row
    BY <1>15, NewRowType DEF Commit, Goto
  <2>2. ASSUME NEW t \in Token PROVE [row[t] EXCEPT !.state = "revoked"] \in Row
    BY DEF Row
  <2>3. \A t \in Token : t = draft[r] => NewRow(r) \in Row
    BY <2>1, SessionAssumption
  <2>4. row' \in [Token -> Row]
    BY <1>15, <2>2, <2>3 DEF Commit
  <2> QED
    BY <1>15, <2>4 DEF Commit, Goto
<1>16. ASSUME NEW r \in Req, Fail(r) PROVE TypeOK'
  BY <1>16 DEF Fail, Rollback
<1>17. ASSUME NEW t \in Token, ExpireToken(t) PROVE TypeOK'
  BY <1>17 DEF ExpireToken
<1>18. ASSUME NEW u \in User, DeactivateUser(u) PROVE TypeOK'
  BY <1>18 DEF DeactivateUser
<1> QED
  BY <1>1, <1>2, <1>3, <1>4, <1>5, <1>6, <1>7, <1>8, <1>9,
     <1>10, <1>11, <1>12, <1>13, <1>14, <1>15, <1>16, <1>17, <1>18
  DEF Next, Step, Wait

\* Jobs: fixed on arrival, and tokens are never deleted.
LEMMA JobStep ==
  TypeOK /\ JobInv /\ DraftInv /\ RowInv /\ [Next]_vars => JobInv'
<1> SUFFICES ASSUME TypeOK, JobInv, DraftInv, RowInv, [Next]_vars
             PROVE  JobInv'
  OBVIOUS
<1> USE SessionAssumption DEF TypeOK, JobInv, DraftInv, TokenOf, Stored, PC
<1>1. CASE UNCHANGED vars
  BY <1>1 DEF vars
<1>2. ASSUME NEW r \in Req, Receive(r) PROVE JobInv'
  <2>1. /\ job'[r].token # None => job'[r].token \in Stored
        /\ \/ /\ job'[r].op = "login" /\ job'[r].user \in User
              /\ job'[r].token = None /\ pc'[r] = "finduser"
           \/ job'[r].op \in {"refresh", "logout"} /\ pc'[r] = "find"
    BY <1>2 DEF Receive, RowInv
  <2>2. \A s \in Req \ {r} : job'[s] = job[s] /\ pc'[s] = pc[s]
    BY <1>2 DEF Receive
  <2> QED
    BY <1>2, <2>1, <2>2 DEF Receive
<1>3. ASSUME NEW r \in Req, FindUser(r) PROVE JobInv'
  BY <1>3 DEF FindUser, Goto
<1>4. ASSUME NEW r \in Req, RejectLogin(r) PROVE JobInv'
  BY <1>4 DEF RejectLogin, Rollback
<1>5. ASSUME NEW r \in Req, FindToken(r) PROVE JobInv'
  BY <1>5 DEF FindToken
<1>6. ASSUME NEW r \in Req, RejectUnknown(r) PROVE JobInv'
  BY <1>6 DEF RejectUnknown, Rollback
<1>7. ASSUME NEW r \in Req, LogoutUnknown(r) PROVE JobInv'
  BY <1>7 DEF LogoutUnknown, Goto
<1>8. ASSUME NEW r \in Req, RevokeSession(r) PROVE JobInv'
  BY <1>8 DEF RevokeSession, Goto
<1>9. ASSUME NEW r \in Req, RevokeExpired(r) PROVE JobInv'
  BY <1>9 DEF RevokeExpired, Goto
<1>10. ASSUME NEW r \in Req, Raise(r) PROVE JobInv'
  BY <1>10 DEF Raise, Rollback
<1>11. ASSUME NEW r \in Req, Revoke(r) PROVE JobInv'
  BY <1>11 DEF Revoke, Goto
<1>12. ASSUME NEW r \in Req, FindOwner(r) PROVE JobInv'
  BY <1>12 DEF FindOwner, Goto
<1>13. ASSUME NEW r \in Req, RejectOwner(r) PROVE JobInv'
  BY <1>13 DEF RejectOwner, Rollback
<1>14. ASSUME NEW r \in Req, IssueTokens(r) PROVE JobInv'
  BY <1>14 DEF IssueTokens, Goto, Fresh
<1>15. ASSUME NEW r \in Req, Commit(r) PROVE JobInv'
  <2>1. draft[r] # None => NewRow(r) # NoRow
    BY <1>15, NewRowType DEF Commit, Goto
  <2>2. \A t \in Stored : t \in Token /\ row'[t] # NoRow
    BY <1>15, <2>1 DEF Commit, NoRow
  <2>3. \A s \in Req : TokenOf(s) # None => row'[TokenOf(s)] # NoRow
    BY <2>2
  <2> QED
    BY <1>15, <2>3, Presented DEF Commit, Goto
<1>16. ASSUME NEW r \in Req, Fail(r) PROVE JobInv'
  BY <1>16 DEF Fail, Rollback
<1>17. ASSUME NEW t \in Token, ExpireToken(t) PROVE JobInv'
  BY <1>17 DEF ExpireToken
<1>18. ASSUME NEW u \in User, DeactivateUser(u) PROVE JobInv'
  BY <1>18 DEF DeactivateUser
<1> QED
  BY <1>1, <1>2, <1>3, <1>4, <1>5, <1>6, <1>7, <1>8, <1>9,
     <1>10, <1>11, <1>12, <1>13, <1>14, <1>15, <1>16, <1>17, <1>18
  DEF Next, Step, Wait

\* Drafts: drawn afresh, stored by their own commit only.
LEMMA DraftStep ==
  TypeOK /\ JobInv /\ DraftInv /\ LockInv /\ RowInv /\ [Next]_vars => DraftInv'
<1> SUFFICES ASSUME TypeOK, JobInv, DraftInv, LockInv, RowInv, [Next]_vars
             PROVE  DraftInv'
  OBVIOUS
<1> USE SessionAssumption DEF TypeOK, DraftInv, Stored, PC
<1>1. CASE UNCHANGED vars
  BY <1>1 DEF vars
<1>2. ASSUME NEW r \in Req, Receive(r) PROVE DraftInv'
  BY <1>2 DEF Receive, Fresh
<1>3. ASSUME NEW r \in Req, FindUser(r) PROVE DraftInv'
  BY <1>3 DEF FindUser, Goto, Fresh
<1>4. ASSUME NEW r \in Req, RejectLogin(r) PROVE DraftInv'
  BY <1>4 DEF RejectLogin, Rollback, Fresh
<1>5. ASSUME NEW r \in Req, FindToken(r) PROVE DraftInv'
  BY <1>5 DEF FindToken, Fresh
<1>6. ASSUME NEW r \in Req, RejectUnknown(r) PROVE DraftInv'
  BY <1>6 DEF RejectUnknown, Rollback, Fresh
<1>7. ASSUME NEW r \in Req, LogoutUnknown(r) PROVE DraftInv'
  BY <1>7 DEF LogoutUnknown, Goto, Fresh
<1>8. ASSUME NEW r \in Req, RevokeSession(r) PROVE DraftInv'
  BY <1>8 DEF RevokeSession, Goto, Fresh
<1>9. ASSUME NEW r \in Req, RevokeExpired(r) PROVE DraftInv'
  BY <1>9 DEF RevokeExpired, Goto, Fresh
<1>10. ASSUME NEW r \in Req, Raise(r) PROVE DraftInv'
  BY <1>10 DEF Raise, Rollback, Fresh
<1>11. ASSUME NEW r \in Req, Revoke(r) PROVE DraftInv'
  BY <1>11 DEF Revoke, Goto, Fresh
<1>12. ASSUME NEW r \in Req, FindOwner(r) PROVE DraftInv'
  BY <1>12 DEF FindOwner, Goto, Fresh
<1>13. ASSUME NEW r \in Req, RejectOwner(r) PROVE DraftInv'
  BY <1>13 DEF RejectOwner, Rollback, Fresh
<1>14. ASSUME NEW r \in Req, IssueTokens(r) PROVE DraftInv'
  BY <1>14 DEF IssueTokens, Goto, Fresh
<1>15. ASSUME NEW r \in Req, Commit(r) PROVE DraftInv'
  <2>1. ASSUME NEW s \in Req, draft'[s] # None
        PROVE  s # r /\ draft[s] # None /\ draft'[s] = draft[s] /\ pc'[s] = pc[s]
    BY <1>15, <2>1 DEF Commit, Goto
  <2>2. \A t \in Token \ Stored : t # draft[r] => row'[t] = row[t]
    BY <1>15 DEF Commit, LockInv
  <2>3. \A s \in Req : draft'[s] # None => draft[s] # draft[r] /\ row'[draft[s]] = NoRow
    BY <2>1, <2>2
  <2> QED
    BY <2>1, <2>3
<1>16. ASSUME NEW r \in Req, Fail(r) PROVE DraftInv'
  BY <1>16 DEF Fail, Rollback, Fresh
<1>17. ASSUME NEW t \in Token, ExpireToken(t) PROVE DraftInv'
  BY <1>17 DEF ExpireToken, Fresh
<1>18. ASSUME NEW u \in User, DeactivateUser(u) PROVE DraftInv'
  BY <1>18 DEF DeactivateUser, Fresh
<1> QED
  BY <1>1, <1>2, <1>3, <1>4, <1>5, <1>6, <1>7, <1>8, <1>9,
     <1>10, <1>11, <1>12, <1>13, <1>14, <1>15, <1>16, <1>17, <1>18
  DEF Next, Step, Wait

\* Locks: taken when free, kept to the end, released by their holder.
LEMMA LockStep ==
  TypeOK /\ JobInv /\ LockInv /\ RowInv /\ [Next]_vars => LockInv'
<1> SUFFICES ASSUME TypeOK, JobInv, LockInv, RowInv, [Next]_vars
             PROVE  LockInv'
  OBVIOUS
<1> USE SessionAssumption DEF TypeOK, LockInv, TokenOf, Stored, PC
<1>0. ASSUME NEW s \in Req
      PROVE  /\ pc[s] \in {"owner", "issue", "commit"} /\ job[s].op = "refresh"
                   => job[s].token \in Token
             /\ pc[s] \in {"family", "expire", "revoke", "owner"}
                   => job[s].token \in Token /\ row[job[s].token] # NoRow
             /\ pc[s] = "finduser" => job[s].op = "login"
  BY Presented DEF JobInv
<1>1. CASE UNCHANGED vars
  BY <1>1 DEF vars
<1>2. ASSUME NEW r \in Req, Receive(r) PROVE LockInv'
  BY <1>0, <1>2 DEF Receive
<1>3. ASSUME NEW r \in Req, FindUser(r) PROVE LockInv'
  BY <1>0, <1>3 DEF FindUser, Goto
<1>4. ASSUME NEW r \in Req, RejectLogin(r) PROVE LockInv'
  BY <1>0, <1>4 DEF RejectLogin, Rollback
<1>5. ASSUME NEW r \in Req, FindToken(r) PROVE LockInv'
  BY <1>0, <1>5 DEF FindToken
<1>6. ASSUME NEW r \in Req, RejectUnknown(r) PROVE LockInv'
  BY <1>0, <1>6 DEF RejectUnknown, Rollback
<1>7. ASSUME NEW r \in Req, LogoutUnknown(r) PROVE LockInv'
  BY <1>0, <1>7 DEF LogoutUnknown, Goto
<1>8. ASSUME NEW r \in Req, RevokeSession(r) PROVE LockInv'
  <2>1. /\ pc[r] = "family" /\ pc' = [pc EXCEPT ![r] = "raise"]
        /\ UNCHANGED <<job, row>>
        /\ \A t \in Family(TokenOf(r)) : t \in Token /\ row[t] # NoRow /\ holder[t] = None
    BY <1>8 DEF RevokeSession, Goto, Family
  <2>2. \A t \in Token : \/ holder'[t] = holder[t]
                         \/ holder[t] = None /\ holder'[t] = r /\ row[t] # NoRow
    BY <1>8, <2>1 DEF RevokeSession
  <2>3. \A t \in Token : holder[t] # None => holder[t] # r /\ holder[t] \in Req
    BY <2>1
  <2>4. \A t \in Token : holder'[t] # None =>
          /\ row'[t] # NoRow
          /\ pc'[holder'[t]] \in {"raise", "owner", "issue", "commit"}
          /\ pc'[holder'[t]] # "raise" => t = job'[holder'[t]].token
    BY <2>1, <2>2, <2>3
  <2>5. \A s \in Req :
          pc'[s] \in {"owner", "issue", "commit"} /\ job'[s].op = "refresh" =>
            holder'[job'[s].token] = s
    BY <1>0, <2>1, <2>2
  <2> QED
    BY <2>4, <2>5
<1>9. ASSUME NEW r \in Req, RevokeExpired(r) PROVE LockInv'
  BY <1>0, <1>9 DEF RevokeExpired, Goto
<1>10. ASSUME NEW r \in Req, Raise(r) PROVE LockInv'
  BY <1>0, <1>10 DEF Raise, Rollback
<1>11. ASSUME NEW r \in Req, Revoke(r) PROVE LockInv'
  BY <1>0, <1>11 DEF Revoke, Goto
<1>12. ASSUME NEW r \in Req, FindOwner(r) PROVE LockInv'
  BY <1>0, <1>12 DEF FindOwner, Goto
<1>13. ASSUME NEW r \in Req, RejectOwner(r) PROVE LockInv'
  BY <1>0, <1>13 DEF RejectOwner, Rollback
<1>14. ASSUME NEW r \in Req, IssueTokens(r) PROVE LockInv'
  BY <1>0, <1>14 DEF IssueTokens, Goto
<1>15. ASSUME NEW r \in Req, Commit(r) PROVE LockInv'
  <2>1. draft[r] # None => NewRow(r) # NoRow
    BY <1>15, NewRowType DEF Commit, Goto
  <2>2. \A t \in Token : row[t] # NoRow => row'[t] # NoRow
    BY <1>15, <2>1 DEF Commit, NoRow
  <2>3. \A t \in Token : holder'[t] # None => holder[t] = holder'[t] /\ holder[t] # r
    BY <1>15 DEF Commit
  <2>4. \A s \in Req : pc'[s] # "done" => pc'[s] = pc[s] /\ s # r
    BY <1>15 DEF Commit, Goto
  <2>5. \A s \in Req, t \in Token : s # r /\ holder[t] = s => holder'[t] = s
    BY <1>15 DEF Commit
  <2>6. job' = job /\ \A s \in Req \ {r} : pc'[s] = pc[s]
    BY <1>15 DEF Commit, Goto
  <2>7. \A t \in Token : holder'[t] # None =>
          /\ row'[t] # NoRow
          /\ pc'[holder'[t]] \in {"raise", "owner", "issue", "commit"}
          /\ pc'[holder'[t]] # "raise" => t = job'[holder'[t]].token
    BY <2>2, <2>3, <2>6
  <2>8. \A s \in Req :
          pc'[s] \in {"owner", "issue", "commit"} /\ job'[s].op = "refresh" =>
            holder'[job'[s].token] = s
    BY <1>0, <2>4, <2>5, <2>6
  <2> QED
    BY <2>7, <2>8
<1>16. ASSUME NEW r \in Req, Fail(r) PROVE LockInv'
  BY <1>0, <1>16 DEF Fail, Rollback
<1>17. ASSUME NEW t \in Token, ExpireToken(t) PROVE LockInv'
  BY <1>0, <1>17 DEF ExpireToken
<1>18. ASSUME NEW u \in User, DeactivateUser(u) PROVE LockInv'
  BY <1>0, <1>18 DEF DeactivateUser
<1> QED
  BY <1>1, <1>2, <1>3, <1>4, <1>5, <1>6, <1>7, <1>8, <1>9,
     <1>10, <1>11, <1>12, <1>13, <1>14, <1>15, <1>16, <1>17, <1>18
  DEF Next, Step, Wait

\* Rows: the token a commit replaces is the one whose lock it holds.
LEMMA RowStep ==
  TypeOK /\ JobInv /\ DraftInv /\ LockInv /\ RowInv /\ [Next]_vars => RowInv'
<1> SUFFICES ASSUME TypeOK, JobInv, DraftInv, LockInv, RowInv, [Next]_vars
             PROVE  RowInv'
  OBVIOUS
<1> USE DEF TypeOK, RowInv, Stored
<1>1. CASE UNCHANGED vars
  BY <1>1 DEF vars
<1>2. ASSUME NEW r \in Req, Receive(r) PROVE RowInv'
  BY <1>2 DEF Receive
<1>3. ASSUME NEW r \in Req, FindUser(r) PROVE RowInv'
  BY <1>3 DEF FindUser, Goto
<1>4. ASSUME NEW r \in Req, RejectLogin(r) PROVE RowInv'
  BY <1>4 DEF RejectLogin, Rollback
<1>5. ASSUME NEW r \in Req, FindToken(r) PROVE RowInv'
  BY <1>5 DEF FindToken
<1>6. ASSUME NEW r \in Req, RejectUnknown(r) PROVE RowInv'
  BY <1>6 DEF RejectUnknown, Rollback
<1>7. ASSUME NEW r \in Req, LogoutUnknown(r) PROVE RowInv'
  BY <1>7 DEF LogoutUnknown, Goto
<1>8. ASSUME NEW r \in Req, RevokeSession(r) PROVE RowInv'
  BY <1>8 DEF RevokeSession, Goto
<1>9. ASSUME NEW r \in Req, RevokeExpired(r) PROVE RowInv'
  BY <1>9 DEF RevokeExpired, Goto
<1>10. ASSUME NEW r \in Req, Raise(r) PROVE RowInv'
  BY <1>10 DEF Raise, Rollback
<1>11. ASSUME NEW r \in Req, Revoke(r) PROVE RowInv'
  BY <1>11 DEF Revoke, Goto
<1>12. ASSUME NEW r \in Req, FindOwner(r) PROVE RowInv'
  BY <1>12 DEF FindOwner, Goto
<1>13. ASSUME NEW r \in Req, RejectOwner(r) PROVE RowInv'
  BY <1>13 DEF RejectOwner, Rollback
<1>14. ASSUME NEW r \in Req, IssueTokens(r) PROVE RowInv'
  BY <1>14 DEF IssueTokens, Goto
<1>15. ASSUME NEW r \in Req, Commit(r) PROVE RowInv'
  <2>0. pc[r] = "commit" /\ draft[r] \in Token \cup {None}
    BY <1>15 DEF Commit, Goto
  <2>1. draft[r] # None =>
          /\ draft[r] \in Token /\ draft[r] \notin Stored
          /\ NewRow(r) # NoRow /\ NewRow(r).user \in User
          /\ NewRow(r).parent = TokenOf(r) /\ NewRow(r).state = "live"
    BY <2>0, NewRowType DEF DraftInv, NewRow
  <2>2. ASSUME NEW t \in Token, t # draft[r]
        PROVE  /\ row'[t].session = row[t].session /\ row'[t].user = row[t].user
               /\ row'[t].parent = row[t].parent
               /\ row'[t].state = IF holder[t] = r THEN "revoked" ELSE row[t].state
               /\ row'[t] # NoRow <=> row[t] # NoRow
    <3>1. row[t] \in Row /\ NoRow.state = "absent" /\ (holder[t] = r => row[t] # NoRow)
      BY SessionAssumption DEF LockInv, NoRow
    <3> QED
      BY <1>15, <2>2, <3>1 DEF Commit, Row
  <2>3. draft[r] # None => row'[draft[r]] = NewRow(r)
    BY <1>15, <2>1 DEF Commit
  <2>4. ASSUME draft[r] # None, TokenOf(r) # None
        PROVE  /\ TokenOf(r) \in Stored /\ holder[TokenOf(r)] = r /\ TokenOf(r) # draft[r]
               /\ NewRow(r).user = row[TokenOf(r)].user
               /\ NewRow(r).session = row[TokenOf(r)].session
    <3>1. job[r].op = "refresh"
      BY <2>0, <2>4 DEF JobInv
    <3>2. TokenOf(r) \in Stored
      BY <2>4 DEF JobInv
    <3> QED
      BY <2>0, <2>1, <2>4, <3>1, <3>2 DEF LockInv, NewRow, UserOf
  <2>5. ASSUME NEW t \in Stored, t # draft[r]
        PROVE  /\ row'[t].state # "absent" /\ row'[t].user \in User
               /\ row'[t].parent # None =>
                    LET p == row'[t].parent
                    IN  /\ p \in Token /\ row'[p] # NoRow /\ row'[p].state = "revoked"
                        /\ row'[p].session = row'[t].session /\ row'[p].user = row'[t].user
    <3>1. row[t].parent # None => row[t].parent # draft[r] /\ row[t].parent \in Stored
      BY <2>1
    <3> QED
      BY <2>2, <2>5, <3>1
  <2>6. ASSUME draft[r] # None
        PROVE  LET t == draft[r] IN
               /\ row'[t].state # "absent" /\ row'[t].user \in User
               /\ row'[t].parent # None =>
                    LET p == row'[t].parent
                    IN  /\ p \in Token /\ row'[p] # NoRow /\ row'[p].state = "revoked"
                        /\ row'[p].session = row'[t].session /\ row'[p].user = row'[t].user
    <3>1. TokenOf(r) # None =>
            /\ TokenOf(r) \in Token /\ row'[TokenOf(r)] # NoRow
            /\ row'[TokenOf(r)].state = "revoked"
            /\ row'[TokenOf(r)].session = NewRow(r).session
            /\ row'[TokenOf(r)].user = NewRow(r).user
      BY <2>2, <2>4, <2>6
    <3>2. row'[draft[r]] = NewRow(r)
      BY <2>3, <2>6
    <3> QED
      BY <2>1, <2>6, <3>1, <3>2
  <2>7. ASSUME NEW t \in Token, row'[t] # NoRow
        PROVE  (t \in Stored /\ t # draft[r]) \/ (draft[r] # None /\ t = draft[r])
    <3>1. CASE t = draft[r]
      BY <3>1, SessionAssumption
    <3>2. CASE t # draft[r]
      BY <2>2, <2>7, <3>2
    <3> QED
      BY <3>1, <3>2
  <2>8. known' \subseteq {t \in Token : row'[t] # NoRow}
    <3>1. known' \subseteq known \cup ({draft[r]} \ {None})
      BY <1>15 DEF Commit
    <3>2. \A t \in known : t \in Token /\ row[t] # NoRow
      OBVIOUS
    <3>3. \A t \in known : t \in Token /\ row'[t] # NoRow
      BY <2>1, <2>2, <3>2, SessionAssumption
    <3>4. draft[r] # None => draft[r] \in Token /\ row'[draft[r]] # NoRow
      BY <2>1, <2>3
    <3> QED
      BY <3>1, <3>3, <3>4
  <2> QED
    BY <2>5, <2>6, <2>7, <2>8
<1>16. ASSUME NEW r \in Req, Fail(r) PROVE RowInv'
  BY <1>16 DEF Fail, Rollback
<1>17. ASSUME NEW t \in Token, ExpireToken(t) PROVE RowInv'
  BY <1>17 DEF ExpireToken
<1>18. ASSUME NEW u \in User, DeactivateUser(u) PROVE RowInv'
  BY <1>18 DEF DeactivateUser
<1> QED
  BY <1>1, <1>2, <1>3, <1>4, <1>5, <1>6, <1>7, <1>8, <1>9,
     <1>10, <1>11, <1>12, <1>13, <1>14, <1>15, <1>16, <1>17, <1>18
  DEF Next, Step, Wait

\* Answers: given with the last step only.
LEMMA AnswerStep ==
  TypeOK /\ AnswerInv /\ [Next]_vars => AnswerInv'
<1> SUFFICES ASSUME TypeOK, AnswerInv, [Next]_vars
             PROVE  AnswerInv'
  OBVIOUS
<1> USE DEF TypeOK, AnswerInv, PC
<1>1. CASE UNCHANGED vars
  BY <1>1 DEF vars
<1>2. ASSUME NEW r \in Req, Receive(r) PROVE AnswerInv'
  BY <1>2 DEF Receive
<1>3. ASSUME NEW r \in Req, FindUser(r) PROVE AnswerInv'
  BY <1>3 DEF FindUser, Goto
<1>4. ASSUME NEW r \in Req, RejectLogin(r) PROVE AnswerInv'
  BY <1>4 DEF RejectLogin, Rollback
<1>5. ASSUME NEW r \in Req, FindToken(r) PROVE AnswerInv'
  BY <1>5 DEF FindToken
<1>6. ASSUME NEW r \in Req, RejectUnknown(r) PROVE AnswerInv'
  BY <1>6 DEF RejectUnknown, Rollback
<1>7. ASSUME NEW r \in Req, LogoutUnknown(r) PROVE AnswerInv'
  BY <1>7 DEF LogoutUnknown, Goto
<1>8. ASSUME NEW r \in Req, RevokeSession(r) PROVE AnswerInv'
  BY <1>8 DEF RevokeSession, Goto
<1>9. ASSUME NEW r \in Req, RevokeExpired(r) PROVE AnswerInv'
  BY <1>9 DEF RevokeExpired, Goto
<1>10. ASSUME NEW r \in Req, Raise(r) PROVE AnswerInv'
  BY <1>10 DEF Raise, Rollback
<1>11. ASSUME NEW r \in Req, Revoke(r) PROVE AnswerInv'
  BY <1>11 DEF Revoke, Goto
<1>12. ASSUME NEW r \in Req, FindOwner(r) PROVE AnswerInv'
  BY <1>12 DEF FindOwner, Goto
<1>13. ASSUME NEW r \in Req, RejectOwner(r) PROVE AnswerInv'
  BY <1>13 DEF RejectOwner, Rollback
<1>14. ASSUME NEW r \in Req, IssueTokens(r) PROVE AnswerInv'
  BY <1>14 DEF IssueTokens, Goto
<1>15. ASSUME NEW r \in Req, Commit(r) PROVE AnswerInv'
  BY <1>15 DEF Commit, Goto
<1>16. ASSUME NEW r \in Req, Fail(r) PROVE AnswerInv'
  BY <1>16 DEF Fail, Rollback
<1>17. ASSUME NEW t \in Token, ExpireToken(t) PROVE AnswerInv'
  BY <1>17 DEF ExpireToken
<1>18. ASSUME NEW u \in User, DeactivateUser(u) PROVE AnswerInv'
  BY <1>18 DEF DeactivateUser
<1> QED
  BY <1>1, <1>2, <1>3, <1>4, <1>5, <1>6, <1>7, <1>8, <1>9,
     <1>10, <1>11, <1>12, <1>13, <1>14, <1>15, <1>16, <1>17, <1>18
  DEF Next, Step, Wait

---------------------------------------------------------------------------
\* The invariant holds of the empty store.
LEMMA InitIInv == Init => IInv
<1> SUFFICES ASSUME Init PROVE IInv
  OBVIOUS
<1> USE SessionAssumption DEF Init
<1>1. TypeOK
  BY ConstantTypes DEF TypeOK, PC
<1>2. JobInv
  BY DEF JobInv, NoJob, TokenOf
<1>3. DraftInv
  BY DEF DraftInv
<1>4. LockInv
  BY DEF LockInv
<1>5. RowInv
  BY DEF RowInv, Stored
<1>6. AnswerInv
  BY DEF AnswerInv
<1> QED
  BY <1>1, <1>2, <1>3, <1>4, <1>5, <1>6 DEF IInv

\* Every step keeps the invariant.
LEMMA StepIInv == IInv /\ [Next]_vars => IInv'
BY TypeStep, JobStep, DraftStep, LockStep, RowStep, AnswerStep DEF IInv

\* Every reachable state satisfies the inductive invariant.
THEOREM Inductive == Spec => []IInv
BY InitIInv, StepIInv, PTL DEF Spec

\* Every variable keeps its type, for any requests, tokens and users.
THEOREM TypeCorrect == Spec => []TypeOK
<1>1. IInv => TypeOK
  BY DEF IInv
<1> QED
  BY <1>1, Inductive, PTL

\* Wherever refresh() has stored a new token, the one it replaces is revoked
\* and both belong to one session and one user.
THEOREM RotationAtomicHolds == Spec => []RotationAtomic
<1>1. IInv => RotationAtomic
  BY DEF IInv, RowInv, RotationAtomic
<1> QED
  BY <1>1, Inductive, PTL

\* No client ever holds a token that get_db has not committed.
THEOREM KnownIsStoredHolds == Spec => []KnownIsStored
<1>1. IInv => KnownIsStored
  BY DEF IInv, RowInv, KnownIsStored
<1> QED
  BY <1>1, Inductive, PTL

---------------------------------------------------------------------------
\* What a commit does to the rows.
LEMMA CommitRows ==
  ASSUME IInv, NEW r \in Req, Commit(r)
  PROVE  /\ draft[r] \in Token => draft[r] \notin Stored
         /\ \A t \in Token : t # draft[r] =>
              /\ row'[t].session = row[t].session /\ row'[t].user = row[t].user
              /\ row'[t].parent = row[t].parent
              /\ row'[t].state = IF holder[t] = r THEN "revoked" ELSE row[t].state
         /\ draft[r] \in Token => row'[draft[r]] = NewRow(r)
<1>1. /\ row \in [Token -> Row] /\ draft[r] \in Token \cup {None}
  BY DEF IInv, TypeOK
<1>2. draft[r] \in Token => draft[r] \notin Stored
  BY SessionAssumption DEF IInv, DraftInv
<1>3. draft[r] \in Token => row'[draft[r]] = NewRow(r)
  BY DEF Commit
<1>4. ASSUME NEW t \in Token, t # draft[r]
      PROVE  /\ row'[t].session = row[t].session /\ row'[t].user = row[t].user
             /\ row'[t].parent = row[t].parent
             /\ row'[t].state = IF holder[t] = r THEN "revoked" ELSE row[t].state
  <2>1. row[t] \in Row
    BY <1>1
  <2> QED
    BY <1>4, <2>1 DEF Commit, Row
<1> QED
  BY <1>2, <1>3, <1>4

---------------------------------------------------------------------------
\* What SpentIsRefused needs at every later state of request q.
Refused(q) ==
  \/ pc[q] # "idle" /\ job[q].op # "refresh"
  \/ pc[q] = "find" /\ Spent(q)
  \/ pc[q] \in {"family", "expire", "raise"}
  \/ pc[q] = "done" /\ outcome[q] # "200"

\* A refresh that met a spent token can only be answered 401, or fail.
LEMMA RefusedStep ==
  ASSUME IInv, [Next]_vars, NEW q \in Req, Refused(q)
  PROVE  Refused(q)'
<1> SUFFICES Refused(q)'
  OBVIOUS
<1> USE DEF IInv, TypeOK, Refused, Spent, TokenOf
<1>1. CASE UNCHANGED vars
  BY <1>1 DEF vars
<1>2. ASSUME NEW r \in Req, Receive(r) PROVE Refused(q)'
  BY <1>2 DEF Receive
<1>3. ASSUME NEW r \in Req, FindUser(r) PROVE Refused(q)'
  BY <1>3 DEF FindUser, Goto
<1>4. ASSUME NEW r \in Req, RejectLogin(r) PROVE Refused(q)'
  BY <1>4 DEF RejectLogin, Rollback
<1>5. ASSUME NEW r \in Req, FindToken(r) PROVE Refused(q)'
  BY <1>5 DEF FindToken
<1>6. ASSUME NEW r \in Req, RejectUnknown(r) PROVE Refused(q)'
  BY <1>6 DEF RejectUnknown, Rollback
<1>7. ASSUME NEW r \in Req, LogoutUnknown(r) PROVE Refused(q)'
  BY <1>7 DEF LogoutUnknown, Goto
<1>8. ASSUME NEW r \in Req, RevokeSession(r) PROVE Refused(q)'
  BY <1>8 DEF RevokeSession, Goto
<1>9. ASSUME NEW r \in Req, RevokeExpired(r) PROVE Refused(q)'
  BY <1>9 DEF RevokeExpired, Goto
<1>10. ASSUME NEW r \in Req, Raise(r) PROVE Refused(q)'
  BY <1>10 DEF Raise, Rollback
<1>11. ASSUME NEW r \in Req, Revoke(r) PROVE Refused(q)'
  BY <1>11 DEF Revoke, Goto
<1>12. ASSUME NEW r \in Req, FindOwner(r) PROVE Refused(q)'
  BY <1>12 DEF FindOwner, Goto
<1>13. ASSUME NEW r \in Req, RejectOwner(r) PROVE Refused(q)'
  BY <1>13 DEF RejectOwner, Rollback
<1>14. ASSUME NEW r \in Req, IssueTokens(r) PROVE Refused(q)'
  BY <1>14 DEF IssueTokens, Goto
<1>15. ASSUME NEW r \in Req, Commit(r) PROVE Refused(q)'
  <2>1. CASE q = r
    BY <1>15, <2>1 DEF Commit, Goto
  <2>2. CASE q # r
    <3>1. TokenOf(q) # None => TokenOf(q) \in Token /\ TokenOf(q) \in Stored
      BY Presented
    <3>2. TokenOf(q) # None /\ row[TokenOf(q)].state = "revoked" =>
            row'[TokenOf(q)].state = "revoked"
      BY <1>15, <3>1, CommitRows
    <3> QED
      BY <1>15, <2>2, <3>2 DEF Commit, Goto
  <2> QED
    BY <2>1, <2>2
<1>16. ASSUME NEW r \in Req, Fail(r) PROVE Refused(q)'
  BY <1>16 DEF Fail, Rollback
<1>17. ASSUME NEW t \in Token, ExpireToken(t) PROVE Refused(q)'
  BY <1>17 DEF ExpireToken
<1>18. ASSUME NEW v \in User, DeactivateUser(v) PROVE Refused(q)'
  BY <1>18 DEF DeactivateUser
<1> QED
  BY <1>1, <1>2, <1>3, <1>4, <1>5, <1>6, <1>7, <1>8, <1>9,
     <1>10, <1>11, <1>12, <1>13, <1>14, <1>15, <1>16, <1>17, <1>18
  DEF Next, Step, Wait

\* A refresh that reads its token after that was spent never renews it.
THEOREM SpentIsRefusedHolds == Spec => SpentIsRefused
<1> SUFFICES ASSUME NEW r \in Req
             PROVE  Spec => [](pc[r] = "find" /\ Spent(r) => []~Renews(r))
  BY DEF SpentIsRefused
<1>1. pc[r] = "find" /\ Spent(r) => Refused(r)
  BY DEF Refused
<1>2. IInv /\ Refused(r) /\ [Next]_vars => Refused(r)'
  BY RefusedStep
<1>3. IInv /\ Refused(r) => ~Renews(r)
  BY DEF Refused, Renews, IInv, DraftInv, AnswerInv
<1> QED
  BY <1>1, <1>2, <1>3, Inductive, PTL DEF Spec

---------------------------------------------------------------------------
\* What DeactivatedIsRefused needs at every later state of request q.
Barred(q, u) ==
  /\ ~active[u]
  /\ \/ pc[q] \notin {"issue", "commit"}
     \/ job[q].op = "logout"
     \/ UserOf(q) # u

\* Past the check of the account, a request works for an active one.
LEMMA BarredStep ==
  ASSUME IInv, [Next]_vars, NEW q \in Req, NEW u \in User, Barred(q, u)
  PROVE  Barred(q, u)'
<1> SUFFICES Barred(q, u)'
  OBVIOUS
<1> USE DEF IInv, TypeOK, Barred, UserOf, TokenOf
<1>1. CASE UNCHANGED vars
  BY <1>1 DEF vars
<1>2. ASSUME NEW r \in Req, Receive(r) PROVE Barred(q, u)'
  BY <1>2 DEF Receive
<1>3. ASSUME NEW r \in Req, FindUser(r) PROVE Barred(q, u)'
  BY <1>3 DEF FindUser, Goto, JobInv
<1>4. ASSUME NEW r \in Req, RejectLogin(r) PROVE Barred(q, u)'
  BY <1>4 DEF RejectLogin, Rollback
<1>5. ASSUME NEW r \in Req, FindToken(r) PROVE Barred(q, u)'
  BY <1>5 DEF FindToken, JobInv
<1>6. ASSUME NEW r \in Req, RejectUnknown(r) PROVE Barred(q, u)'
  BY <1>6 DEF RejectUnknown, Rollback
<1>7. ASSUME NEW r \in Req, LogoutUnknown(r) PROVE Barred(q, u)'
  BY <1>7 DEF LogoutUnknown, Goto
<1>8. ASSUME NEW r \in Req, RevokeSession(r) PROVE Barred(q, u)'
  BY <1>8 DEF RevokeSession, Goto
<1>9. ASSUME NEW r \in Req, RevokeExpired(r) PROVE Barred(q, u)'
  BY <1>9 DEF RevokeExpired, Goto
<1>10. ASSUME NEW r \in Req, Raise(r) PROVE Barred(q, u)'
  BY <1>10 DEF Raise, Rollback
<1>11. ASSUME NEW r \in Req, Revoke(r) PROVE Barred(q, u)'
  BY <1>11 DEF Revoke, Goto, JobInv
<1>12. ASSUME NEW r \in Req, FindOwner(r) PROVE Barred(q, u)'
  BY <1>12 DEF FindOwner, Goto, JobInv
<1>13. ASSUME NEW r \in Req, RejectOwner(r) PROVE Barred(q, u)'
  BY <1>13 DEF RejectOwner, Rollback
<1>14. ASSUME NEW r \in Req, IssueTokens(r) PROVE Barred(q, u)'
  BY <1>14 DEF IssueTokens, Goto
<1>15. ASSUME NEW r \in Req, Commit(r) PROVE Barred(q, u)'
  <2>1. CASE q = r
    BY <1>15, <2>1 DEF Commit, Goto
  <2>2. CASE q # r
    <3>1. pc'[q] = pc[q] /\ job' = job /\ active' = active
      BY <1>15, <2>2 DEF Commit, Goto
    <3>2. pc[q] \in {"issue", "commit"} /\ job[q].op # "login" /\ job[q].op # "logout" =>
            TokenOf(q) \in Token /\ TokenOf(q) \in Stored
      <4>1. job[q] \in Job
        OBVIOUS
      <4>2. pc[q] \in {"issue", "commit"} /\ job[q].op # "login" /\ job[q].op # "logout" =>
              job[q].op = "refresh"
        BY <4>1 DEF Job, JobInv
      <4> QED
        BY <4>2, Presented DEF JobInv
    <3>3. pc[q] \in {"issue", "commit"} /\ job[q].op # "login" /\ job[q].op # "logout" =>
            row'[TokenOf(q)].user = row[TokenOf(q)].user
      BY <1>15, <3>2, CommitRows
    <3> QED
      BY <3>1, <3>3
  <2> QED
    BY <2>1, <2>2
<1>16. ASSUME NEW r \in Req, Fail(r) PROVE Barred(q, u)'
  BY <1>16 DEF Fail, Rollback
<1>17. ASSUME NEW t \in Token, ExpireToken(t) PROVE Barred(q, u)'
  BY <1>17 DEF ExpireToken
<1>18. ASSUME NEW v \in User, DeactivateUser(v) PROVE Barred(q, u)'
  BY <1>18 DEF DeactivateUser
<1> QED
  BY <1>1, <1>2, <1>3, <1>4, <1>5, <1>6, <1>7, <1>8, <1>9,
     <1>10, <1>11, <1>12, <1>13, <1>14, <1>15, <1>16, <1>17, <1>18
  DEF Next, Step, Wait

\* A request that starts after its account is deactivated draws no token.
THEOREM DeactivatedIsRefusedHolds == Spec => DeactivatedIsRefused
<1> SUFFICES ASSUME NEW r \in Req, NEW u \in User
             PROVE  Spec => [](pc[r] \in {"idle", "find", "finduser"} /\ ~active[u]
                               => [](draft[r] # None => UserOf(r) # u))
  BY DEF DeactivatedIsRefused
<1>1. pc[r] \in {"idle", "find", "finduser"} /\ ~active[u] => Barred(r, u)
  BY DEF Barred
<1>2. IInv /\ Barred(r, u) /\ [Next]_vars => Barred(r, u)'
  BY BarredStep
<1>3. IInv /\ Barred(r, u) => (draft[r] # None => UserOf(r) # u)
  BY DEF Barred, IInv, DraftInv, JobInv
<1> QED
  BY <1>1, <1>2, <1>3, Inductive, PTL DEF Spec

---------------------------------------------------------------------------
\* A commit of a login plants a token, of a refresh rotates or forks one, of
\* a logout cuts one or changes nothing.
LEMMA CommitForest ==
  ASSUME IInv, NEW r \in Req, Commit(r)
  PROVE  Forest!Next \/ UNCHANGED Forest!vars
<1> DEFINE st == [t \in Token |-> row[t].state]
<1> DEFINE pa == [t \in Token |-> row[t].parent]
<1>0. /\ TypeOK /\ JobInv /\ DraftInv /\ LockInv /\ RowInv /\ pc[r] = "commit"
      /\ draft[r] \in Token \cup {None} /\ job[r] \in Job
      /\ row \in [Token -> Row]
  BY DEF IInv, Commit, Goto, TypeOK
<1>1. \A t \in Token : holder[t] = r => t = TokenOf(r) /\ t \in Stored
  BY <1>0, SessionAssumption DEF LockInv
<1>2. ASSUME NEW t \in Token, t # draft[r]
      PROVE  /\ pa'[t] = pa[t]
             /\ st'[t] = IF holder[t] = r THEN "revoked" ELSE st[t]
  BY <1>2, CommitRows
<1>3. CASE draft[r] = None
  <2>1. \A t \in Token : t # draft[r]
    BY <1>3, SessionAssumption
  <2>2. UNCHANGED pa
    BY <1>2, <2>1
  <2>3. CASE \E t \in Token : holder[t] = r /\ st[t] = "live"
    <3>1. PICK t \in Token : holder[t] = r /\ st[t] = "live"
      BY <2>3
    <3>2. st' = [st EXCEPT ![t] = "revoked"]
      <4>1. \A s \in Token : s # t => holder[s] # r
        BY <1>1, <3>1
      <4>2. st'[t] = "revoked" /\ \A s \in Token : s # t => st'[s] = st[s]
        BY <1>2, <2>1, <3>1, <4>1
      <4> QED
        BY <4>2
    <3>3. Forest!Cut(t)
      BY <2>2, <3>1, <3>2 DEF Forest!Cut
    <3> QED
      BY <3>3 DEF Forest!Next
  <2>4. CASE ~\E t \in Token : holder[t] = r /\ st[t] = "live"
    <3>1. \A t \in Token : holder[t] = r => st[t] = "revoked"
      <4>1. \A t \in Token : holder[t] = r => row[t].state # "absent" /\ row[t] \in Row
        BY <1>0, <1>1 DEF RowInv
      <4> QED
        BY <2>4, <4>1 DEF Row
    <3>2. UNCHANGED st
      BY <1>2, <2>1, <3>1
    <3> QED
      BY <2>2, <3>2 DEF Forest!vars
  <2> QED
    BY <2>3, <2>4
<1>4. CASE draft[r] # None
  <2>1. /\ draft[r] \in Token /\ row[draft[r]] = NoRow /\ row'[draft[r]] = NewRow(r)
    BY <1>0, <1>4, CommitRows DEF Stored
  <2>2. st[draft[r]] = "absent" /\ pa[draft[r]] = None
    BY <2>1 DEF NoRow
  <2>3. st'[draft[r]] = "live" /\ pa'[draft[r]] = TokenOf(r)
    BY <2>1 DEF NewRow
  <2>4. job[r].op \in {"login", "refresh"}
    BY <1>0, <1>4 DEF JobInv, Job
  <2>5. CASE job[r].op = "login"
    <3>1. TokenOf(r) = None
      BY <1>0, <2>5 DEF JobInv
    <3>2. \A t \in Token : holder[t] # r
      BY <1>1, <3>1, SessionAssumption
    <3>3. st' = [st EXCEPT ![draft[r]] = "live"] /\ UNCHANGED pa
      BY <1>2, <2>1, <2>2, <2>3, <3>1, <3>2
    <3> QED
      BY <2>1, <2>2, <3>3 DEF Forest!Next, Forest!Plant
  <2>6. CASE job[r].op = "refresh"
    <3>1. TokenOf(r) \in Token /\ TokenOf(r) \in Stored /\ holder[TokenOf(r)] = r
      BY <1>0, <2>6, Presented DEF JobInv, LockInv
    <3>2. TokenOf(r) # draft[r] /\ st[TokenOf(r)] \in {"live", "revoked"}
      <4>1. row[TokenOf(r)] \in Row /\ row[TokenOf(r)].state # "absent"
        BY <1>0, <3>1 DEF RowInv
      <4> QED
        BY <2>1, <3>1, <4>1 DEF Row, Stored
    <3>3. pa' = [pa EXCEPT ![draft[r]] = TokenOf(r)]
      BY <1>2, <2>1, <2>3
    <3>4. st' = [st EXCEPT ![TokenOf(r)] = "revoked", ![draft[r]] = "live"]
      BY <1>1, <1>2, <2>1, <2>3, <3>1, <3>2
    <3>5. CASE st[TokenOf(r)] = "live"
      BY <2>1, <2>2, <3>1, <3>3, <3>4, <3>5 DEF Forest!Next, Forest!Rotate
    <3>6. CASE st[TokenOf(r)] = "revoked"
      <4>1. st' = [st EXCEPT ![draft[r]] = "live"]
        BY <3>1, <3>2, <3>4, <3>6
      <4> QED
        BY <2>1, <2>2, <3>1, <3>3, <4>1, <3>6 DEF Forest!Next, Forest!Fork
    <3> QED
      BY <3>2, <3>5, <3>6
  <2> QED
    BY <2>4, <2>5, <2>6
<1> QED
  BY <1>3, <1>4

\* The transactions implement the forest: what clients of the store can see
\* changes one instant at a time, at commits.
THEOREM Implements == Spec => ForestSpec
<1>1. Init => Forest!Init
  BY DEF Init, NoRow, Forest!Init
<1>2. IInv /\ [Next]_vars => [Forest!Next]_Forest!vars
  <2> SUFFICES ASSUME IInv, [Next]_vars
               PROVE  Forest!Next \/ UNCHANGED Forest!vars
    OBVIOUS
  <2>1. CASE \E r \in Req : Commit(r)
    BY <2>1, CommitForest
  <2>2. CASE ~\E r \in Req : Commit(r)
    <3>1. UNCHANGED row
      BY <2>2
      DEF vars, Next, Step, Wait, Receive, FindUser, RejectLogin, FindToken,
          RejectUnknown, LogoutUnknown, RevokeSession, RevokeExpired, Raise, Revoke,
          FindOwner, RejectOwner, IssueTokens, Fail, ExpireToken, DeactivateUser
    <3> QED
      BY <3>1 DEF Forest!vars
  <2> QED
    BY <2>1, <2>2
<1> QED
  BY <1>1, <1>2, Inductive, PTL DEF Spec, ForestSpec, Forest!Spec
=============================================================================
