--------------------------- MODULE IdentityProofs ---------------------------
(***************************************************************************)
(* Identity for any number of handlers, invites, accounts and addresses,   *)
(* with or without handlers that die.                                      *)
(***************************************************************************)
EXTENDS Identity, TLAPS

\* What a handler still knows, however long ago it read it: the rows and
\* accounts it is about to write have been made, belong together, and an
\* account whose row is about to be removed is gone.
Holding(h) ==
    LET r == req[h] IN
    /\ r.pc \in {"resend", "cancel", "expire", "accept", "row", "mark", "login"} =>
         r.inv \in Invites /\ invite[r.inv].status # "none"
    /\ r.pc = "accept" => r.email = invite[r.inv].email
    /\ r.pc \in {"row", "mark", "undo", "platformRow", "token", "login",
                 "provider", "db", "remove", "drop"} =>
         r.acc \in Accounts /\ account[r.acc].state # "absent"
    /\ r.pc \in {"row", "mark", "login"} => account[r.acc].email = invite[r.inv].email
    /\ r.pc = "mark" => user[r.acc].state # "absent"
    /\ r.pc = "provider" => r.isActive # "same"
    /\ r.pc = "drop" => account[r.acc].state = "deleted"

HandlersHold == \A h \in Handlers : Holding(h)

RowsHaveHadAccounts ==
    \A a \in Accounts : user[a].state # "absent" => account[a].state # "absent"

IInv ==
    /\ TypeOK
    /\ HandlersHold
    /\ RowsHaveHadAccounts
    /\ RemovedUsersHaveNoAccount
    /\ AcceptedInvitesMadeUsers
    /\ NoAccountUnattended

-----------------------------------------------------------------------------
\* Rows and accounts are only ever added to, and what is deleted at the
\* provider stays deleted.
Grows ==
    /\ \A i \in Invites : invite[i].status # "none" =>
         invite'[i].status # "none" /\ invite'[i].email = invite[i].email
    /\ \A a \in Accounts :
         /\ account[a].state # "absent" =>
              account'[a].state # "absent" /\ account'[a].email = account[a].email
         /\ account[a].state = "deleted" => account'[a].state = "deleted"
    /\ \A a \in Accounts : user[a].state # "absent" => user'[a].state # "absent"

Only(h) == \A g \in Handlers \ {h} : req'[g] = req[g]

\* What other handlers hold survives such a step.
LEMMA OthersHold ==
    ASSUME TypeOK, Grows, NEW g \in Handlers, Holding(g), req'[g] = req[g]
    PROVE  Holding(g)'
BY DEF TypeOK, Request, Grows, Holding

\* A handler's new record.
LEMMA Recorded ==
    ASSUME TypeOK, NEW h \in Handlers, NEW r \in Request, req' = [req EXCEPT ![h] = r]
    PROVE  req' \in [Handlers -> Request] /\ Only(h) /\ req'[h] = r
BY DEF TypeOK, Only

\* A handler that ends holds nothing.
LEMMA Ended ==
    ASSUME TypeOK, NEW h \in Handlers, Ends(h)
    PROVE  req' \in [Handlers -> Request] /\ Only(h) /\ Holding(h)' /\ req'[h] = NoRequest
<1>1. NoRequest \in Request BY IdentityConfig DEF NoRequest, Request, Pc
<1>2. req' \in [Handlers -> Request] /\ Only(h) /\ req'[h] = NoRequest
  BY <1>1, Recorded DEF Ends
<1> QED BY <1>2 DEF Holding, NoRequest

\* A handler that goes on to its next write keeps its record.
LEMMA Gone ==
    ASSUME TypeOK, NEW h \in Handlers, NEW pc \in Pc, GoesTo(h, pc)
    PROVE  /\ req' \in [Handlers -> Request] /\ Only(h)
           /\ req'[h] = [req[h] EXCEPT !.pc = pc]
<1> DEFINE r == [req[h] EXCEPT !.pc = pc]
<1>1. r \in Request BY DEF TypeOK, Request
<1>2. req' = [req EXCEPT ![h] = r] BY DEF GoesTo, TypeOK
<1> HIDE DEF r
<1>3. req' \in [Handlers -> Request] /\ Only(h) /\ req'[h] = r BY <1>1, <1>2, Recorded
<1> QED BY <1>3 DEF r

\* Reading changes nothing but the reader's record.
LEMMA ReadOnly ==
    ASSUME TypeOK, UNCHANGED <<invite, account, user>>, req' \in [Handlers -> Request]
    PROVE  TypeOK' /\ Grows
BY DEF TypeOK, Grows

\* Changing the date leaves the rest of an invite.
LEMMA DateWritten ==
    ASSUME NEW v \in UserInvite, NEW live \in BOOLEAN
    PROVE  [v EXCEPT !.live = live] = [status |-> v.status, email |-> v.email, live |-> live]
BY DEF UserInvite

\* An invite is written by its id.
LEMMA InviteWritten ==
    ASSUME TypeOK, NEW i \in Invites, invite[i].status # "none",
           NEW status \in InviteStatus, NEW live \in BOOLEAN,
           invite' = [invite EXCEPT ![i] = [status |-> status, email |-> invite[i].email,
                                            live |-> live]],
           UNCHANGED <<account, user>>, req' \in [Handlers -> Request]
    PROVE  TypeOK' /\ Grows
BY DEF TypeOK, Grows, UserInvite, InviteStatus

\* An account is written by its uid, and never comes back.
LEMMA AccountWritten ==
    ASSUME TypeOK, NEW a \in Accounts, account[a].state # "absent",
           NEW state \in {"enabled", "disabled", "deleted"},
           account[a].state = "deleted" => state = "deleted",
           account' = [account EXCEPT ![a].state = state],
           UNCHANGED <<invite, user>>, req' \in [Handlers -> Request]
    PROVE  TypeOK' /\ Grows
BY DEF TypeOK, Grows, Account

\* A new account takes the place of none.
LEMMA AccountMade ==
    ASSUME TypeOK, NEW a \in Accounts, NEW e \in Emails \cup {None}, NEW ours \in BOOLEAN,
           NewAccount(a, e, ours), UNCHANGED <<invite, user>>, req' \in [Handlers -> Request]
    PROVE  /\ TypeOK' /\ Grows
           /\ account'[a] = [state |-> "enabled", email |-> e, ours |-> ours]
BY DEF TypeOK, Grows, Account, NewAccount

\* What a call holds once it has read: types, growth and the handler's record.
LEMMA CallHolds ==
    ASSUME IInv, NEW h \in Handlers,
           \/ InviteCall(h) \/ AcceptCall(h) \/ PlatformCall(h) \/ LoginCall(h)
           \/ UpdateCall(h) \/ DeleteCall(h)
    PROVE  TypeOK' /\ Grows /\ Only(h) /\ Holding(h)'
<1> USE IdentityConfig DEF IInv
<1>0. /\ NoRequest = [pc |-> "idle", inv |-> None, acc |-> None, email |-> None,
                      isActive |-> "same"]
      /\ NoRequest \in Request
  BY DEF NoRequest, Request, Pc
<1>1. CASE \E e \in Emails : InviteRead(h, e)
  <2>1. PICK e \in Emails : InviteRead(h, e) BY <1>1
  <2> DEFINE r == [NoRequest EXCEPT !.pc = "inviting", !.email = e]
  <2>2. r \in Request BY <1>0, <2>1 DEF Request, Pc, InviteRead
  <2>3. req' = [req EXCEPT ![h] = r] BY <2>1 DEF InviteRead
  <2> HIDE DEF r
  <2>4. req' \in [Handlers -> Request] /\ Only(h) /\ req'[h] = r BY <2>2, <2>3, Recorded
  <2>5. TypeOK' /\ Grows BY <2>1, <2>4, ReadOnly DEF InviteRead
  <2>6. Holding(h)' BY <1>0, <2>1, <2>4 DEF r, Holding, InviteRead, TypeOK
  <2> QED BY <2>4, <2>5, <2>6
<1>2. CASE \E i \in Invites, pc \in {"resend", "cancel"} : SettleRead(h, i, pc)
  <2>1. PICK i \in Invites, pc \in {"resend", "cancel"} : SettleRead(h, i, pc) BY <1>2
  <2> DEFINE r == [NoRequest EXCEPT !.pc = pc, !.inv = i]
  <2>2. r \in Request BY <1>0, <2>1 DEF Request, Pc, SettleRead
  <2>3. req' = [req EXCEPT ![h] = r] BY <2>1 DEF SettleRead
  <2> HIDE DEF r
  <2>4. req' \in [Handlers -> Request] /\ Only(h) /\ req'[h] = r BY <2>2, <2>3, Recorded
  <2>5. TypeOK' /\ Grows BY <2>1, <2>4, ReadOnly DEF SettleRead
  <2>6. Holding(h)' BY <1>0, <2>1, <2>4 DEF r, Holding, SettleRead, TypeOK, UserInvite
  <2> QED BY <2>4, <2>5, <2>6
<1>3. CASE \E i \in Invites : ExpireRead(h, i)
  <2>1. PICK i \in Invites : ExpireRead(h, i) BY <1>3
  <2> DEFINE r == [NoRequest EXCEPT !.pc = "expire", !.inv = i]
  <2>2. r \in Request BY <1>0, <2>1 DEF Request, Pc, ExpireRead
  <2>3. req' = [req EXCEPT ![h] = r] BY <2>1 DEF ExpireRead
  <2> HIDE DEF r
  <2>4. req' \in [Handlers -> Request] /\ Only(h) /\ req'[h] = r BY <2>2, <2>3, Recorded
  <2>5. TypeOK' /\ Grows BY <2>1, <2>4, ReadOnly DEF ExpireRead
  <2>6. Holding(h)' BY <1>0, <2>1, <2>4 DEF r, Holding, ExpireRead, TypeOK
  <2> QED BY <2>4, <2>5, <2>6
<1>4. CASE \E i \in Invites : AcceptRead(h, i)
  <2>1. PICK i \in Invites : AcceptRead(h, i) BY <1>4
  <2> DEFINE r == [NoRequest EXCEPT !.pc = "accept", !.inv = i, !.email = invite[i].email]
  <2>2. r \in Request BY <1>0, <2>1 DEF Request, Pc, AcceptRead, TypeOK, UserInvite
  <2>3. req' = [req EXCEPT ![h] = r] BY <2>1 DEF AcceptRead
  <2> HIDE DEF r
  <2>4. req' \in [Handlers -> Request] /\ Only(h) /\ req'[h] = r BY <2>2, <2>3, Recorded
  <2>5. TypeOK' /\ Grows BY <2>1, <2>4, ReadOnly DEF AcceptRead
  <2>6. Holding(h)' BY <1>0, <2>1, <2>4 DEF r, Holding, AcceptRead, TypeOK, UserInvite
  <2> QED BY <2>4, <2>5, <2>6
<1>5. CASE \E e \in Emails : PlatformRead(h, e)
  <2>1. PICK e \in Emails : PlatformRead(h, e) BY <1>5
  <2> DEFINE r == [NoRequest EXCEPT !.pc = "create", !.email = e]
  <2>2. r \in Request BY <1>0, <2>1 DEF Request, Pc, PlatformRead
  <2>3. req' = [req EXCEPT ![h] = r] BY <2>1 DEF PlatformRead
  <2> HIDE DEF r
  <2>4. req' \in [Handlers -> Request] /\ Only(h) /\ req'[h] = r BY <2>2, <2>3, Recorded
  <2>5. TypeOK' /\ Grows BY <2>1, <2>4, ReadOnly DEF PlatformRead
  <2>6. Holding(h)' BY <1>0, <2>1, <2>4 DEF r, Holding, PlatformRead, TypeOK
  <2> QED BY <2>4, <2>5, <2>6
<1>6. CASE \E a \in Accounts : LoginToken(h, a)
  <2>1. PICK a \in Accounts : LoginToken(h, a) BY <1>6
  <2> DEFINE r == [NoRequest EXCEPT !.pc = "token", !.acc = a]
  <2>2. r \in Request BY <1>0, <2>1 DEF Request, Pc, LoginToken
  <2>3. req' = [req EXCEPT ![h] = r] BY <2>1 DEF LoginToken
  <2> HIDE DEF r
  <2>4. req' \in [Handlers -> Request] /\ Only(h) /\ req'[h] = r BY <2>2, <2>3, Recorded
  <2>5. TypeOK' /\ Grows BY <2>1, <2>4, ReadOnly DEF LoginToken
  <2>6. Holding(h)' BY <1>0, <2>1, <2>4 DEF r, Holding, LoginToken, TypeOK
  <2> QED BY <2>4, <2>5, <2>6
<1>7. CASE \E a \in Accounts, isActive \in {"active", "inactive", "same"} : UpdateRead(h, a, isActive)
  <2>1. PICK a \in Accounts, isActive \in {"active", "inactive", "same"} : UpdateRead(h, a, isActive) BY <1>7
  <2> DEFINE r == [NoRequest EXCEPT !.pc = IF isActive = "same" THEN "db" ELSE "provider",
                              !.acc = a, !.isActive = isActive]
  <2>2. r \in Request BY <1>0, <2>1 DEF Request, Pc, UpdateRead
  <2>3. req' = [req EXCEPT ![h] = r] BY <2>1 DEF UpdateRead
  <2> HIDE DEF r
  <2>4. req' \in [Handlers -> Request] /\ Only(h) /\ req'[h] = r BY <2>2, <2>3, Recorded
  <2>5. TypeOK' /\ Grows BY <2>1, <2>4, ReadOnly DEF UpdateRead
  <2>6. Holding(h)' BY <1>0, <2>1, <2>4 DEF r, Holding, UpdateRead, TypeOK, RowsHaveHadAccounts, Present
  <2> QED BY <2>4, <2>5, <2>6
<1>8. CASE \E a \in Accounts : DeleteRead(h, a)
  <2>1. PICK a \in Accounts : DeleteRead(h, a) BY <1>8
  <2> DEFINE r == [NoRequest EXCEPT !.pc = "remove", !.acc = a]
  <2>2. r \in Request BY <1>0, <2>1 DEF Request, Pc, DeleteRead
  <2>3. req' = [req EXCEPT ![h] = r] BY <2>1 DEF DeleteRead
  <2> HIDE DEF r
  <2>4. req' \in [Handlers -> Request] /\ Only(h) /\ req'[h] = r BY <2>2, <2>3, Recorded
  <2>5. TypeOK' /\ Grows BY <2>1, <2>4, ReadOnly DEF DeleteRead
  <2>6. Holding(h)' BY <1>0, <2>1, <2>4 DEF r, Holding, DeleteRead, TypeOK, RowsHaveHadAccounts, Present
  <2> QED BY <2>4, <2>5, <2>6
<1> QED BY <1>1, <1>2, <1>3, <1>4, <1>5, <1>6, <1>7, <1>8
  DEF InviteCall, AcceptCall, PlatformCall, LoginCall, UpdateCall, DeleteCall

\* What a handler's next write leaves: types, growth, what it goes on holding.
LEMMA StepHolds ==
    ASSUME IInv, NEW h \in Handlers, Proceeds(h) \/ Die(h)
    PROVE  TypeOK' /\ Grows /\ Only(h) /\ Holding(h)'
<1> USE IdentityConfig DEF IInv
<1>0. Holding(h) BY DEF HandlersHold
<1>1. CASE InviteCreate(h)
  <2>1. req' \in [Handlers -> Request] /\ Only(h) /\ Holding(h)' BY <1>1, Ended DEF InviteCreate
  <2>2. TypeOK' /\ Grows
    BY <1>1, <2>1 DEF InviteCreate, NewInvite, TypeOK, UserInvite, InviteStatus, Request, Grows
  <2> QED BY <2>1, <2>2
<1>2. CASE InviteRefused(h)
  BY <1>2, Ended, ReadOnly DEF InviteRefused
<1>3. CASE Resend(h)
  <2>1. req' \in [Handlers -> Request] /\ Only(h) /\ Holding(h)' BY <1>3, Ended DEF Resend
  <2> DEFINE i == req[h].inv
             v == [status |-> invite[i].status, email |-> invite[i].email, live |-> TRUE]
  <2>2. i \in Invites /\ invite[i].status # "none" BY <1>0, <1>3 DEF Resend, Holding, At
  <2>3. [invite[i] EXCEPT !.live = TRUE] = v
    <3>1. invite[i] \in UserInvite BY <2>2 DEF TypeOK
    <3> QED BY <3>1, DateWritten
  <2>4. invite' = [invite EXCEPT ![i] = v] BY <1>3, <2>3 DEF Resend
  <2>5. invite[i].status \in InviteStatus
    <3>1. invite[i] \in UserInvite BY <2>2 DEF TypeOK
    <3> QED BY <2>2, <3>1 DEF UserInvite
  <2>6. UNCHANGED <<account, user>> BY <1>3 DEF Resend
  <2> QED BY <2>1, <2>2, <2>4, <2>5, <2>6, InviteWritten
<1>4. CASE Cancel(h)
  <2>1. req' \in [Handlers -> Request] /\ Only(h) /\ Holding(h)' BY <1>4, Ended DEF Cancel, Settle
  <2> DEFINE i == req[h].inv
  <2>2. i \in Invites /\ invite[i].status # "none" BY <1>0, <1>4 DEF Cancel, Settle, Holding, At
  <2>3. CASE invite' = invite
    BY <1>4, <2>1, <2>3, ReadOnly DEF Cancel, Settle
  <2>4. CASE invite' # invite
    <3>1. invite' = [invite EXCEPT ![i] = [status |-> "CANCELLED", email |-> invite[i].email, live |-> invite[i].live]]
      BY <1>4, <2>2, <2>4 DEF Cancel, Settle, TypeOK, UserInvite
    <3>2. "CANCELLED" \in InviteStatus /\ invite[i].live \in BOOLEAN /\ UNCHANGED <<account, user>>
      BY <1>4, <2>2 DEF Cancel, Settle, InviteStatus, TypeOK, UserInvite
    <3> QED BY <2>1, <2>2, <3>1, <3>2, InviteWritten
  <2> QED BY <2>1, <2>3, <2>4
<1>5. CASE MarkExpired(h)
  <2>1. req' \in [Handlers -> Request] /\ Only(h) /\ Holding(h)' BY <1>5, Ended DEF MarkExpired, Settle
  <2> DEFINE i == req[h].inv
  <2>2. i \in Invites /\ invite[i].status # "none" BY <1>0, <1>5 DEF MarkExpired, Settle, Holding, At
  <2>3. CASE invite' = invite
    BY <1>5, <2>1, <2>3, ReadOnly DEF MarkExpired, Settle
  <2>4. CASE invite' # invite
    <3>1. invite' = [invite EXCEPT ![i] = [status |-> "EXPIRED", email |-> invite[i].email, live |-> invite[i].live]]
      BY <1>5, <2>2, <2>4 DEF MarkExpired, Settle, TypeOK, UserInvite
    <3>2. "EXPIRED" \in InviteStatus /\ invite[i].live \in BOOLEAN /\ UNCHANGED <<account, user>>
      BY <1>5, <2>2 DEF MarkExpired, Settle, InviteStatus, TypeOK, UserInvite
    <3> QED BY <2>1, <2>2, <3>1, <3>2, InviteWritten
  <2> QED BY <2>1, <2>3, <2>4
<1>6. CASE AcceptAccount(h)
  <2>1. PICK a \in Accounts : /\ NewAccount(a, req[h].email, TRUE)
                               /\ req' = [req EXCEPT ![h].pc = "row", ![h].acc = a]
    BY <1>6 DEF AcceptAccount
  <2> DEFINE r == [req[h] EXCEPT !.pc = "row", !.acc = a]
  <2>2. r \in Request /\ req' = [req EXCEPT ![h] = r] BY <2>1 DEF TypeOK, Request, Pc
  <2> HIDE DEF r
  <2>3. req' \in [Handlers -> Request] /\ Only(h) /\ req'[h] = r BY <2>2, Recorded
  <2>4. req[h].email \in Emails \cup {None} BY DEF TypeOK, Request
  <2>5. UNCHANGED <<invite, user>> BY <1>6 DEF AcceptAccount
  <2>6. /\ TypeOK' /\ Grows
        /\ account'[a] = [state |-> "enabled", email |-> req[h].email, ours |-> TRUE]
    BY <2>1, <2>3, <2>4, <2>5, AccountMade
  <2>7. r.pc = "row" /\ r.acc = a /\ r.inv = req[h].inv BY DEF r, TypeOK, Request
  <2>8. a \in Accounts /\ req[h].pc = "accept" BY <1>6, <2>1 DEF AcceptAccount, At
  <2>9. Holding(h)' BY <1>0, <2>3, <2>5, <2>6, <2>7, <2>8 DEF Holding
  <2> QED BY <2>3, <2>6, <2>9
<1>7. CASE AccountRefused(h)
  BY <1>7, Ended, ReadOnly DEF AccountRefused
<1>8. CASE AcceptRow(h)
  <2>1. /\ req' \in [Handlers -> Request] /\ Only(h)
        /\ req'[h] = [req[h] EXCEPT !.pc = "mark"]
    BY <1>8, Gone DEF AcceptRow, Pc
  <2>2. TypeOK' /\ Grows BY <1>0, <1>8, <2>1 DEF AcceptRow, NewRow, TypeOK, User, Account, Grows, Holding, At
  <2>8. Holding(h)' BY <1>0, <1>8, <2>1, <2>2 DEF Holding, AcceptRow, At, TypeOK, Request, Grows, NewRow, User
  <2> QED BY <2>1, <2>2, <2>8
<1>9. CASE AcceptRefused(h)
  <2>1. /\ req' \in [Handlers -> Request] /\ Only(h)
        /\ req'[h] = [req[h] EXCEPT !.pc = "undo"]
    BY <1>9, Gone DEF AcceptRefused, Pc
  <2>2. TypeOK' /\ Grows BY <1>9, <2>1, ReadOnly DEF AcceptRefused
  <2>8. Holding(h)' BY <1>0, <1>9, <2>1, <2>2 DEF Holding, AcceptRefused, At, TypeOK, Request, Grows, NewRow, User
  <2> QED BY <2>1, <2>2, <2>8
<1>10. CASE AcceptMark(h)
  <2>1. req' \in [Handlers -> Request] /\ Only(h) /\ Holding(h)' BY <1>10, Ended DEF AcceptMark
  <2> DEFINE i == req[h].inv
             v == [status |-> "ACCEPTED", email |-> invite[i].email, live |-> invite[i].live]
  <2>2. i \in Invites /\ invite[i].status # "none" BY <1>0, <1>10 DEF AcceptMark, Holding, At
  <2>3. [invite[i] EXCEPT !.status = "ACCEPTED"] = v
    BY <2>2 DEF TypeOK, UserInvite
  <2>4. invite' = [invite EXCEPT ![i] = v] BY <1>10, <2>3 DEF AcceptMark
  <2>5. "ACCEPTED" \in InviteStatus /\ invite[i].live \in BOOLEAN
    BY <2>2 DEF TypeOK, UserInvite, InviteStatus
  <2>6. UNCHANGED <<account, user>> BY <1>10 DEF AcceptMark
  <2> QED BY <2>1, <2>2, <2>4, <2>5, <2>6, InviteWritten
<1>11. CASE AcceptMarkFails(h)
  <2>1. /\ req' \in [Handlers -> Request] /\ Only(h)
        /\ req'[h] = [req[h] EXCEPT !.pc = "undo"]
    BY <1>11, Gone DEF AcceptMarkFails, Pc
  <2>2. TypeOK' /\ Grows BY <1>11, <2>1, ReadOnly DEF AcceptMarkFails
  <2>8. Holding(h)' BY <1>0, <1>11, <2>1, <2>2 DEF Holding, AcceptMarkFails, At, TypeOK, Request, Grows, NewRow, User
  <2> QED BY <2>1, <2>2, <2>8
<1>12. CASE Undo(h)
  <2>1. req' \in [Handlers -> Request] /\ Only(h) /\ Holding(h)' BY <1>12, Ended DEF Undo
  <2> DEFINE a == req[h].acc
                 state == "deleted"
  <2>2. a \in Accounts /\ account[a].state # "absent" BY <1>0, <1>12 DEF Undo, Holding, At
  <2>3. /\ state \in {"enabled", "disabled", "deleted"}
        /\ account[a].state = "deleted" => state = "deleted"
        /\ account' = [account EXCEPT ![a].state = state]
        /\ UNCHANGED <<invite, user>>
    BY <1>12 DEF Undo, Open
  <2> HIDE DEF state
  <2>4. TypeOK' /\ Grows BY <2>1, <2>2, <2>3, AccountWritten
  <2> QED BY <2>1, <2>4
<1>13. CASE PlatformAccount(h)
  <2>1. PICK a \in Accounts : /\ NewAccount(a, req[h].email, TRUE)
                               /\ req' = [req EXCEPT ![h].pc = "platformRow", ![h].acc = a]
    BY <1>13 DEF PlatformAccount
  <2> DEFINE r == [req[h] EXCEPT !.pc = "platformRow", !.acc = a]
  <2>2. r \in Request /\ req' = [req EXCEPT ![h] = r] BY <2>1 DEF TypeOK, Request, Pc
  <2> HIDE DEF r
  <2>3. req' \in [Handlers -> Request] /\ Only(h) /\ req'[h] = r BY <2>2, Recorded
  <2>4. req[h].email \in Emails \cup {None} BY DEF TypeOK, Request
  <2>5. UNCHANGED <<invite, user>> BY <1>13 DEF PlatformAccount
  <2>6. /\ TypeOK' /\ Grows
        /\ account'[a] = [state |-> "enabled", email |-> req[h].email, ours |-> TRUE]
    BY <2>1, <2>3, <2>4, <2>5, AccountMade
  <2>7. r.pc = "platformRow" /\ r.acc = a /\ r.inv = req[h].inv BY DEF r, TypeOK, Request
  <2>8. a \in Accounts /\ req[h].pc = "create" BY <1>13, <2>1 DEF PlatformAccount, At
  <2>9. Holding(h)' BY <1>0, <2>3, <2>5, <2>6, <2>7, <2>8 DEF Holding
  <2> QED BY <2>3, <2>6, <2>9
<1>14. CASE PlatformRow(h)
  <2>1. req' \in [Handlers -> Request] /\ Only(h) /\ Holding(h)' BY <1>14, Ended DEF PlatformRow
  <2>2. TypeOK' /\ Grows BY <1>0, <1>14, <2>1 DEF PlatformRow, NewRow, TypeOK, User, Account, Grows, Holding, At
  <2> QED BY <2>1, <2>2
<1>15. CASE PlatformRefused(h)
  <2>1. /\ req' \in [Handlers -> Request] /\ Only(h)
        /\ req'[h] = [req[h] EXCEPT !.pc = "undo"]
    BY <1>15, Gone DEF PlatformRefused, Pc
  <2>2. TypeOK' /\ Grows BY <1>15, <2>1, ReadOnly DEF PlatformRefused
  <2>8. Holding(h)' BY <1>0, <1>15, <2>1, <2>2 DEF Holding, PlatformRefused, At, TypeOK, Request, Grows, NewRow, User
  <2> QED BY <2>1, <2>2, <2>8
<1>16. CASE LoginRead(h)
  <2>1. PICK i \in Invites : /\ invite[i].status = "PENDING"
                              /\ invite[i].email = account[req[h].acc].email
                              /\ req' = [req EXCEPT ![h].pc = "login", ![h].inv = i]
    BY <1>16 DEF LoginRead
  <2> DEFINE r == [req[h] EXCEPT !.pc = "login", !.inv = i]
  <2>2. r \in Request /\ req' = [req EXCEPT ![h] = r] BY <2>1 DEF TypeOK, Request, Pc
  <2> HIDE DEF r
  <2>3. req' \in [Handlers -> Request] /\ Only(h) /\ req'[h] = r BY <2>2, Recorded
  <2>4. TypeOK' /\ Grows BY <1>16, <2>3, ReadOnly DEF LoginRead
  <2>5. Holding(h)' BY <1>0, <1>16, <2>1, <2>3 DEF r, Holding, LoginRead, At, TypeOK, Request
  <2> QED BY <2>3, <2>4, <2>5
<1>17. CASE LoginKnown(h)
  BY <1>17, Ended, ReadOnly DEF LoginKnown
<1>18. CASE LoginCommit(h)
  <2>1. req' \in [Handlers -> Request] /\ Only(h) /\ Holding(h)' BY <1>18, Ended DEF LoginCommit
  <2>2. req[h].inv \in Invites /\ req[h].acc \in Accounts BY <1>0, <1>18 DEF LoginCommit, Holding, At
  <2>3. invite[req[h].inv].status # "none" BY <1>0, <1>18 DEF LoginCommit, Holding, At
  <2>4. invite' \in [Invites -> UserInvite]
    BY <1>18, <2>2 DEF LoginCommit, TypeOK, UserInvite, InviteStatus
  <2>5. user' \in [Accounts -> User]
    BY <1>18, <2>2 DEF LoginCommit, NewRow, TypeOK, User, Account
  <2>6. TypeOK' BY <1>18, <2>1, <2>4, <2>5 DEF LoginCommit, TypeOK
  <2>7. Grows
    BY <1>18, <2>2, <2>3 DEF LoginCommit, NewRow, TypeOK, UserInvite, User, Grows
  <2> QED BY <2>1, <2>6, <2>7
<1>19. CASE LoginRefused(h)
  BY <1>19, Ended, ReadOnly DEF LoginRefused
<1>20. CASE UpdateProvider(h)
  <2>1. /\ req' \in [Handlers -> Request] /\ Only(h)
        /\ req'[h] = [req[h] EXCEPT !.pc = "db"]
    BY <1>20, Gone DEF UpdateProvider, Pc
  <2> DEFINE a == req[h].acc
                 state == IF req[h].isActive = "active" THEN "enabled" ELSE "disabled"
  <2>2. a \in Accounts /\ account[a].state # "absent" BY <1>0, <1>20 DEF UpdateProvider, Holding, At
  <2>3. /\ state \in {"enabled", "disabled", "deleted"}
        /\ account[a].state = "deleted" => state = "deleted"
        /\ account' = [account EXCEPT ![a].state = state]
        /\ UNCHANGED <<invite, user>>
    BY <1>20 DEF UpdateProvider, Open
  <2> HIDE DEF state
  <2>4. TypeOK' /\ Grows BY <2>1, <2>2, <2>3, AccountWritten
  <2>5. Holding(h)' BY <1>0, <1>20, <2>1, <2>2, <2>3 DEF state, Holding, UpdateProvider, At, TypeOK, Request, Account
  <2> QED BY <2>1, <2>4, <2>5
<1>21. CASE \E e \in Emails : UpdateDb(h, e)
  <2>1. req' \in [Handlers -> Request] /\ Only(h) /\ Holding(h)' BY <1>21, Ended DEF UpdateDb
  <2>2. TypeOK' /\ Grows BY <1>0, <1>21, <2>1 DEF UpdateDb, TypeOK, User, Request, Grows, Holding, At, Present
  <2> QED BY <2>1, <2>2
<1>22. CASE UpdateRefused(h)
  BY <1>22, Ended, ReadOnly DEF UpdateRefused
<1>23. CASE DeleteAccount(h)
  <2>1. /\ req' \in [Handlers -> Request] /\ Only(h)
        /\ req'[h] = [req[h] EXCEPT !.pc = "drop"]
    BY <1>23, Gone DEF DeleteAccount, Pc
  <2> DEFINE a == req[h].acc
                 state == "deleted"
  <2>2. a \in Accounts /\ account[a].state # "absent" BY <1>0, <1>23 DEF DeleteAccount, Holding, At
  <2>3. /\ state \in {"enabled", "disabled", "deleted"}
        /\ account[a].state = "deleted" => state = "deleted"
        /\ account' = [account EXCEPT ![a].state = state]
        /\ UNCHANGED <<invite, user>>
    BY <1>23 DEF DeleteAccount, Open
  <2> HIDE DEF state
  <2>4. TypeOK' /\ Grows BY <2>1, <2>2, <2>3, AccountWritten
  <2>5. Holding(h)' BY <1>0, <1>23, <2>1, <2>2, <2>3 DEF state, Holding, DeleteAccount, At, TypeOK, Request, Account
  <2> QED BY <2>1, <2>4, <2>5
<1>24. CASE DeleteRow(h)
  <2>1. req' \in [Handlers -> Request] /\ Only(h) /\ Holding(h)' BY <1>24, Ended DEF DeleteRow
  <2>2. TypeOK' /\ Grows BY <1>0, <1>24, <2>1 DEF DeleteRow, TypeOK, User, Grows, Holding, At, Present
  <2> QED BY <2>1, <2>2
<1>25. CASE DeleteRefused(h)
  BY <1>25, Ended, ReadOnly DEF DeleteRefused
<1>26. CASE Die(h)
  <2> DEFINE r == [NoRequest EXCEPT !.pc = "dead", !.acc = req[h].acc]
  <2>1. CASE req' = [req EXCEPT ![h] = r]
    <3>1. r \in Request /\ r.pc = "dead" BY DEF NoRequest, TypeOK, Request, Pc
    <3> HIDE DEF r
    <3>2. req' \in [Handlers -> Request] /\ Only(h) /\ req'[h] = r BY <2>1, <3>1, Recorded
    <3> QED BY <1>26, <3>1, <3>2, ReadOnly DEF Die, Holding
  <2>2. CASE Ends(h)
    BY <1>26, <2>2, Ended, ReadOnly DEF Die
  <2> QED BY <1>26, <2>1, <2>2 DEF Die
<1> QED BY <1>1, <1>2, <1>3, <1>4, <1>5, <1>6, <1>7, <1>8, <1>9, <1>10, <1>11, <1>12, <1>13, <1>14, <1>15, <1>16, <1>17, <1>18, <1>19, <1>20, <1>21, <1>22, <1>23, <1>24, <1>25, <1>26
  DEF InviteStep, AcceptStep, PlatformStep, LoginStep, UserStep, Proceeds

\* What happens around the handlers: types, growth, and nobody's record changes.
LEMMA AroundHolds ==
    ASSUME IInv, Around
    PROVE  TypeOK' /\ Grows /\ UNCHANGED req
<1> USE DEF IInv
<1>1. CASE \E e \in Emails : PlatformInvite(e)
  BY <1>1 DEF PlatformInvite, NewInvite, TypeOK, UserInvite, InviteStatus, Grows
<1>2. CASE \E a \in Accounts, e \in Emails : SignUp(a, e)
  BY <1>2, AccountMade DEF SignUp, TypeOK
<1>3. CASE \E i \in Invites : TimePasses(i)
  <2>1. PICK i \in Invites : TimePasses(i) BY <1>3
  <2> DEFINE v == [status |-> invite[i].status, email |-> invite[i].email, live |-> FALSE]
  <2>2. invite[i] \in UserInvite BY DEF TypeOK
  <2>3. [invite[i] EXCEPT !.live = FALSE] = v BY <2>2, DateWritten
  <2>4. invite' = [invite EXCEPT ![i] = v] BY <2>1, <2>3 DEF TimePasses
  <2>5. invite[i].status \in InviteStatus /\ invite[i].status # "none"
    BY <2>1 DEF TimePasses, InviteStatus
  <2>6. UNCHANGED <<account, user, req>> BY <2>1 DEF TimePasses
  <2>7. req' \in [Handlers -> Request] BY <2>6 DEF TypeOK
  <2> QED BY <2>4, <2>5, <2>6, <2>7, InviteWritten
<1>4. CASE CleanupExpired
  BY <1>4 DEF CleanupExpired, Overdue, TypeOK, UserInvite, InviteStatus, Grows
<1> QED BY <1>1, <1>2, <1>3, <1>4 DEF Around

\* Nothing is forgotten: everybody goes on holding what they hold.
LEMMA StepKeepsHolding ==
    ASSUME IInv, Next
    PROVE  TypeOK' /\ Grows /\ HandlersHold'
<1> USE DEF IInv
<1>1. CASE \E h \in Handlers :
             \/ InviteCall(h) \/ AcceptCall(h) \/ PlatformCall(h) \/ LoginCall(h)
             \/ UpdateCall(h) \/ DeleteCall(h) \/ Proceeds(h) \/ Die(h)
  <2>1. PICK h \in Handlers :
             \/ InviteCall(h) \/ AcceptCall(h) \/ PlatformCall(h) \/ LoginCall(h)
             \/ UpdateCall(h) \/ DeleteCall(h) \/ Proceeds(h) \/ Die(h)
    BY <1>1
  <2>2. TypeOK' /\ Grows /\ Only(h) /\ Holding(h)' BY <2>1, CallHolds, StepHolds
  <2>3. ASSUME NEW g \in Handlers PROVE Holding(g)'
    <3>1. CASE g = h BY <2>2, <3>1
    <3>2. CASE g # h BY <2>2, <3>2, OthersHold DEF HandlersHold, Only
    <3> QED BY <3>1, <3>2
  <2> QED BY <2>2, <2>3 DEF HandlersHold
<1>2. CASE Around
  <2>1. TypeOK' /\ Grows /\ UNCHANGED req BY <1>2, AroundHolds
  <2>2. ASSUME NEW g \in Handlers PROVE Holding(g)' BY <2>1, OthersHold DEF HandlersHold
  <2> QED BY <2>1, <2>2 DEF HandlersHold
<1> QED BY <1>1, <1>2 DEF Next

-----------------------------------------------------------------------------
\* The only writers of rows.
LEMMA WhoWritesRows ==
    ASSUME Next
    PROVE  \/ UNCHANGED user
           \/ \E h \in Handlers : \/ AcceptRow(h) \/ PlatformRow(h) \/ LoginCommit(h)
                                  \/ DeleteRow(h) \/ \E e \in Emails : UpdateDb(h, e)
BY DEF Next, Around, InviteCall, AcceptCall, PlatformCall, LoginCall, UpdateCall, DeleteCall,
       Proceeds, InviteStep, AcceptStep, PlatformStep, LoginStep, UserStep,
       InviteRead, SettleRead, ExpireRead, AcceptRead, PlatformRead, LoginToken, UpdateRead,
       DeleteRead, InviteCreate, InviteRefused, Resend, Cancel, MarkExpired, Settle,
       AcceptAccount, AccountRefused, AcceptRefused, AcceptMark, AcceptMarkFails, Undo,
       PlatformAccount, PlatformRefused, LoginRead, LoginKnown, LoginRefused, UpdateProvider,
       UpdateRefused, DeleteAccount, DeleteRefused, Die, PlatformInvite, SignUp, TimePasses,
       CleanupExpired

\* The only writers of accounts.
LEMMA WhoWritesAccounts ==
    ASSUME Next
    PROVE  \/ UNCHANGED account
           \/ \E h \in Handlers : \/ AcceptAccount(h) \/ PlatformAccount(h) \/ Undo(h)
                                  \/ UpdateProvider(h) \/ DeleteAccount(h)
           \/ \E a \in Accounts, e \in Emails : SignUp(a, e)
BY DEF Next, Around, InviteCall, AcceptCall, PlatformCall, LoginCall, UpdateCall, DeleteCall,
       Proceeds, InviteStep, AcceptStep, PlatformStep, LoginStep, UserStep,
       InviteRead, SettleRead, ExpireRead, AcceptRead, PlatformRead, LoginToken, UpdateRead,
       DeleteRead, InviteCreate, InviteRefused, Resend, Cancel, MarkExpired, Settle,
       AccountRefused, AcceptRow, AcceptRefused, AcceptMark, AcceptMarkFails,
       PlatformRow, PlatformRefused, LoginRead, LoginKnown, LoginCommit, LoginRefused,
       UpdateDb, UpdateRefused, DeleteRow, DeleteRefused, Die, PlatformInvite, TimePasses,
       CleanupExpired

\* The only writers of invites.
LEMMA WhoWritesInvites ==
    ASSUME Next
    PROVE  \/ UNCHANGED invite
           \/ \E h \in Handlers : \/ InviteCreate(h) \/ Resend(h) \/ Cancel(h) \/ MarkExpired(h)
                                  \/ AcceptMark(h) \/ LoginCommit(h)
           \/ \E e \in Emails : PlatformInvite(e)
           \/ \E i \in Invites : TimePasses(i)
           \/ CleanupExpired
BY DEF Next, Around, InviteCall, AcceptCall, PlatformCall, LoginCall, UpdateCall, DeleteCall,
       Proceeds, InviteStep, AcceptStep, PlatformStep, LoginStep, UserStep,
       InviteRead, SettleRead, ExpireRead, AcceptRead, PlatformRead, LoginToken, UpdateRead,
       DeleteRead, InviteRefused, AcceptAccount, AccountRefused, AcceptRow, AcceptRefused,
       AcceptMarkFails, Undo, PlatformAccount, PlatformRow, PlatformRefused, LoginRead,
       LoginKnown, LoginRefused, UpdateProvider, UpdateDb, UpdateRefused, DeleteAccount,
       DeleteRow, DeleteRefused, Die, SignUp

\* A row that appears has an account behind it, and one that disappears has
\* lost it.
LEMMA RowChanges ==
    ASSUME IInv, Next, NEW a \in Accounts
    PROVE  /\ user'[a].state # "absent" => user[a].state # "absent" \/ account[a].state # "absent"
           /\ user'[a].state = "deleted" => user[a].state = "deleted" \/ account[a].state = "deleted"
<1> USE DEF IInv, TypeOK, HandlersHold, Holding, At
<1>1. CASE UNCHANGED user BY <1>1
<1>2. CASE \E h \in Handlers : AcceptRow(h) BY <1>2 DEF AcceptRow, NewRow, User
<1>3. CASE \E h \in Handlers : PlatformRow(h) BY <1>3 DEF PlatformRow, NewRow, User
<1>4. CASE \E h \in Handlers : LoginCommit(h) BY <1>4 DEF LoginCommit, NewRow, User
<1>5. CASE \E h \in Handlers : DeleteRow(h) BY <1>5 DEF DeleteRow, Present, User
<1>6. CASE \E h \in Handlers, e \in Emails : UpdateDb(h, e)
  BY <1>6 DEF UpdateDb, Present, User, Request
<1> QED BY <1>1, <1>2, <1>3, <1>4, <1>5, <1>6, WhoWritesRows

\* An invite becomes accepted under a row that is there.
LEMMA Accepts ==
    ASSUME IInv, Next, Grows, NEW i \in Invites,
           invite'[i].status = "ACCEPTED", invite[i].status # "ACCEPTED"
    PROVE  /\ invite[i].status # "none"
           /\ \E a \in Accounts : /\ user'[a].state # "absent"
                                  /\ account[a].state # "absent"
                                  /\ account[a].email = invite[i].email
<1> USE DEF IInv, TypeOK, HandlersHold, Holding, At
<1>1. CASE \E h \in Handlers : AcceptMark(h)
  BY <1>1 DEF AcceptMark, RowsHaveHadAccounts, Grows
<1>2. CASE \E h \in Handlers : LoginCommit(h)
  BY <1>2 DEF LoginCommit, NewRow, User
<1>3. CASE \E h \in Handlers : InviteCreate(h) BY <1>3 DEF InviteCreate, NewInvite
<1>4. CASE \E h \in Handlers : Resend(h) BY <1>4 DEF Resend, UserInvite
<1>5. CASE \E h \in Handlers : Cancel(h) \/ MarkExpired(h)
  BY <1>5 DEF Cancel, MarkExpired, Settle, UserInvite
<1>6. CASE \E e \in Emails : PlatformInvite(e) BY <1>6 DEF PlatformInvite, NewInvite
<1>7. CASE \E j \in Invites : TimePasses(j) BY <1>7 DEF TimePasses, UserInvite
<1>8. CASE CleanupExpired BY <1>8 DEF CleanupExpired, UserInvite
<1>9. CASE UNCHANGED invite BY <1>9
<1> QED BY <1>1, <1>2, <1>3, <1>4, <1>5, <1>6, <1>7, <1>8, <1>9, WhoWritesInvites

\* An account comes to need attention only in the hands of its maker.
LEMMA NewlyUnattended ==
    ASSUME IInv, Next, TypeOK', HandlersHold', NEW a \in Accounts,
           Unattended(a)', ~ Unattended(a)
    PROVE  \E h \in Handlers : Responsible(h, a)'
<1> USE DEF IInv, Unattended, Open
<1>1. CASE \E h \in Handlers : AcceptAccount(h)
  BY <1>1 DEF AcceptAccount, NewAccount, Responsible, TypeOK, Account, Request, RowsHaveHadAccounts
<1>2. CASE \E h \in Handlers : PlatformAccount(h)
  BY <1>2 DEF PlatformAccount, NewAccount, Responsible, TypeOK, Account, Request, RowsHaveHadAccounts
<1>3. CASE \E b \in Accounts, e \in Emails : SignUp(b, e)
  BY <1>3 DEF SignUp, NewAccount, TypeOK, Account
<1>4. CASE \E h \in Handlers : Undo(h) BY <1>4 DEF Undo, TypeOK, Account, HandlersHold, Holding, At
<1>5. CASE \E h \in Handlers : UpdateProvider(h)
  BY <1>5 DEF UpdateProvider, TypeOK, Account, HandlersHold, Holding, At
<1>6. CASE \E h \in Handlers : DeleteAccount(h)
  BY <1>6 DEF DeleteAccount, TypeOK, Account, HandlersHold, Holding, At
<1>7. CASE UNCHANGED account
  <2>1. user'[a].state \in {"absent", "deleted"} /\ user[a].state \notin {"absent", "deleted"}
        /\ account[a].state # "deleted"
    BY <1>7
  <2>2. Grows BY StepKeepsHolding
  <2> QED BY <2>1, <2>2, RowChanges DEF Grows
<1> QED BY <1>1, <1>2, <1>3, <1>4, <1>5, <1>6, <1>7, WhoWritesAccounts

\* Whoever had an account to give a row or to undo still has, has died, or has
\* done it.
LEMMA StaysResponsible ==
    ASSUME IInv, Next, NEW a \in Accounts, NEW g \in Handlers,
           Responsible(g, a) \/ DiedWith(g, a)
    PROVE  Responsible(g, a)' \/ DiedWith(g, a)' \/ ~ Unattended(a)'
<1> USE DEF IInv, Responsible, DiedWith
<1>1. CASE req'[g] = req[g] BY <1>1
<1>2. CASE AcceptRow(g) \/ PlatformRow(g)
  BY <1>2 DEF AcceptRow, PlatformRow, NewRow, Unattended, TypeOK, User
<1>3. CASE AcceptRefused(g) \/ PlatformRefused(g)
  BY <1>3 DEF AcceptRefused, PlatformRefused, GoesTo, TypeOK, Request
<1>4. CASE Undo(g) BY <1>4 DEF Undo, Unattended, Open, TypeOK, Account
<1>5. CASE Die(g) BY <1>5 DEF Die, NoRequest, TypeOK
<1>6. \/ req'[g] = req[g] \/ AcceptRow(g) \/ PlatformRow(g) \/ AcceptRefused(g)
      \/ PlatformRefused(g) \/ Undo(g) \/ Die(g)
  <2>1. CASE Around BY <2>1, AroundHolds
  <2>2. ASSUME NEW h \in Handlers,
               \/ InviteCall(h) \/ AcceptCall(h) \/ PlatformCall(h) \/ LoginCall(h)
               \/ UpdateCall(h) \/ DeleteCall(h) \/ Proceeds(h) \/ Die(h)
        PROVE  \/ req'[g] = req[g] \/ AcceptRow(g) \/ PlatformRow(g) \/ AcceptRefused(g)
               \/ PlatformRefused(g) \/ Undo(g) \/ Die(g)
    <3>1. CASE h # g
      <4>1. Only(h) BY <2>2, CallHolds, StepHolds
      <4> QED BY <3>1, <4>1 DEF Only
    <3>2. CASE h = g
      BY <2>2, <3>2
      DEF InviteCall, AcceptCall, PlatformCall, LoginCall, UpdateCall, DeleteCall, Proceeds,
          InviteStep, AcceptStep, PlatformStep, LoginStep, UserStep, At,
          InviteRead, SettleRead, ExpireRead, AcceptRead, PlatformRead, LoginToken, UpdateRead,
          DeleteRead, InviteCreate, InviteRefused, Resend, Cancel, MarkExpired, Settle,
          AcceptAccount, AccountRefused, AcceptMark, AcceptMarkFails, PlatformAccount, LoginRead,
          LoginKnown, LoginCommit, LoginRefused, UpdateProvider, UpdateDb, UpdateRefused,
          DeleteAccount, DeleteRow, DeleteRefused
    <3> QED BY <3>1, <3>2
  <2> QED BY <2>1, <2>2 DEF Next
<1> QED BY <1>1, <1>2, <1>3, <1>4, <1>5, <1>6

-----------------------------------------------------------------------------
LEMMA InitHolds == ASSUME Init PROVE IInv
BY IdentityConfig
DEF Init, IInv, TypeOK, UserInvite, InviteStatus, Account, User, Request, Pc, NoRequest,
    HandlersHold, Holding, RowsHaveHadAccounts, RemovedUsersHaveNoAccount,
    AcceptedInvitesMadeUsers, NoAccountUnattended, Unattended, Open

LEMMA NextHolds == ASSUME IInv, Next PROVE IInv'
<1>1. TypeOK' /\ Grows /\ HandlersHold' BY StepKeepsHolding
<1>2. RowsHaveHadAccounts' BY <1>1, RowChanges DEF IInv, RowsHaveHadAccounts, Grows
<1>3. RemovedUsersHaveNoAccount'
  BY <1>1, RowChanges DEF IInv, RemovedUsersHaveNoAccount, Grows
<1>4. AcceptedInvitesMadeUsers'
  <2> SUFFICES ASSUME NEW i \in Invites, invite'[i].status = "ACCEPTED"
               PROVE  \E a \in Accounts : user'[a].state # "absent"
                                          /\ account'[a].email = invite'[i].email
    BY DEF AcceptedInvitesMadeUsers
  <2>1. CASE invite[i].status = "ACCEPTED"
    <3>1. PICK a \in Accounts : user[a].state # "absent" /\ account[a].email = invite[i].email
      BY <2>1 DEF IInv, AcceptedInvitesMadeUsers
    <3>2. account[a].state # "absent" BY <3>1 DEF IInv, RowsHaveHadAccounts
    <3> QED BY <1>1, <2>1, <3>1, <3>2 DEF Grows
  <2>2. CASE invite[i].status # "ACCEPTED"
    BY <1>1, <2>2, Accepts DEF Grows
  <2> QED BY <2>1, <2>2
<1>5. NoAccountUnattended'
  <2> SUFFICES ASSUME NEW a \in Accounts, Unattended(a)'
               PROVE  \E h \in Handlers : Responsible(h, a)' \/ DiedWith(h, a)'
    BY DEF NoAccountUnattended
  <2>1. CASE ~ Unattended(a) BY <1>1, <2>1, NewlyUnattended
  <2>2. CASE Unattended(a)
    <3>1. PICK g \in Handlers : Responsible(g, a) \/ DiedWith(g, a)
      BY <2>2 DEF IInv, NoAccountUnattended
    <3> QED BY <3>1, StaysResponsible
  <2> QED BY <2>1, <2>2
<1> QED BY <1>1, <1>2, <1>3, <1>4, <1>5 DEF IInv

LEMMA StutterHolds == ASSUME IInv, UNCHANGED vars PROVE IInv'
BY DEF vars, IInv, TypeOK, HandlersHold, Holding, RowsHaveHadAccounts,
       RemovedUsersHaveNoAccount, AcceptedInvitesMadeUsers, NoAccountUnattended, Unattended,
       Open, Responsible, DiedWith

LEMMA AlwaysHolds == Spec => []IInv
<1>1. Init => IInv BY InitHolds
<1>2. IInv /\ [Next]_vars => IInv' BY NextHolds, StutterHolds
<1> QED BY <1>1, <1>2, PTL DEF Spec

\* Every reachable state is well typed.
THEOREM TypeCorrect == Spec => []TypeOK
<1>1. IInv => TypeOK BY DEF IInv
<1> QED BY <1>1, AlwaysHolds, PTL

\* No account this server made is left without a row and without a handler
\* that makes the row, undoes the account, or died with that to do.
THEOREM AccountsAreAttended == Spec => []NoAccountUnattended
<1>1. IInv => NoAccountUnattended BY DEF IInv
<1> QED BY <1>1, AlwaysHolds, PTL

\* A removed user has no account, wherever its removal was interrupted.
THEOREM RemovedStayOut == Spec => []RemovedUsersHaveNoAccount
<1>1. IInv => RemovedUsersHaveNoAccount BY DEF IInv
<1> QED BY <1>1, AlwaysHolds, PTL

\* Only an invite that made somebody a user is accepted.
THEOREM AcceptanceMakesUsers == Spec => []AcceptedInvitesMadeUsers
<1>1. IInv => AcceptedInvitesMadeUsers BY DEF IInv
<1> QED BY <1>1, AlwaysHolds, PTL
=============================================================================
