------------------------------ MODULE Identity ------------------------------
(***************************************************************************)
(* Invites, user rows and Firebase accounts.                               *)
(*                                                                         *)
(* A person exists twice: as an account of the identity provider and as a  *)
(* row of User, which names the account by its uid.  No transaction spans  *)
(* both; handlers change one and then the other, and some of them undo the *)
(* first change when the second fails.  A row is named by its firebaseUid, *)
(* which is unique; uids are never reused.  One tenant; the caller of a    *)
(* handler is somebody else, allowed to call it.                           *)
(***************************************************************************)
CONSTANTS
    Handlers,   \* requests that may be in flight
    Invites,    \* ids of UserInvite
    Accounts,   \* uids of the provider
    Emails,
    MayFail,    \* whether a handler may die at any await
    None

VARIABLES
    invite,     \* UserInvite: status, address, whether expiresAt is to come
    account,    \* the provider's accounts, and whether this server made them
    user,       \* User: the row that names each uid
    req         \* handlers in flight

vars == <<invite, account, user, req>>

ASSUME IdentityConfig ==
    /\ MayFail \in BOOLEAN
    /\ None \notin Invites \cup Accounts \cup Emails

InviteStatus == {"PENDING", "ACCEPTED", "EXPIRED", "CANCELLED"}

Pc == {"idle", "dead",
       "inviting", "resend", "cancel", "expire",
       "accept", "row", "mark", "undo",
       "create", "platformRow",
       "token", "login",
       "provider", "db", "remove", "drop"}

UserInvite == [status : InviteStatus \cup {"none"}, email : Emails \cup {None}, live : BOOLEAN]
Account == [state : {"absent", "enabled", "disabled", "deleted"},
            email : Emails \cup {None}, ours : BOOLEAN]
User == [state : {"absent", "active", "inactive", "deleted"}, email : Emails \cup {None}]
Request == [pc : Pc, inv : Invites \cup {None}, acc : Accounts \cup {None},
            email : Emails \cup {None}, isActive : {"active", "inactive", "same"}]

TypeOK ==
    /\ invite \in [Invites -> UserInvite]
    /\ account \in [Accounts -> Account]
    /\ user \in [Accounts -> User]
    /\ req \in [Handlers -> Request]

NoRequest == [pc |-> "idle", inv |-> None, acc |-> None, email |-> None, isActive |-> "same"]

Init ==
    /\ invite = [i \in Invites |-> [status |-> "none", email |-> None, live |-> FALSE]]
    /\ account = [a \in Accounts |-> [state |-> "absent", email |-> None, ours |-> FALSE]]
    /\ user = [a \in Accounts |-> [state |-> "absent", email |-> None]]
    /\ req = [h \in Handlers |-> NoRequest]

Present(a) == user[a].state \in {"active", "inactive"}
Open(a) == account[a].state \in {"enabled", "disabled"}

At(h, pc) == req[h].pc = pc
Ends(h) == req' = [req EXCEPT ![h] = NoRequest]
GoesTo(h, pc) == req' = [req EXCEPT ![h].pc = pc]

-----------------------------------------------------------------------------
(* The database's and the provider's own rules. *)

\* @@unique([email, tenantId, status])
MayBecome(i, status) ==
    \A j \in Invites \ {i} : ~ (invite[j].email = invite[i].email /\ invite[j].status = status)

EmailHasUser(e) == \E a \in Accounts : Present(a) /\ user[a].email = e
EmailHasAccount(e) == \E a \in Accounts : Open(a) /\ account[a].email = e

NewInvite(i, e) ==
    /\ invite[i].status = "none"
    /\ \A j \in Invites : ~ (invite[j].email = e /\ invite[j].status = "PENDING")
    /\ invite' = [invite EXCEPT ![i] = [status |-> "PENDING", email |-> e, live |-> TRUE]]

NewAccount(a, e, ours) ==
    /\ account[a].state = "absent"
    /\ ~ EmailHasAccount(e)
    /\ account' = [account EXCEPT ![a] = [state |-> "enabled", email |-> e, ours |-> ours]]

MayHaveRow(a) == ~ Present(a) /\ ~ EmailHasUser(account[a].email)
NewRow(a) ==
    /\ MayHaveRow(a)
    /\ user' = [user EXCEPT ![a] = [state |-> "active", email |-> account[a].email]]

-----------------------------------------------------------------------------
(* Invites: made, sent again, cancelled, expired. *)

InviteRead(h, e) ==
    /\ At(h, "idle")
    /\ ~ EmailHasUser(e)
    /\ \A i \in Invites : ~ (invite[i].email = e /\ invite[i].status = "PENDING")
    /\ req' = [req EXCEPT ![h] = [NoRequest EXCEPT !.pc = "inviting", !.email = e]]
    /\ UNCHANGED <<invite, account, user>>

InviteCreate(h) ==
    /\ At(h, "inviting")
    /\ \E i \in Invites : NewInvite(i, req[h].email)
    /\ Ends(h)
    /\ UNCHANGED <<account, user>>

InviteRefused(h) ==
    /\ At(h, "inviting")
    /\ \E i \in Invites : invite[i].email = req[h].email /\ invite[i].status = "PENDING"
    /\ Ends(h)
    /\ UNCHANGED <<invite, account, user>>

\* The platform's endpoint asks nothing of the address.
PlatformInvite(e) ==
    /\ \E i \in Invites : NewInvite(i, e)
    /\ UNCHANGED <<account, user, req>>

\* resendInvite and cancelInvite read the invite and write it by id.
SettleRead(h, i, pc) ==
    /\ At(h, "idle")
    /\ invite[i].status = "PENDING"
    /\ pc \in {"resend", "cancel"}
    /\ req' = [req EXCEPT ![h] = [NoRequest EXCEPT !.pc = pc, !.inv = i]]
    /\ UNCHANGED <<invite, account, user>>

Resend(h) ==
    /\ At(h, "resend")
    /\ invite' = [invite EXCEPT ![req[h].inv].live = TRUE]
    /\ Ends(h)
    /\ UNCHANGED <<account, user>>

\* getInviteDetails and acceptInvite, once expiresAt has passed.
ExpireRead(h, i) ==
    /\ At(h, "idle")
    /\ invite[i].status = "PENDING"
    /\ ~ invite[i].live
    /\ req' = [req EXCEPT ![h] = [NoRequest EXCEPT !.pc = "expire", !.inv = i]]
    /\ UNCHANGED <<invite, account, user>>

\* A second settled invite of an address is refused by the unique key.
Settle(h, pc, status) ==
    /\ At(h, pc)
    /\ IF MayBecome(req[h].inv, status)
         THEN invite' = [invite EXCEPT ![req[h].inv].status = status]
         ELSE UNCHANGED invite
    /\ Ends(h)
    /\ UNCHANGED <<account, user>>

Cancel(h) == Settle(h, "cancel", "CANCELLED")
MarkExpired(h) == Settle(h, "expire", "EXPIRED")

Overdue(i) == invite[i].status = "PENDING" /\ ~ invite[i].live

\* One statement: it fails as a whole if it fails for one invite.
CleanupExpired ==
    /\ \E i \in Invites : Overdue(i)
    /\ \A i \in Invites : Overdue(i) => MayBecome(i, "EXPIRED")
    /\ invite' = [i \in Invites |-> IF Overdue(i) THEN [invite[i] EXCEPT !.status = "EXPIRED"]
                                                  ELSE invite[i]]
    /\ UNCHANGED <<account, user, req>>

\* Nothing asks for the date of an invite that is settled.
TimePasses(i) ==
    /\ invite[i].status = "PENDING"
    /\ invite[i].live
    /\ invite' = [invite EXCEPT ![i].live = FALSE]
    /\ UNCHANGED <<account, user, req>>

-----------------------------------------------------------------------------
(* acceptInvite: an account, then a row, then the invite. *)

AcceptRead(h, i) ==
    /\ At(h, "idle")
    /\ invite[i].status = "PENDING"
    /\ invite[i].live
    /\ req' = [req EXCEPT ![h] = [NoRequest EXCEPT !.pc = "accept", !.inv = i,
                                                   !.email = invite[i].email]]
    /\ UNCHANGED <<invite, account, user>>

AcceptAccount(h) ==
    /\ At(h, "accept")
    /\ \E a \in Accounts :
         /\ NewAccount(a, req[h].email, TRUE)
         /\ req' = [req EXCEPT ![h].pc = "row", ![h].acc = a]
    /\ UNCHANGED <<invite, user>>

\* The provider knows the address already: nothing to undo.
AccountRefused(h) ==
    /\ At(h, "accept") \/ At(h, "create")
    /\ EmailHasAccount(req[h].email)
    /\ Ends(h)
    /\ UNCHANGED <<invite, account, user>>

\* A driver's row is made by createFromInvite in a transaction of its own; it
\* too is there once this step is over, whatever becomes of the outer one.
AcceptRow(h) ==
    /\ At(h, "row")
    /\ NewRow(req[h].acc)
    /\ GoesTo(h, "mark")
    /\ UNCHANGED <<invite, account>>

\* Mutant: a refused row is taken for a made one.
AcceptRefusedUnseen(h) ==
    /\ At(h, "row")
    /\ GoesTo(h, "mark")
    /\ UNCHANGED <<invite, account, user>>

\* A driver without CPF or CNH, a CPF or an address already there, an error.
AcceptRefused(h) ==
    /\ At(h, "row")
    /\ GoesTo(h, "undo")
    /\ UNCHANGED <<invite, account, user>>

AcceptMark(h) ==
    /\ At(h, "mark")
    /\ MayBecome(req[h].inv, "ACCEPTED")
    /\ invite' = [invite EXCEPT ![req[h].inv].status = "ACCEPTED"]
    /\ Ends(h)
    /\ UNCHANGED <<account, user>>

AcceptMarkFails(h) ==
    /\ At(h, "mark")
    /\ MayFail \/ ~ MayBecome(req[h].inv, "ACCEPTED")
    /\ GoesTo(h, "undo")
    /\ UNCHANGED <<invite, account, user>>

\* Mutant: the handler ends without undoing.
UndoForgotten(h) ==
    /\ At(h, "undo")
    /\ Ends(h)
    /\ UNCHANGED <<invite, account, user>>

Undo(h) ==
    /\ At(h, "undo")
    /\ account' = [account EXCEPT ![req[h].acc].state = "deleted"]
    /\ Ends(h)
    /\ UNCHANGED <<invite, user>>

-----------------------------------------------------------------------------
(* createPlatformUser: an account, then a row. *)

PlatformRead(h, e) ==
    /\ At(h, "idle")
    /\ ~ EmailHasUser(e)
    /\ req' = [req EXCEPT ![h] = [NoRequest EXCEPT !.pc = "create", !.email = e]]
    /\ UNCHANGED <<invite, account, user>>

PlatformAccount(h) ==
    /\ At(h, "create")
    /\ \E a \in Accounts :
         /\ NewAccount(a, req[h].email, TRUE)
         /\ req' = [req EXCEPT ![h].pc = "platformRow", ![h].acc = a]
    /\ UNCHANGED <<invite, user>>

PlatformRow(h) ==
    /\ At(h, "platformRow")
    /\ NewRow(req[h].acc)
    /\ Ends(h)
    /\ UNCHANGED <<invite, account>>

\* Mutant: the error is reported and the account forgotten.
PlatformRefusedOnly(h) ==
    /\ At(h, "platformRow")
    /\ MayFail \/ ~ MayHaveRow(req[h].acc)
    /\ Ends(h)
    /\ UNCHANGED <<invite, account, user>>

PlatformRefused(h) ==
    /\ At(h, "platformRow")
    /\ MayFail \/ ~ MayHaveRow(req[h].acc)
    /\ GoesTo(h, "undo")
    /\ UNCHANGED <<invite, account, user>>

-----------------------------------------------------------------------------
(* First login: a token of an account without a row. *)

\* Somebody registers with the provider directly.
SignUp(a, e) ==
    /\ NewAccount(a, e, FALSE)
    /\ UNCHANGED <<invite, user, req>>

\* verifyIdToken with checkRevoked: no disabled and no deleted account.
LoginToken(h, a) ==
    /\ At(h, "idle")
    /\ account[a].state = "enabled"
    /\ req' = [req EXCEPT ![h] = [NoRequest EXCEPT !.pc = "token", !.acc = a]]
    /\ UNCHANGED <<invite, account, user>>

\* Any pending invite of the address will do, expired or not.
LoginRead(h) ==
    /\ At(h, "token")
    /\ ~ Present(req[h].acc)
    /\ \E i \in Invites :
         /\ invite[i].status = "PENDING"
         /\ invite[i].email = account[req[h].acc].email
         /\ req' = [req EXCEPT ![h].pc = "login", ![h].inv = i]
    /\ UNCHANGED <<invite, account, user>>

\* Somebody who has a row already, or no invite.
LoginKnown(h) ==
    /\ At(h, "token")
    /\ \/ Present(req[h].acc)
       \/ \A i \in Invites : ~ (/\ invite[i].status = "PENDING"
                                /\ invite[i].email = account[req[h].acc].email)
    /\ Ends(h)
    /\ UNCHANGED <<invite, account, user>>

LoginCommit(h) ==
    /\ At(h, "login")
    /\ NewRow(req[h].acc)
    /\ MayBecome(req[h].inv, "ACCEPTED")
    /\ invite' = [invite EXCEPT ![req[h].inv].status = "ACCEPTED"]
    /\ Ends(h)
    /\ UNCHANGED account

LoginRefused(h) ==
    /\ At(h, "login")
    /\ ~ MayHaveRow(req[h].acc) \/ ~ MayBecome(req[h].inv, "ACCEPTED")
    /\ Ends(h)
    /\ UNCHANGED <<invite, account, user>>

-----------------------------------------------------------------------------
(* Edition and removal of a user: the provider first, then the row. *)

UpdateRead(h, a, isActive) ==
    /\ At(h, "idle")
    /\ Present(a)
    /\ req' = [req EXCEPT ![h] = [NoRequest EXCEPT
                                    !.pc = IF isActive = "same" THEN "db" ELSE "provider",
                                    !.acc = a, !.isActive = isActive]]
    /\ UNCHANGED <<invite, account, user>>

UpdateProvider(h) ==
    /\ At(h, "provider")
    /\ Open(req[h].acc)
    /\ account' = [account EXCEPT ![req[h].acc].state =
                     IF req[h].isActive = "active" THEN "enabled" ELSE "disabled"]
    /\ GoesTo(h, "db")
    /\ UNCHANGED <<invite, user>>

\* Mutant: what was not sent is written too.
UpdateDbAsSent(h, e) ==
    LET a == req[h].acc
    IN  /\ At(h, "db")
        /\ Present(a)
        /\ \A b \in Accounts \ {a} : ~ (Present(b) /\ user[b].email = e)
        /\ user' = [user EXCEPT ![a] = [state |-> req[h].isActive, email |-> e]]
        /\ Ends(h)
        /\ UNCHANGED <<invite, account>>

\* The platform's endpoint may change the address, and does so in the row alone.
UpdateDb(h, e) ==
    LET a == req[h].acc
        s == IF req[h].isActive = "same" THEN user[a].state ELSE req[h].isActive
    IN  /\ At(h, "db")
        /\ Present(a)
        /\ \A b \in Accounts \ {a} : ~ (Present(b) /\ user[b].email = e)
        /\ user' = [user EXCEPT ![a] = [state |-> s, email |-> e]]
        /\ Ends(h)
        /\ UNCHANGED <<invite, account>>

\* The account is gone; a refused role, an address already there, no row.
UpdateRefused(h) ==
    /\ \/ At(h, "provider") /\ ~ Open(req[h].acc)
       \/ At(h, "db")
    /\ Ends(h)
    /\ UNCHANGED <<invite, account, user>>

\* Mutant: the row is removed first, and the account only after it.
DeleteReadForRow(h, a) ==
    /\ At(h, "idle")
    /\ Present(a)
    /\ req' = [req EXCEPT ![h] = [NoRequest EXCEPT !.pc = "drop", !.acc = a]]
    /\ UNCHANGED <<invite, account, user>>

DeleteRead(h, a) ==
    /\ At(h, "idle")
    /\ Present(a)
    /\ req' = [req EXCEPT ![h] = [NoRequest EXCEPT !.pc = "remove", !.acc = a]]
    /\ UNCHANGED <<invite, account, user>>

DeleteAccount(h) ==
    /\ At(h, "remove")
    /\ Open(req[h].acc)
    /\ account' = [account EXCEPT ![req[h].acc].state = "deleted"]
    /\ GoesTo(h, "drop")
    /\ UNCHANGED <<invite, user>>

DeleteRow(h) ==
    /\ At(h, "drop")
    /\ Present(req[h].acc)
    /\ user' = [user EXCEPT ![req[h].acc].state = "deleted"]
    /\ Ends(h)
    /\ UNCHANGED <<invite, account>>

\* No account; or invites, approvals and notifications that name the row.
DeleteRefused(h) ==
    /\ (At(h, "remove") /\ ~ Open(req[h].acc)) \/ At(h, "drop")
    /\ Ends(h)
    /\ UNCHANGED <<invite, account, user>>

-----------------------------------------------------------------------------
\* An error nothing catches, or a crash.  A handler that had an account to give
\* a row or to undo stays, as a trace of it.
Die(h) ==
    /\ MayFail
    /\ ~ At(h, "idle")
    /\ IF req[h].pc \in {"row", "platformRow", "undo", "dead"}
         THEN req' = [req EXCEPT ![h] = [NoRequest EXCEPT !.pc = "dead", !.acc = req[h].acc]]
         ELSE Ends(h)
    /\ UNCHANGED <<invite, account, user>>

InviteCall(h) ==
    \/ \E e \in Emails : InviteRead(h, e)
    \/ \E i \in Invites, pc \in {"resend", "cancel"} : SettleRead(h, i, pc)
    \/ \E i \in Invites : ExpireRead(h, i)

AcceptCall(h) == \E i \in Invites : AcceptRead(h, i)
PlatformCall(h) == \E e \in Emails : PlatformRead(h, e)
LoginCall(h) == \E a \in Accounts : LoginToken(h, a)

UpdateCall(h) ==
    \E a \in Accounts, isActive \in {"active", "inactive", "same"} : UpdateRead(h, a, isActive)
DeleteCall(h) == \E a \in Accounts : DeleteRead(h, a)

InviteStep(h) == InviteCreate(h) \/ InviteRefused(h) \/ Resend(h) \/ Cancel(h) \/ MarkExpired(h)
AcceptStep(h) ==
    \/ AcceptAccount(h) \/ AccountRefused(h) \/ AcceptRow(h) \/ AcceptRefused(h)
    \/ AcceptMark(h) \/ AcceptMarkFails(h) \/ Undo(h)
PlatformStep(h) == PlatformAccount(h) \/ PlatformRow(h) \/ PlatformRefused(h)
LoginStep(h) == LoginRead(h) \/ LoginKnown(h) \/ LoginCommit(h) \/ LoginRefused(h)
UserStep(h) ==
    \/ UpdateProvider(h) \/ (\E e \in Emails : UpdateDb(h, e)) \/ UpdateRefused(h)
    \/ DeleteAccount(h) \/ DeleteRow(h) \/ DeleteRefused(h)

Proceeds(h) == InviteStep(h) \/ AcceptStep(h) \/ PlatformStep(h) \/ LoginStep(h) \/ UserStep(h)

Around ==
    \/ \E e \in Emails : PlatformInvite(e)
    \/ \E a \in Accounts, e \in Emails : SignUp(a, e)
    \/ \E i \in Invites : TimePasses(i)
    \/ CleanupExpired

Next ==
    \/ \E h \in Handlers :
         \/ InviteCall(h) \/ AcceptCall(h) \/ PlatformCall(h) \/ LoginCall(h)
         \/ UpdateCall(h) \/ DeleteCall(h)
         \/ Proceeds(h) \/ Die(h)
    \/ Around

Spec == Init /\ [][Next]_vars

\* Node resumes a handler whose call has answered.  Nobody has to call, and
\* time need not pass.
FairSpec == Spec /\ \A h \in Handlers : WF_vars(Proceeds(h))

-----------------------------------------------------------------------------
\* An account this server made is never left without a row unless a handler is
\* about to make the row or to undo the account, or died with that to do: what
\* the compensations of acceptInvite and createPlatformUser are for, under
\* logins, removals and other acceptances of the same address in between.
Unattended(a) == account[a].ours /\ Open(a) /\ user[a].state \in {"absent", "deleted"}

Responsible(h, a) == req[h].acc = a /\ req[h].pc \in {"row", "platformRow", "undo"}
DiedWith(h, a) == req[h].acc = a /\ req[h].pc = "dead"

NoAccountUnattended ==
    \A a \in Accounts :
        Unattended(a) => \E h \in Handlers : Responsible(h, a) \/ DiedWith(h, a)

\* Such an account gets its row or is deleted, unless that handler dies.
UnattendedIsResolved ==
    \A a \in Accounts :
        Unattended(a) ~> (~ Unattended(a) \/ \E h \in Handlers : DiedWith(h, a))

\* A removed user has no account left, wherever its removal was interrupted and
\* whoever was editing the user meanwhile: removal asks the provider first.
RemovedUsersHaveNoAccount ==
    \A a \in Accounts : user[a].state = "deleted" => account[a].state = "deleted"

\* An invite is accepted only if it made somebody a user, in either way of
\* accepting it and however cancellations and expiries are interleaved.
AcceptedInvitesMadeUsers ==
    \A i \in Invites : invite[i].status = "ACCEPTED" =>
        \E a \in Accounts :
            user[a].state # "absent" /\ account[a].email = invite[i].email

\* An acceptance that is being undone leaves no user: whoever could not accept
\* an invite can be invited again.
UndoneAcceptanceMadeNoUser == \A h \in Handlers : At(h, "undo") => ~ Present(req[h].acc)
=============================================================================
