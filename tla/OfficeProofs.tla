---------------------------- MODULE OfficeProofs ----------------------------
(***************************************************************************)
(* For any number of users, sockets, files, orders and requests: what the  *)
(* smaller modules about a tenant's records promise.                       *)
(***************************************************************************)
EXTENDS OfficeSystem, TLAPS

-----------------------------------------------------------------------------
(* Notifications: the gateway's map and the sockets. *)

\* Whose a socket is has been read of its token before the token is verified.
Named == \A s \in Sockets :
           socket[s].pc \in {"verifying", "left", "open", "ghost"} => socket[s].uid \in N!Uids

SocketsInv == N!TypeOK /\ Named /\ N!SocketsAreFound

LEMMA SocketsInit == N!Init => SocketsInv
<1> SUFFICES ASSUME N!Init
             PROVE  SocketsInv
  OBVIOUS
<1>1. N!TypeOK
  BY DEF N!Init, N!TypeOK, N!Socket, N!Note
<1>2. Named /\ N!SocketsAreFound
  BY DEF N!Init, Named, N!SocketsAreFound, N!Is
<1>3. QED
  BY <1>1, <1>2 DEF SocketsInv

\* A socket that turns into something else, and a set of the map that follows.
LEMMA SocketTurns ==
    ASSUME SocketsInv, NEW s \in Sockets, NEW row \in N!Socket,
           socket' = [socket EXCEPT ![s] = row]
    PROVE  /\ socket' \in [Sockets -> N!Socket] /\ socket'[s] = row
           /\ \A r \in Sockets \ {s} : socket'[r] = socket[r]
BY DEF SocketsInv, N!TypeOK

\* Nothing happens to a socket that is not, or will not be, in the map.
LEMMA OutsideTheMap ==
    ASSUME SocketsInv, NEW s \in Sockets, NEW row \in N!Socket,
           socket' = [socket EXCEPT ![s] = row], connectedUsers' = connectedUsers,
           note' = note, received' = received,
           socket[s].pc \notin {"open", "ghost"}, row.pc \notin {"open", "ghost"},
           row.pc \in {"verifying", "left"} => row.uid \in N!Uids
    PROVE  SocketsInv'
<1>1. /\ socket' \in [Sockets -> N!Socket] /\ socket'[s] = row
      /\ \A r \in Sockets \ {s} : socket'[r] = socket[r]
  BY SocketTurns
<1>2. N!TypeOK'
  BY <1>1 DEF SocketsInv, N!TypeOK
<1>3. Named' /\ N!SocketsAreFound'
  BY <1>1 DEF SocketsInv, Named, N!SocketsAreFound, N!Is, N!TypeOK
<1>4. QED
  BY <1>2, <1>3 DEF SocketsInv

LEMMA SocketStepKeeps ==
    ASSUME SocketsInv, NEW s \in Sockets, N!SocketStep(s)
    PROVE  SocketsInv'
<1>1. socket[s] \in N!Socket
  BY DEF SocketsInv, N!TypeOK
<1>2. ASSUME NEW u \in Users, N!Connect(s, u)
      PROVE  SocketsInv'
  <2>1. [pc |-> "verifying", uid |-> Uid[u]] \in N!Socket /\ Uid[u] \in N!Uids
    BY DEF N!Socket, N!Uids
  <2>2. QED
    BY <1>2, <2>1, OutsideTheMap DEF N!Connect, N!Is
<1>3. CASE N!ConnectRefused(s) \/ N!VerifyFails(s) \/ N!LeavesEarly(s)
  <2>1. \A pc \in {"left", "closed"} :
          /\ [socket[s] EXCEPT !.pc = pc] \in N!Socket
          /\ [socket[s] EXCEPT !.pc = pc].pc = pc
          /\ [socket[s] EXCEPT !.pc = pc].uid = socket[s].uid
    BY <1>1 DEF N!Socket
  <2>2. PICK pc \in {"left", "closed"} :
          /\ socket' = [socket EXCEPT ![s] = [socket[s] EXCEPT !.pc = pc]]
          /\ socket[s].pc \notin {"open", "ghost"}
          /\ pc = "left" => socket[s].uid \in N!Uids
          /\ UNCHANGED <<connectedUsers, note, received>>
    BY <1>3 DEF N!ConnectRefused, N!VerifyFails, N!LeavesEarly, N!Is, SocketsInv, Named
  <2>3. QED
    BY <2>1, <2>2, OutsideTheMap
<1>4. CASE N!Verified(s)
  <2>1. PICK row \in N!Socket :
          /\ row.pc \in {"open", "ghost"} /\ row.uid = socket[s].uid
          /\ socket' = [socket EXCEPT ![s] = row]
    <3>1. \A pc \in {"open", "ghost"} :
            /\ [socket[s] EXCEPT !.pc = pc] \in N!Socket
            /\ [socket[s] EXCEPT !.pc = pc].pc = pc
            /\ [socket[s] EXCEPT !.pc = pc].uid = socket[s].uid
      BY <1>1 DEF N!Socket
    <3>2. PICK pc \in {"open", "ghost"} : socket' = [socket EXCEPT ![s] = [socket[s] EXCEPT !.pc = pc]]
      BY <1>4 DEF N!Verified
    <3>3. QED
      BY <3>1, <3>2
  <2>2. /\ socket' \in [Sockets -> N!Socket] /\ socket'[s] = row
        /\ \A r \in Sockets \ {s} : socket'[r] = socket[r]
    BY <2>1, SocketTurns
  <2>3. PICK k \in N!Uids : k = socket[s].uid
    BY <1>4 DEF N!Verified, N!Is, SocketsInv, Named
  <2>4. /\ connectedUsers' \in [N!Uids \cup Users -> SUBSET Sockets]
        /\ connectedUsers'[k] = connectedUsers[k] \cup {s}
        /\ \A j \in (N!Uids \cup Users) \ {k} : connectedUsers'[j] = connectedUsers[j]
    BY <1>4, <2>3 DEF N!Verified, SocketsInv, N!TypeOK
  <2>5. N!TypeOK' /\ Named'
    BY <1>4, <2>1, <2>2, <2>3, <2>4 DEF N!Verified, SocketsInv, N!TypeOK, Named
  <2>6. N!SocketsAreFound'
    BY <1>4, <2>1, <2>2, <2>3, <2>4 DEF N!Verified, SocketsInv, N!SocketsAreFound, N!Is, N!TypeOK
  <2>7. QED
    BY <2>5, <2>6 DEF SocketsInv
<1>5. CASE N!Disconnects(s)
  <2>1. PICK k \in N!Uids : k = socket[s].uid
    BY <1>5 DEF N!Disconnects, N!Is, SocketsInv, Named
  <2>2. [socket[s] EXCEPT !.pc = "closed"] \in N!Socket
    BY <1>1 DEF N!Socket
  <2>3. /\ socket' \in [Sockets -> N!Socket] /\ socket'[s].pc = "closed"
        /\ \A r \in Sockets \ {s} : socket'[r] = socket[r]
    BY <1>1, <1>5, <2>2 DEF N!Disconnects, SocketsInv, N!TypeOK, N!Socket
  <2>4. /\ connectedUsers' \in [N!Uids \cup Users -> SUBSET Sockets]
        /\ connectedUsers'[k] = connectedUsers[k] \ {s}
        /\ \A j \in (N!Uids \cup Users) \ {k} : connectedUsers'[j] = connectedUsers[j]
    BY <1>5, <2>1 DEF N!Disconnects, SocketsInv, N!TypeOK
  <2>5. N!TypeOK' /\ Named'
    BY <1>5, <2>3, <2>4 DEF N!Disconnects, SocketsInv, N!TypeOK, Named
  <2>6. N!SocketsAreFound'
    <3>1. /\ N!TypeOK /\ N!SocketsAreFound
          /\ DOMAIN connectedUsers = N!Uids \cup Users
          /\ DOMAIN connectedUsers' = N!Uids \cup Users
      BY <2>4 DEF SocketsInv, N!TypeOK
    <3>2. \A r \in Sockets : socket'[r].pc = "open" => r # s
      BY <2>3
    <3>3. ASSUME NEW r \in Sockets, socket'[r].pc = "open"
          PROVE  r \in connectedUsers'[socket'[r].uid]
      <4>1. r # s /\ socket'[r] = socket[r]
        BY <2>3, <3>2, <3>3
      <4>2. socket[r].uid \in N!Uids /\ r \in connectedUsers[socket[r].uid]
        BY <3>1, <3>3, <4>1 DEF SocketsInv, Named, N!SocketsAreFound, N!Is
      <4>3. QED
        BY <2>4, <4>1, <4>2
    <3>4. \A j \in N!Uids \cup Users : s \notin connectedUsers'[j]
      BY <2>1, <2>4, <3>1 DEF N!SocketsAreFound
    <3>5. QED
      BY <2>3, <2>4, <3>1, <3>3, <3>4 DEF N!SocketsAreFound, N!Is, N!TypeOK
  <2>7. QED
    BY <2>5, <2>6 DEF SocketsInv
<1>6. QED
  BY <1>2, <1>3, <1>4, <1>5 DEF N!SocketStep

\* A step that stores, loses or reads notices, and drops from a user's set at
\* most the sockets that are not open.
LEMMA NoticeStepKeeps ==
    ASSUME SocketsInv, socket' = socket, N!TypeOK',
           \A k \in DOMAIN connectedUsers :
             connectedUsers'[k] \subseteq connectedUsers[k],
           \A k \in DOMAIN connectedUsers : \A s \in connectedUsers[k] :
             socket[s].pc = "open" => s \in connectedUsers'[k]
    PROVE  SocketsInv'
<1>1. DOMAIN connectedUsers' = DOMAIN connectedUsers
  BY DEF SocketsInv, N!TypeOK
<1>2. Named'
  BY DEF SocketsInv, Named
<1>3. \A s \in Sockets : N!Is(s, "open") => socket[s].uid \in DOMAIN connectedUsers
  BY DEF SocketsInv, Named, N!Is, N!TypeOK
<1>4. N!SocketsAreFound'
  BY <1>1, <1>3 DEF SocketsInv, N!SocketsAreFound, N!Is
<1>5. QED
  BY <1>2, <1>4 DEF SocketsInv

LEMMA NoteStepKeeps ==
    ASSUME SocketsInv, NEW n \in Notes, N!NoteStep(n)
    PROVE  SocketsInv'
<1>1. note[n] \in N!Note /\ N!TypeOK
  BY DEF SocketsInv, N!TypeOK
<1>2. CASE \E u \in Users : N!Notify(n, u) \/ N!MarkAsRead(n, u)
  <2>1. N!TypeOK'
    BY <1>1, <1>2 DEF N!Notify, N!MarkAsRead, N!TypeOK, N!Note
  <2>2. QED
    BY <1>2, <2>1, NoticeStepKeeps DEF N!Notify, N!MarkAsRead
<1>3. CASE N!SendFails(n)
  <2>1. N!TypeOK'
    BY <1>1, <1>3 DEF N!SendFails, N!TypeOK, N!Note
  <2>2. QED
    BY <1>3, <2>1, NoticeStepKeeps DEF N!SendFails
<1>4. CASE N!Send(n)
  <2>1. [note[n] EXCEPT !.status = "unread"] \in N!Note
    BY <1>1 DEF N!Note
  <2>2. \A k : N!Reached(k) \subseteq connectedUsers[k]
    BY DEF N!Reached
  <2>3. connectedUsers' \in [N!Uids \cup Users -> SUBSET Sockets]
    BY <1>1, <1>4, <2>2 DEF N!Send, N!TypeOK
  <2>4. N!TypeOK'
    BY <1>1, <1>4, <2>1, <2>3 DEF N!Send, N!TypeOK
  <2>5. /\ \A k \in DOMAIN connectedUsers : connectedUsers'[k] \subseteq connectedUsers[k]
        /\ \A k \in DOMAIN connectedUsers : \A s \in connectedUsers[k] :
             socket[s].pc = "open" => s \in connectedUsers'[k]
    BY <1>1, <1>4 DEF N!Send, N!Reached, N!Is, N!TypeOK
  <2>6. QED
    BY <1>4, <2>4, <2>5, NoticeStepKeeps DEF N!Send
<1>5. QED
  BY <1>2, <1>3, <1>4 DEF N!NoteStep

LEMMA SocketsNext == SocketsInv /\ [N!Next]_N!vars => SocketsInv'
<1> SUFFICES ASSUME SocketsInv, [N!Next]_N!vars
             PROVE  SocketsInv'
  OBVIOUS
<1>1. CASE UNCHANGED N!vars
  BY <1>1 DEF N!vars, SocketsInv, N!TypeOK, Named, N!SocketsAreFound, N!Is
<1>2. CASE \E s \in Sockets : N!SocketStep(s)
  BY <1>2, SocketStepKeeps
<1>3. CASE \E n \in Notes : N!NoteStep(n)
  BY <1>3, NoteStepKeeps
<1>4. ASSUME NEW u \in Users, N!MarkAllAsRead(u)
      PROVE  SocketsInv'
  <2>1. \A n \in Notes : [note[n] EXCEPT !.status = "read"] \in N!Note
    BY DEF SocketsInv, N!TypeOK, N!Note
  <2>2. N!TypeOK'
    BY <1>4, <2>1 DEF N!MarkAllAsRead, SocketsInv, N!TypeOK
  <2>3. QED
    BY <1>4, <2>2, NoticeStepKeeps DEF N!MarkAllAsRead
<1>5. CASE N!Restart
  <2>1. /\ \A n \in Notes : [note[n] EXCEPT !.status = "lost"] \in N!Note
        /\ \A s \in Sockets : [socket[s] EXCEPT !.pc = "closed"] \in N!Socket
        /\ \A s \in Sockets : [socket[s] EXCEPT !.pc = "closed"].pc = "closed"
    BY DEF SocketsInv, N!TypeOK, N!Note, N!Socket
  <2>2. N!TypeOK'
    BY <1>5, <2>1 DEF N!Restart, SocketsInv, N!TypeOK
  <2>3. \A s \in Sockets : socket'[s].pc \in {"new", "closed"}
    BY <1>5, <2>1 DEF N!Restart, N!Is
  <2>4. Named' /\ N!SocketsAreFound'
    BY <1>5, <2>3 DEF N!Restart, Named, N!SocketsAreFound, N!Is
  <2>5. QED
    BY <2>2, <2>4 DEF SocketsInv
<1>6. QED
  BY <1>1, <1>2, <1>3, <1>4, <1>5 DEF N!Next

\* Whatever the number of a user's sockets and the order in which they come,
\* are verified, leave and are dropped with the process: the map holds each open
\* socket under its own user, and no socket that has been closed since.
THEOREM MapAgreesWithSockets == N!Spec => []SocketsAreFound
<1>1. SocketsInv => SocketsAreFound
  BY DEF SocketsInv, SocketsAreFound
<1>2. QED
  BY <1>1, SocketsInit, SocketsNext, PTL DEF N!Spec

-----------------------------------------------------------------------------
(* Platform: the last administrator.                                       *)
(*                                                                         *)
(* A request that nobody's write has overtaken finds the one who sent it   *)
(* where he was: an administrator who is not the user it is about, or whom *)
(* it spares; and with an admin, of the same tenant.                       *)

Vouches(u, r) ==
    /\ user[u].state = "live" /\ user[u].isActive /\ user[u].role = r.as
    /\ u = r.id => /\ r.pc # "delete"
                   /\ r.dto.isActive # "no"
                   /\ r.dto.roleId \in {None, user[u].role}
    /\ r.as = "admin" => user[r.id].tenantId = user[u].tenantId

Watched(r) ==
    /\ r.pc \in {"create", "update", "updateRole", "delete"} => r.id \in Users
    /\ r.pc = "create" => r.dto.roleId \in P!Roles
    /\ r.pc \in {"tenantCreate", "tenantDelete"} => r.id \in Tenants /\ r.as = "superadmin"
    /\ r.pc \in {"update", "updateRole", "delete"} /\ ~ r.stale =>
         \E u \in Users : Vouches(u, r)

PlatformInv == P!TypeOK /\ \A h \in Handlers : Watched(platformReq[h])

LEMMA PlatformInit == P!Init => PlatformInv
<1> SUFFICES ASSUME P!Init
             PROVE  PlatformInv
  OBVIOUS
<1>1. P!NoRequest \in P!Request /\ P!NoRequest.pc = "idle"
  BY DEF P!NoRequest, P!NoBody, P!Request, P!Pc, P!Body, P!Roles
<1>2. P!TypeOK
  BY <1>1 DEF P!Init, P!TypeOK, P!User, P!State, P!Roles
<1>3. QED
  BY <1>1, <1>2 DEF P!Init, PlatformInv, Watched

LEMMA BeginsKeeps ==
    ASSUME PlatformInv, NEW h \in Handlers, NEW r \in P!Request, Watched(r),
           platformReq' = [platformReq EXCEPT ![h] = r],
           UNCHANGED <<user, company, isPlatformRole>>
    PROVE  PlatformInv'
<1>1. P!TypeOK'
  BY DEF PlatformInv, P!TypeOK
<1>2. ASSUME NEW g \in Handlers
      PROVE  Watched(platformReq[g])'
  <2>1. platformReq'[g] = IF g = h THEN r ELSE platformReq[g]
    BY DEF PlatformInv, P!TypeOK
  <2>2. QED
    BY <2>1 DEF PlatformInv, Watched, Vouches
<1>3. QED
  BY <1>1, <1>2 DEF PlatformInv

\* Whoever writes leaves the others with a request that has been overtaken.
LEMMA WroteKeeps ==
    ASSUME PlatformInv, NEW h \in Handlers, P!Wrote(h),
           user' \in [Users -> P!User], company' \in [Tenants -> P!State],
           isPlatformRole' \in [P!Roles -> BOOLEAN]
    PROVE  PlatformInv' /\ P!At(h, "idle")'
<1>1. P!NoRequest \in P!Request /\ P!NoRequest.pc = "idle"
  BY DEF P!NoRequest, P!NoBody, P!Request, P!Pc, P!Body, P!Roles
<1>2. ASSUME NEW g \in Handlers \ {h}
      PROVE  /\ platformReq'[g] \in P!Request
             /\ platformReq'[g].pc = platformReq[g].pc /\ platformReq'[g].as = platformReq[g].as
             /\ platformReq'[g].id = platformReq[g].id /\ platformReq'[g].dto = platformReq[g].dto
             /\ platformReq[g].pc # "idle" => platformReq'[g].stale
  <2>1. platformReq[g] \in P!Request
    BY DEF PlatformInv, P!TypeOK
  <2>2. platformReq'[g] = [platformReq[g] EXCEPT !.stale = ~ (platformReq[g].pc = "idle")]
    BY DEF P!Wrote, P!At
  <2>3. QED
    BY <2>1, <2>2 DEF P!Request
<1>3. platformReq'[h] = P!NoRequest
  BY DEF P!Wrote
<1>4. platformReq' \in [Handlers -> P!Request]
  BY <1>1, <1>2, <1>3 DEF P!Wrote
<1>5. ASSUME NEW g \in Handlers
      PROVE  Watched(platformReq[g])'
  BY <1>1, <1>2, <1>3 DEF PlatformInv, Watched
<1>6. QED
  BY <1>1, <1>3, <1>4, <1>5 DEF PlatformInv, P!TypeOK, P!At

LEMMA PlatformCallKeeps ==
    ASSUME PlatformInv, NEW h \in Handlers, NEW u \in Users, P!PlatformCall(h, u)
    PROVE  PlatformInv'
<1>1. user[u] \in P!User
  BY DEF PlatformInv, P!TypeOK
<1>2. P!NoBody \in P!Body /\ Bodies \subseteq P!Body
  BY PlatformConfig DEF P!NoBody, P!Body, Body, P!Roles, Roles
<1>3. ASSUME NEW i \in Users, NEW r \in P!Roles, P!CreateRead(h, u, i, r)
      PROVE  PlatformInv'
  <2> DEFINE q == [pc |-> "create", as |-> user[u].role, id |-> i,
                   dto |-> [P!NoBody EXCEPT !.roleId = r], stale |-> FALSE]
  <2>1. [P!NoBody EXCEPT !.roleId = r] \in P!Body
        /\ [P!NoBody EXCEPT !.roleId = r].roleId = r
    BY DEF P!NoBody, P!Body
  <2>2. q \in P!Request /\ Watched(q)
    BY <1>1, <2>1 DEF P!Request, P!Pc, P!User, Watched
  <2>3. QED
    BY <1>3, <2>2, BeginsKeeps DEF P!CreateRead, P!Begins, P!Reads
<1>4. ASSUME NEW i \in Users, NEW dto \in Bodies, P!UpdatePlatformRead(h, u, i, dto)
      PROVE  PlatformInv'
  <2> DEFINE q == [pc |-> "update", as |-> user[u].role, id |-> i, dto |-> dto, stale |-> FALSE]
  <2>1. q \in P!Request
    BY <1>1, <1>2 DEF P!Request, P!Pc, P!User
  <2>2. Vouches(u, q)
    BY <1>4 DEF P!UpdatePlatformRead, P!Enters, P!Live, P!SparesSelf, Vouches
  <2>3. Watched(q)
    BY <2>2 DEF Watched
  <2>4. QED
    BY <1>4, <2>1, <2>3, BeginsKeeps DEF P!UpdatePlatformRead, P!Begins, P!Reads
<1>5. ASSUME NEW i \in Users, P!DeletePlatformRead(h, u, i)
      PROVE  PlatformInv'
  <2> DEFINE q == [pc |-> "delete", as |-> user[u].role, id |-> i, dto |-> P!NoBody,
                   stale |-> FALSE]
  <2>1. q \in P!Request
    BY <1>1, <1>2 DEF P!Request, P!Pc, P!User
  <2>2. Vouches(u, q)
    BY <1>5 DEF P!DeletePlatformRead, P!Enters, P!Live, Vouches
  <2>3. Watched(q)
    BY <2>2 DEF Watched
  <2>4. QED
    BY <1>5, <2>1, <2>3, BeginsKeeps DEF P!DeletePlatformRead, P!Begins, P!Reads
<1>6. ASSUME P!RoleRead(h, u)
      PROVE  PlatformInv'
  <2> DEFINE q == [pc |-> "role", as |-> user[u].role, id |-> None, dto |-> P!NoBody,
                   stale |-> FALSE]
  <2>1. q \in P!Request /\ Watched(q)
    BY <1>1, <1>2 DEF P!Request, P!Pc, P!User, Watched
  <2>2. QED
    BY <1>6, <2>1, BeginsKeeps DEF P!RoleRead, P!Begins, P!Reads
<1>7. ASSUME NEW t \in Tenants, NEW pc \in {"tenantCreate", "tenantDelete"},
             P!TenantRead(h, u, pc, t)
      PROVE  PlatformInv'
  <2> DEFINE q == [pc |-> pc, as |-> user[u].role, id |-> t, dto |-> P!NoBody, stale |-> FALSE]
  <2>1. user[u].role = "superadmin"
    BY <1>7 DEF P!TenantRead, P!Enters
  <2>2. q \in P!Request /\ Watched(q)
    BY <1>1, <1>2, <2>1 DEF P!Request, P!Pc, P!User, Watched
  <2>3. QED
    BY <1>7, <2>2, BeginsKeeps DEF P!TenantRead, P!Begins, P!Reads
<1>8. QED
  BY <1>3, <1>4, <1>5, <1>6, <1>7 DEF P!PlatformCall

LEMMA TenantCallKeeps ==
    ASSUME PlatformInv, NEW h \in Handlers, NEW u \in Users, P!TenantCall(h, u)
    PROVE  PlatformInv'
<1>1. user[u] \in P!User
  BY DEF PlatformInv, P!TypeOK
<1>2. P!NoBody \in P!Body /\ Bodies \subseteq P!Body
  BY PlatformConfig DEF P!NoBody, P!Body, Body, P!Roles, Roles
<1>3. ASSUME NEW i \in Users, NEW dto \in Bodies, P!UpdateTenantRead(h, u, i, dto)
      PROVE  PlatformInv'
  <2> DEFINE q == [pc |-> "updateRole", as |-> user[u].role, id |-> i, dto |-> dto,
                   stale |-> FALSE]
  <2>1. q \in P!Request
    BY <1>1, <1>2 DEF P!Request, P!Pc, P!User
  <2>2. Vouches(u, q)
    BY <1>3 DEF P!UpdateTenantRead, P!Enters, P!Live, P!SparesSelf, P!SameTenant, Vouches
  <2>3. Watched(q)
    BY <2>2 DEF Watched
  <2>4. QED
    BY <1>3, <2>1, <2>3, BeginsKeeps DEF P!UpdateTenantRead, P!Begins, P!Reads
<1>4. ASSUME NEW i \in Users, P!DeleteTenantRead(h, u, i)
      PROVE  PlatformInv'
  <2> DEFINE q == [pc |-> "delete", as |-> user[u].role, id |-> i, dto |-> P!NoBody,
                   stale |-> FALSE]
  <2>1. q \in P!Request
    BY <1>1, <1>2 DEF P!Request, P!Pc, P!User
  <2>2. Vouches(u, q)
    BY <1>4 DEF P!DeleteTenantRead, P!Enters, P!Live, P!SameTenant, Vouches
  <2>3. Watched(q)
    BY <2>2 DEF Watched
  <2>4. QED
    BY <1>4, <2>1, <2>3, BeginsKeeps DEF P!DeleteTenantRead, P!Begins, P!Reads
<1>5. QED
  BY <1>3, <1>4 DEF P!TenantCall

Kept == /\ P!LosesLast(P!Superadmins, "superadmin")
        /\ \A t \in Tenants : P!LosesLast(P!Holders("admin", t), "admin")

\* Nobody who administers stops doing so.
LEMMA NobodyGoes ==
    ASSUME \A u \in Users :
             P!Live(u) /\ user[u].isActive =>
               /\ P!Live(u)' /\ user'[u].isActive /\ user'[u].role = user[u].role
               /\ user'[u].tenantId = user[u].tenantId
    PROVE  Kept
<1>1. P!Superadmins \subseteq P!Superadmins'
  BY DEF P!Superadmins
<1>2. \A t \in Tenants : P!Holders("admin", t) \subseteq P!Holders("admin", t)'
  BY DEF P!Holders
<1>3. QED
  BY <1>1, <1>2 DEF Kept, P!LosesLast

\* The row of one user is written by a request that somebody vouches for: he
\* stays, and so does whoever administers another tenant.
LEMMA OneRowGoes ==
    ASSUME PlatformInv, NEW h \in Handlers, NEW i \in Users, NEW row \in P!User,
           user' = [user EXCEPT ![i] = row],
           platformReq[h].pc \in {"update", "delete"}, i = platformReq[h].id,
           platformReq[h].pc = "update" => row = P!Dto(user[i], platformReq[h].dto),
           P!At(h, "idle")'
    PROVE  Kept
<1>1. ~ P!At(h, "idle")
  BY DEF P!At
<1>2. CASE platformReq[h].stale
  BY <1>1, <1>2 DEF Kept, P!LosesLast
<1>3. CASE ~ platformReq[h].stale
  <2>1. PICK u \in Users : Vouches(u, platformReq[h])
    BY <1>3 DEF PlatformInv, Watched
  <2>2. /\ user'[u].state = "live" /\ user'[u].isActive
        /\ user'[u].role = platformReq[h].as
        /\ user'[u].tenantId = user[u].tenantId
    <3>1. CASE u # i
      BY <2>1, <3>1 DEF Vouches, PlatformInv, P!TypeOK
    <3>2. CASE u = i
      <4>1. /\ platformReq[h].pc = "update"
            /\ platformReq[h].dto.isActive # "no"
            /\ platformReq[h].dto.roleId \in {None, user[u].role}
        BY <2>1, <3>2 DEF Vouches
      <4>2. platformReq[h].dto.isActive \in {"yes", "same"}
        BY <4>1 DEF PlatformInv, P!TypeOK, P!Request, P!Body
      <4>3. user'[u] = P!Dto(user[u], platformReq[h].dto)
        BY <3>2, <4>1 DEF PlatformInv, P!TypeOK
      <4>4. user'[u].isActive
        <5>1. CASE platformReq[h].dto.isActive = "yes"
          <6>1. P!Dto(user[u], platformReq[h].dto).isActive
                  = (platformReq[h].dto.isActive = "yes")
            BY <5>1, Z3 DEF P!Dto
          <6>2. QED
            BY <4>3, <5>1, <6>1, Zenon
        <5>2. CASE platformReq[h].dto.isActive = "same"
          BY <2>1, <4>3, <5>2 DEF Vouches, P!Dto
        <5>3. QED
          BY <4>2, <5>1, <5>2
      <4>5. /\ user'[u].state = "live" /\ user'[u].role = platformReq[h].as
            /\ user'[u].tenantId = user[u].tenantId
        BY <2>1, <4>1, <4>3 DEF Vouches, P!Dto
      <4>6. QED
        BY <4>4, <4>5
    <3>3. QED
      BY <3>1, <3>2
  <2>3. P!LosesLast(P!Superadmins, "superadmin")
    <3>1. CASE platformReq[h].as # "superadmin"
      BY <1>1, <3>1 DEF P!LosesLast
    <3>2. CASE platformReq[h].as = "superadmin"
      <4>1. u \in P!Superadmins'
        BY <2>2, <3>2 DEF P!Superadmins, P!Live
      <4>2. QED
        BY <4>1 DEF P!LosesLast
    <3>3. QED
      BY <3>1, <3>2
  <2>4. ASSUME NEW t \in Tenants
        PROVE  P!LosesLast(P!Holders("admin", t), "admin")
    <3>1. CASE platformReq[h].as # "admin"
      BY <1>1, <3>1 DEF P!LosesLast
    <3>2. CASE platformReq[h].as = "admin" /\ user[i].tenantId = t
      <4>1. u \in P!Holders("admin", t)'
        BY <2>1, <2>2, <3>2 DEF Vouches, P!Holders, P!Live
      <4>2. QED
        BY <4>1 DEF P!LosesLast
    <3>3. CASE user[i].tenantId # t
      <4>1. \A w \in Users \ {i} : user'[w] = user[w]
        BY DEF PlatformInv, P!TypeOK
      <4>2. P!Holders("admin", t) \subseteq P!Holders("admin", t)'
        BY <3>3, <4>1 DEF P!Holders, P!Live
      <4>3. QED
        BY <4>2 DEF P!LosesLast
    <3>4. QED
      BY <3>1, <3>2, <3>3
  <2>5. QED
    BY <2>3, <2>4 DEF Kept
<1>4. QED
  BY <1>2, <1>3

LEMMA CreateWriteKeeps ==
    ASSUME PlatformInv, NEW h \in Handlers, P!CreateWrite(h)
    PROVE  PlatformInv' /\ Kept
<1>1. PICK i \in Users, r \in P!Roles : i = platformReq[h].id /\ r = platformReq[h].dto.roleId
  BY DEF PlatformInv, Watched, P!CreateWrite, P!At
<1>2. PICK row \in P!User : user' = [user EXCEPT ![i] = row]
  <2>1. TenantOf[i] \in Tenants \cup {None}
    BY RowsConfig
  <2>2. [state |-> "live", role |-> r, isActive |-> TRUE, tenantId |-> TenantOf[i]] \in P!User
    BY <2>1 DEF P!User, P!State
  <2>3. QED
    BY <1>1, <2>2 DEF P!CreateWrite
<1>3. user' \in [Users -> P!User] /\ \A u \in Users \ {i} : user'[u] = user[u]
  BY <1>2 DEF PlatformInv, P!TypeOK
<1>4. user[i].state = "unborn"
  BY <1>1 DEF P!CreateWrite
<1>5. PlatformInv'
  BY <1>3, WroteKeeps DEF P!CreateWrite, PlatformInv, P!TypeOK
<1>6. Kept
  BY <1>3, <1>4, NobodyGoes DEF P!Live
<1>7. QED
  BY <1>5, <1>6

LEMMA UpdateWriteKeeps ==
    ASSUME PlatformInv, NEW h \in Handlers, P!UpdateWrite(h)
    PROVE  PlatformInv' /\ Kept
<1>1. PICK i \in Users : i = platformReq[h].id
  BY DEF PlatformInv, Watched, P!UpdateWrite, P!At
<1>2. user[i] \in P!User /\ platformReq[h].dto \in P!Body /\ platformReq[h].pc = "update"
  BY DEF PlatformInv, P!TypeOK, P!Request, P!UpdateWrite, P!At
<1>3. P!Dto(user[i], platformReq[h].dto) \in P!User
  BY <1>2 DEF P!Dto, P!User, P!Body
<1>4. user' = [user EXCEPT ![i] = P!Dto(user[i], platformReq[h].dto)]
  BY <1>1 DEF P!UpdateWrite
<1>5. user' \in [Users -> P!User]
  BY <1>3, <1>4 DEF PlatformInv, P!TypeOK
<1>6. PlatformInv' /\ P!At(h, "idle")'
  BY <1>5, WroteKeeps DEF P!UpdateWrite, PlatformInv, P!TypeOK
<1>7. Kept
  BY <1>1, <1>2, <1>3, <1>4, <1>6, OneRowGoes
<1>8. QED
  BY <1>6, <1>7

LEMMA DeleteWriteKeeps ==
    ASSUME PlatformInv, NEW h \in Handlers, P!DeleteWrite(h)
    PROVE  PlatformInv' /\ Kept
<1>1. PICK i \in Users : i = platformReq[h].id
  BY DEF PlatformInv, Watched, P!DeleteWrite, P!At
<1>2. platformReq[h].pc = "delete"
  BY DEF P!DeleteWrite, P!At
<1>3. P!Removed \in P!User
  BY DEF P!Removed, P!User, P!State, P!Roles
<1>4. user' = [user EXCEPT ![i] = P!Removed]
  BY <1>1 DEF P!DeleteWrite
<1>5. user' \in [Users -> P!User]
  BY <1>3, <1>4 DEF PlatformInv, P!TypeOK
<1>6. PlatformInv' /\ P!At(h, "idle")'
  BY <1>5, WroteKeeps DEF P!DeleteWrite, PlatformInv, P!TypeOK
<1>7. Kept
  BY <1>1, <1>2, <1>3, <1>4, <1>6, OneRowGoes
<1>8. QED
  BY <1>6, <1>7

\* The users of a tenant that goes lose it; only a superadmin takes it away.
LEMMA TenantDeleteKeeps ==
    ASSUME PlatformInv, NEW h \in Handlers, P!TenantDelete(h)
    PROVE  PlatformInv' /\ Kept
<1>1. PICK t \in Tenants : t = platformReq[h].id
  BY DEF PlatformInv, Watched, P!TenantDelete, P!At
<1>2. platformReq[h].as = "superadmin" /\ ~ P!At(h, "idle")
  BY DEF PlatformInv, Watched, P!TenantDelete, P!At
<1>3. ASSUME NEW u \in Users
      PROVE  /\ user'[u] \in P!User
             /\ user'[u].state = user[u].state /\ user'[u].role = user[u].role
             /\ user'[u].isActive = user[u].isActive
  <2>1. user[u] \in P!User
    BY DEF PlatformInv, P!TypeOK
  <2>2. user'[u] \in {user[u], [user[u] EXCEPT !.tenantId = None]}
    BY DEF P!TenantDelete
  <2>3. QED
    BY <2>1, <2>2 DEF P!User
<1>4. user' \in [Users -> P!User]
  BY <1>3 DEF P!TenantDelete
<1>5. company' \in [Tenants -> P!State]
  BY <1>1 DEF P!TenantDelete, PlatformInv, P!TypeOK, P!State
<1>6. PlatformInv' /\ P!At(h, "idle")'
  BY <1>4, <1>5, WroteKeeps DEF P!TenantDelete, PlatformInv, P!TypeOK
<1>7. P!Superadmins' = P!Superadmins
  BY <1>3 DEF P!Superadmins, P!Live
<1>8. Kept
  BY <1>2, <1>6, <1>7 DEF Kept, P!LosesLast
<1>9. QED
  BY <1>6, <1>8

LEMMA PlatformStepKeeps ==
    ASSUME PlatformInv, NEW h \in Handlers, P!PlatformStep(h)
    PROVE  PlatformInv' /\ Kept
<1>1. CASE P!UpdateTenantRole(h) \/ P!Dies(h)
  <2>1. P!NoRequest \in P!Request /\ P!NoRequest.pc = "idle"
    BY DEF P!NoRequest, P!NoBody, P!Request, P!Pc, P!Body, P!Roles
  <2>2. platformReq[h] \in P!Request
    BY DEF PlatformInv, P!TypeOK
  <2>3. UNCHANGED <<user, company, isPlatformRole>>
    BY <1>1 DEF P!UpdateTenantRole, P!Dies, P!Reads
  <2>4. Kept
    BY <2>3, NobodyGoes DEF P!Live
  <2>5. CASE P!Ends(h)
    <3>1. Watched(P!NoRequest)
      BY <2>1 DEF Watched
    <3>2. QED
      BY <2>1, <2>3, <2>4, <2>5, <3>1, BeginsKeeps DEF P!Ends
  <2>6. CASE platformReq[h].pc = "updateRole" /\ P!GoesTo(h, "update")
    <3> DEFINE r == [platformReq[h] EXCEPT !.pc = "update"]
    <3>1. /\ r \in P!Request /\ r.pc = "update" /\ r.as = platformReq[h].as
          /\ r.id = platformReq[h].id /\ r.dto = platformReq[h].dto
          /\ r.stale = platformReq[h].stale
      BY <2>2 DEF P!Request, P!Pc
    <3>2. Watched(platformReq[h])
      BY DEF PlatformInv
    <3>3. Watched(r)
      BY <2>6, <3>1, <3>2 DEF Watched, Vouches
    <3>4. QED
      BY <2>3, <2>4, <2>6, <3>1, <3>3, BeginsKeeps DEF P!GoesTo
  <2>7. QED
    BY <1>1, <2>5, <2>6 DEF P!UpdateTenantRole, P!Dies, P!At
<1>2. CASE (\E r \in P!Roles : P!RoleWrite(h, r)) \/ P!TenantCreate(h)
  <2>1. user' = user /\ P!Wrote(h)
    BY <1>2 DEF P!RoleWrite, P!TenantCreate
  <2>2. /\ company' \in [Tenants -> P!State]
        /\ isPlatformRole' \in [P!Roles -> BOOLEAN]
    BY <1>2 DEF P!RoleWrite, P!TenantCreate, PlatformInv, P!TypeOK, P!State
  <2>3. PlatformInv'
    BY <2>1, <2>2, WroteKeeps DEF PlatformInv, P!TypeOK
  <2>4. QED
    BY <2>1, <2>3, NobodyGoes DEF P!Live
<1>3. QED
  BY <1>1, <1>2, CreateWriteKeeps, UpdateWriteKeeps, DeleteWriteKeeps, TenantDeleteKeeps
     DEF P!PlatformStep

LEMMA PlatformNext == PlatformInv /\ [P!Next]_P!vars => PlatformInv' /\ [Kept]_P!vars
<1> SUFFICES ASSUME PlatformInv, [P!Next]_P!vars
             PROVE  PlatformInv' /\ [Kept]_P!vars
  OBVIOUS
<1>1. CASE UNCHANGED P!vars
  BY <1>1 DEF P!vars, PlatformInv, P!TypeOK, Watched, Vouches
<1>2. ASSUME NEW h \in Handlers, P!PlatformStep(h)
      PROVE  PlatformInv' /\ Kept
  BY <1>2, PlatformStepKeeps
<1>3. ASSUME NEW h \in Handlers, NEW u \in Users, P!PlatformCall(h, u) \/ P!TenantCall(h, u)
      PROVE  PlatformInv' /\ Kept
  <2>1. UNCHANGED user
    BY <1>3 DEF P!PlatformCall, P!TenantCall, P!CreateRead, P!UpdatePlatformRead,
                P!DeletePlatformRead, P!RoleRead, P!TenantRead, P!UpdateTenantRead,
                P!DeleteTenantRead, P!Begins, P!Reads
  <2>2. QED
    BY <1>3, <2>1, PlatformCallKeeps, TenantCallKeeps, NobodyGoes DEF P!Live
<1>4. QED
  BY <1>1, <1>2, <1>3 DEF P!Next

\* For any number of administrators: the last superadmin of the platform, or the
\* last admin of a tenant, goes only by a request that another's write has
\* overtaken, or by one from the other side.
THEOREM LastAdministratorStays == P!Spec => LastOneStays
<1>1. PlatformInv /\ [P!Next]_P!vars =>
        [/\ P!LosesLast(P!Superadmins, "superadmin")
         /\ \A t \in Tenants : P!LosesLast(P!Holders("admin", t), "admin")]_P!vars
  BY PlatformNext DEF Kept
<1>2. PlatformInv /\ [P!Next]_P!vars => PlatformInv'
  BY PlatformNext
<1>3. QED
  BY <1>1, <1>2, PlatformInit, PTL DEF P!Spec, P!LastOneStays, LastOneStays

-----------------------------------------------------------------------------
(* Proofs of delivery: pictures and the rows that point to them.           *)
(*                                                                         *)
(* A place is only ever written over by an upload of the same name, so the *)
(* picture a row points to has the row's order and millisecond for good.   *)

Proving(h) == proofReq[h].pc # "idle"

PicturesInv ==
    /\ U!TypeOK
    /\ \A h \in Handlers : Proving(h) => /\ proofReq[h].file \in U!File
                                         /\ proofReq[h].file.at = proofReq[h].at
                                         /\ proofReq[h].driver \in Drivers
    /\ \A f \in U!PublicId : cloudinary[f] # None =>
         Proving(cloudinary[f]) /\ U!Public(proofReq[cloudinary[f]].file) = f
    /\ \A f \in U!File : disk[f] # None => Proving(disk[f]) /\ proofReq[disk[f]].file = f
    /\ \A h \in Handlers : proofReq[h].pc = "row" =>
         /\ proofReq[h].url \in U!Url
         /\ proofReq[h].url.file = proofReq[h].file
         /\ U!Picture(proofReq[h].url) # None
    /\ \A h \in Handlers : deliveryProof[h] # U!NoRow =>
         /\ Proving(h) /\ deliveryProof[h] \in U!Row
         /\ deliveryProof[h].order = proofReq[h].file.order
         /\ deliveryProof[h].proofUrl.file = proofReq[h].file
         /\ U!Picture(deliveryProof[h].proofUrl) # None

LEMMA PicturesInit == U!Init => PicturesInv
<1> SUFFICES ASSUME U!Init
             PROVE  PicturesInv
  OBVIOUS
<1>1. U!NoReq \in U!Req
  BY ProofUploadConfig DEF U!NoReq, U!Req, U!NoFile, U!NoUrl, U!Moments
<1>2. U!TypeOK
  BY <1>1, ProofUploadConfig DEF U!Init, U!TypeOK, U!Moments
<1>3. \A h \in Handlers : proofReq[h].pc = "idle"
  BY DEF U!Init, U!NoReq
<1>4. QED
  BY <1>2, <1>3 DEF U!Init, PicturesInv, Proving

\* A request that goes on with the same file.
LEMMA FileStays ==
    ASSUME PicturesInv, NEW h \in Handlers, NEW r \in U!Req,
           proofReq' = [proofReq EXCEPT ![h] = r], r.file = proofReq[h].file,
           r.at = proofReq[h].at, r.driver = proofReq[h].driver, r.pc # "idle", Proving(h),
           now' = now, carrier' = carrier
    PROVE  /\ proofReq' \in [Handlers -> U!Req]
           /\ \A g \in Handlers : /\ proofReq'[g].file = proofReq[g].file
                                  /\ proofReq'[g].at = proofReq[g].at
                                  /\ proofReq'[g].driver = proofReq[g].driver
                                  /\ Proving(g)' <=> Proving(g)
           /\ \A g \in Handlers \ {h} : proofReq'[g] = proofReq[g]
           /\ proofReq'[h] = r
           /\ now' \in U!Moments /\ carrier' \in [Orders -> Drivers \cup {None}]
BY DEF PicturesInv, U!TypeOK, Proving

LEMMA UploadReadKeeps ==
    ASSUME PicturesInv, NEW h \in Handlers, NEW d \in Drivers, NEW o \in Orders,
           NEW ext \in Extensions, U!UploadRead(h, d, o, ext)
    PROVE  PicturesInv'
<1> DEFINE r == [U!NoReq EXCEPT !.pc = "primary", !.driver = d, !.at = now,
                                !.file = U!FileName(o, ext)]
<1>1. /\ U!FileName(o, ext) \in U!File /\ U!FileName(o, ext).at = now
  BY DEF U!FileName, U!File, PicturesInv, U!TypeOK
<1>2. /\ r \in U!Req /\ r.pc = "primary" /\ r.file = U!FileName(o, ext) /\ r.at = now
      /\ r.driver = d
  BY <1>1 DEF U!NoReq, U!Req, PicturesInv, U!TypeOK
<1>3. ~ Proving(h)
  BY DEF U!UploadRead, U!At, Proving
<1>4. /\ proofReq' \in [Handlers -> U!Req] /\ proofReq'[h] = r
      /\ \A g \in Handlers \ {h} : proofReq'[g] = proofReq[g]
      /\ UNCHANGED <<now, carrier, cloudinary, disk, deliveryProof>>
  BY <1>2 DEF U!UploadRead, PicturesInv, U!TypeOK
<1>5. /\ \A f \in U!PublicId : cloudinary[f] # None => cloudinary[f] \in Handlers \ {h}
      /\ \A f \in U!File : disk[f] # None => disk[f] \in Handlers \ {h}
      /\ deliveryProof[h] = U!NoRow
  BY <1>3 DEF PicturesInv, U!TypeOK
<1> HIDE DEF r
<1>6. U!TypeOK'
  BY <1>4 DEF PicturesInv, U!TypeOK
<1>7. QED
  BY <1>1, <1>2, <1>4, <1>5, <1>6 DEF PicturesInv, Proving, U!Picture

\* Whatever it stores is stored under the name of its own file.
LEMMA UploadGoesOn ==
    ASSUME PicturesInv, NEW h \in Handlers, Proving(h), NEW r \in U!Req, NEW row \in U!Row,
           NEW file \in U!File, file = proofReq[h].file,
           proofReq' = [proofReq EXCEPT ![h] = r],
           r.file = file, r.at = proofReq[h].at, r.driver = proofReq[h].driver, r.pc # "idle",
           cloudinary' \in {cloudinary, [cloudinary EXCEPT ![U!Public(file)] = h]},
           disk' \in {disk, [disk EXCEPT ![file] = h]},
           deliveryProof' \in {deliveryProof, [deliveryProof EXCEPT ![h] = row]},
           r.pc = "row" => /\ r.url \in U!Url /\ r.url.file = file
                           /\ U!Picture(r.url)' # None,
           /\ row.order = file.order /\ row.proofUrl.file = file
           /\ deliveryProof' # deliveryProof => U!Picture(row.proofUrl)' # None,
           now' = now, carrier' = carrier
    PROVE  PicturesInv'
<1>1. /\ proofReq' \in [Handlers -> U!Req]
      /\ \A g \in Handlers : /\ proofReq'[g].file = proofReq[g].file
                             /\ proofReq'[g].at = proofReq[g].at
                             /\ proofReq'[g].driver = proofReq[g].driver
                             /\ Proving(g)' <=> Proving(g)
      /\ \A g \in Handlers \ {h} : proofReq'[g] = proofReq[g]
      /\ proofReq'[h] = r
      /\ now' \in U!Moments /\ carrier' \in [Orders -> Drivers \cup {None}]
  BY FileStays
<1>2. PICK id \in U!PublicId : id = U!Public(file)
  BY DEF U!Public, U!File, U!PublicId
<1>3. h # None
  BY RowsConfig
<1>4. /\ cloudinary' \in [U!PublicId -> Handlers \cup {None}]
      /\ \A f \in U!PublicId : cloudinary'[f] = cloudinary[f] \/ (f = id /\ cloudinary'[f] = h)
  BY <1>2 DEF PicturesInv, U!TypeOK
<1>5. /\ disk' \in [U!File -> Handlers \cup {None}]
      /\ \A f \in U!File : disk'[f] = disk[f] \/ (f = file /\ disk'[f] = h)
  BY DEF PicturesInv, U!TypeOK
<1>6. /\ deliveryProof' \in [Handlers -> U!Row \cup {U!NoRow}]
      /\ \A g \in Handlers :
           \/ deliveryProof'[g] = deliveryProof[g]
           \/ g = h /\ deliveryProof'[g] = row /\ deliveryProof' # deliveryProof
  BY DEF PicturesInv, U!TypeOK
<1>7. U!TypeOK'
  BY <1>1, <1>4, <1>5, <1>6 DEF U!TypeOK
<1>8. \A url \in U!Url : U!Picture(url) # None => U!Picture(url)' # None
  <2>1. \A url \in U!Url : url.file \in U!File /\ U!Public(url.file) \in U!PublicId
    BY DEF U!Url, U!Public, U!File, U!PublicId
  <2>2. QED
    BY <1>3, <1>4, <1>5, <2>1 DEF U!Picture
<1>9. \A g \in Handlers : Proving(g)' => /\ proofReq'[g].file \in U!File
                                        /\ proofReq'[g].file.at = proofReq'[g].at
                                        /\ proofReq'[g].driver \in Drivers
  BY <1>1 DEF PicturesInv
<1>10. \A f \in U!PublicId : cloudinary'[f] # None =>
         Proving(cloudinary[f])' /\ U!Public(proofReq[cloudinary[f]].file)' = f
  BY <1>1, <1>2, <1>4 DEF PicturesInv, U!TypeOK, U!Public, Proving
<1>11. \A f \in U!File : disk'[f] # None =>
         Proving(disk[f])' /\ proofReq'[disk'[f]].file = f
  BY <1>1, <1>5 DEF PicturesInv, U!TypeOK, Proving
<1>12. ASSUME NEW g \in Handlers, proofReq'[g].pc = "row"
       PROVE  /\ proofReq'[g].url \in U!Url
              /\ proofReq'[g].url.file = proofReq'[g].file
              /\ U!Picture(proofReq[g].url)' # None
  <2>1. CASE g = h
    BY <1>1, <1>12, <2>1
  <2>2. CASE g # h
    <3>1. /\ proofReq'[g] = proofReq[g] /\ proofReq[g].url \in U!Url
          /\ proofReq[g].url.file = proofReq[g].file
          /\ U!Picture(proofReq[g].url) # None
      BY <1>1, <1>12, <2>2 DEF PicturesInv
    <3>2. PICK url \in U!Url : url = proofReq[g].url
      BY <3>1
    <3>3. U!Picture(url)' # None
      BY <1>8, <3>1, <3>2
    <3>4. QED
      BY <3>1, <3>2, <3>3
  <2>3. QED
    BY <2>1, <2>2
<1>13. ASSUME NEW g \in Handlers, deliveryProof'[g] # U!NoRow
       PROVE  /\ Proving(g)' /\ deliveryProof'[g] \in U!Row
              /\ deliveryProof'[g].order = proofReq'[g].file.order
              /\ deliveryProof'[g].proofUrl.file = proofReq'[g].file
              /\ U!Picture(deliveryProof[g].proofUrl)' # None
  <2>1. CASE deliveryProof'[g] = deliveryProof[g]
    <3>1. /\ Proving(g) /\ deliveryProof[g] \in U!Row
          /\ deliveryProof[g].order = proofReq[g].file.order
          /\ deliveryProof[g].proofUrl.file = proofReq[g].file
          /\ U!Picture(deliveryProof[g].proofUrl) # None
      BY <1>13, <2>1 DEF PicturesInv
    <3>2. PICK url \in U!Url : url = deliveryProof[g].proofUrl
      BY <3>1 DEF U!Row
    <3>3. U!Picture(url)' # None
      BY <1>8, <3>1, <3>2
    <3>4. QED
      BY <1>1, <2>1, <3>1, <3>2, <3>3
  <2>2. CASE g = h /\ deliveryProof'[g] = row /\ deliveryProof' # deliveryProof
    BY <1>1, <2>2
  <2>3. QED
    BY <1>6, <2>1, <2>2
<1>14. QED
  BY <1>7, <1>9, <1>10, <1>11, <1>12, <1>13 DEF PicturesInv

LEMMA UploadStepKeeps ==
    ASSUME PicturesInv, NEW h \in Handlers, U!UploadStep(h)
    PROVE  PicturesInv'
<1>1. CASE \E d \in Drivers, o \in Orders, ext \in Extensions : U!UploadRead(h, d, o, ext)
  BY <1>1, UploadReadKeeps
<1>2. ASSUME Proving(h),
             U!PrimaryStores(h) \/ U!PrimaryFails(h) \/ U!FallbackStores(h)
               \/ U!ProofCreate(h) \/ U!GivesUp(h)
      PROVE  PicturesInv'
  <2>1. PICK file \in U!File, carries \in Drivers :
          file = proofReq[h].file /\ carries = proofReq[h].driver
    BY <1>2 DEF PicturesInv
  <2>2. proofReq[h] \in U!Req /\ proofReq \in [Handlers -> U!Req] /\ h # None
    BY RowsConfig DEF PicturesInv, U!TypeOK
  <2> DEFINE Goes(pc) == [proofReq[h] EXCEPT !.pc = pc]
             Url(provider) == [provider |-> provider, file |-> file]
             Has(provider) == [proofReq[h] EXCEPT !.pc = "row", !.url = Url(provider)]
             Row(url) == [order |-> file.order, driver |-> carries, proofUrl |-> url]
  <2>3. \A pc \in {"fallback", "done"} :
          /\ Goes(pc) \in U!Req /\ Goes(pc).pc = pc
          /\ Goes(pc).file = file /\ Goes(pc).at = proofReq[h].at
          /\ Goes(pc).driver = proofReq[h].driver
    BY <2>1, <2>2 DEF U!Req
  <2>4. \A provider \in {"cloudinary", "local"} :
          /\ Url(provider) \in U!Url /\ Url(provider).file = file
          /\ Url(provider).provider = provider
    BY DEF U!Url
  <2>5. \A provider \in {"cloudinary", "local"} :
          /\ Has(provider) \in U!Req /\ Has(provider).pc = "row"
          /\ Has(provider).url = Url(provider)
          /\ Has(provider).file = file /\ Has(provider).at = proofReq[h].at
          /\ Has(provider).driver = proofReq[h].driver
    BY <2>1, <2>2, <2>4 DEF U!Req
  <2>6. \A url \in U!Url : /\ Row(url) \in U!Row /\ Row(url).order = file.order
                           /\ Row(url).proofUrl = url
    BY DEF U!Row, U!File
  <2>7. Url("local") \in U!Url /\ Url("cloudinary") \in U!Url
    BY <2>4
  <2>8. U!Public(file) \in U!PublicId
    BY DEF U!Public, U!File, U!PublicId
  <2> HIDE DEF Goes, Url, Has, Row
  <2>9. PICK row \in U!Row : row.order = file.order /\ row.proofUrl.file = file
    BY <2>4, <2>6, <2>7
  <2>10. CASE /\ UNCHANGED <<now, carrier, cloudinary, disk, deliveryProof>>
              /\ \/ proofReq' = [proofReq EXCEPT ![h] = Goes("fallback")]
                 \/ proofReq' = [proofReq EXCEPT ![h] = Goes("done")]
    BY <1>2, <2>1, <2>3, <2>9, <2>10, UploadGoesOn
  <2>11. CASE U!PrimaryStores(h)
    <3>1. /\ cloudinary' = [cloudinary EXCEPT ![U!Public(file)] = h]
          /\ UNCHANGED <<now, carrier, disk, deliveryProof>>
      BY <2>1, <2>11 DEF U!PrimaryStores
    <3>2. CASE proofReq' = [proofReq EXCEPT ![h] = Has("cloudinary")]
      <4>1. PICK r \in U!Req : /\ r = Has("cloudinary") /\ r.url \in U!Url /\ r.pc = "row"
                              /\ r.url.file = file /\ r.url.provider = "cloudinary"
                              /\ r.file = file /\ r.at = proofReq[h].at
                              /\ r.driver = proofReq[h].driver
        BY <2>4, <2>5
      <4>2. U!Picture(r.url)' # None
        BY <2>2, <2>8, <3>1, <4>1 DEF U!Picture, PicturesInv, U!TypeOK
      <4>3. QED
        BY <1>2, <2>1, <2>9, <3>1, <3>2, <4>1, <4>2, UploadGoesOn
    <3>3. CASE proofReq' = [proofReq EXCEPT ![h] = Goes("fallback")]
      BY <1>2, <2>1, <2>3, <2>9, <3>1, <3>3, UploadGoesOn
    <3>4. QED
      BY <2>1, <2>2, <2>11, <3>2, <3>3 DEF U!PrimaryStores, U!GoesTo, Goes, Has, Url
  <2>12. CASE U!FallbackStores(h)
    <3>1. /\ disk' = [disk EXCEPT ![file] = h]
          /\ proofReq' = [proofReq EXCEPT ![h] = Has("local")]
          /\ UNCHANGED <<now, carrier, cloudinary, deliveryProof>>
      BY <2>1, <2>2, <2>12 DEF U!FallbackStores, Has, Url
    <3>2. PICK r \in U!Req : /\ r = Has("local") /\ r.url \in U!Url /\ r.pc = "row"
                            /\ r.url.file = file /\ r.url.provider = "local"
                            /\ r.file = file /\ r.at = proofReq[h].at
                            /\ r.driver = proofReq[h].driver
      BY <2>4, <2>5
    <3>3. U!Picture(r.url)' # None
      BY <2>2, <3>1, <3>2 DEF U!Picture, PicturesInv, U!TypeOK
    <3>4. QED
      BY <1>2, <2>1, <2>9, <3>1, <3>2, <3>3, UploadGoesOn
  <2>13. CASE U!ProofCreate(h)
    <3>1. PICK url \in U!Url : /\ url = proofReq[h].url /\ url.file = file
                              /\ U!Picture(url) # None
      BY <2>1, <2>13 DEF U!ProofCreate, U!At, PicturesInv
    <3>2. PICK new \in U!Row : new = Row(url) /\ new.order = file.order /\ new.proofUrl = url
      BY <2>6
    <3>3. /\ deliveryProof' = [deliveryProof EXCEPT ![h] = new]
          /\ proofReq' = [proofReq EXCEPT ![h] = Goes("done")]
          /\ UNCHANGED <<now, carrier, cloudinary, disk>>
      BY <2>1, <2>2, <2>13, <3>1, <3>2 DEF U!ProofCreate, U!GoesTo, Goes, Row
    <3>4. U!Picture(url)' # None
      BY <3>1, <3>3 DEF U!Picture
    <3>5. QED
      BY <1>2, <2>1, <2>3, <3>1, <3>2, <3>3, <3>4, UploadGoesOn
  <2>14. QED
    BY <1>2, <2>10, <2>11, <2>12, <2>13 DEF U!PrimaryFails, U!GivesUp, U!GoesTo, Goes
<1>3. QED
  BY <1>1, <1>2 DEF U!UploadStep, U!PrimaryStores, U!PrimaryFails, U!FallbackStores,
                    U!ProofCreate, U!GivesUp, U!At, Proving

LEMMA PicturesNext == PicturesInv /\ [U!Next]_U!vars => PicturesInv'
<1> SUFFICES ASSUME PicturesInv, [U!Next]_U!vars
             PROVE  PicturesInv'
  OBVIOUS
<1>1. CASE UNCHANGED U!vars
  BY <1>1 DEF U!vars, PicturesInv, U!TypeOK, Proving, U!Picture
<1>2. CASE \E h \in Handlers : U!UploadStep(h)
  BY <1>2, UploadStepKeeps
<1>3. ASSUME UNCHANGED <<cloudinary, disk, deliveryProof, proofReq>>,
             now' \in U!Moments, carrier' \in [Orders -> Drivers \cup {None}]
      PROVE  PicturesInv'
  BY <1>3 DEF PicturesInv, U!TypeOK, Proving, U!Picture
<1>4. CASE \E o \in Orders : \E d \in Drivers \cup {None} : U!Reassigned(o, d)
  BY <1>3, <1>4 DEF U!Reassigned, PicturesInv, U!TypeOK
<1>5. CASE U!Tick
  <2>1. now + 1 \in U!Moments
    BY <1>5, ProofUploadConfig DEF U!Tick, U!Moments, PicturesInv, U!TypeOK
  <2>2. QED
    BY <1>3, <1>5, <2>1 DEF U!Tick, PicturesInv, U!TypeOK
<1>6. QED
  BY <1>1, <1>2, <1>4, <1>5 DEF U!Next

\* For any number of uploads: whichever provider fails or answers late, a row
\* points to a stored picture of its own order, and to another upload's only if
\* both were named in the same millisecond.
THEOREM RowsHavePictures == U!Spec => []ProofsHaveTheirPicture
<1>1. PicturesInv => ProofsHaveTheirPicture
  <2> SUFFICES ASSUME PicturesInv, NEW h \in Handlers, deliveryProof[h] # U!NoRow
               PROVE  LET row == deliveryProof[h]
                          shown == U!Picture(row.proofUrl)
                      IN /\ shown # None
                         /\ proofReq[shown].file.order = row.order
                         /\ shown = h \/ U!Together(h, shown)
    BY DEF ProofsHaveTheirPicture, U!ProofsHaveTheirPicture
  <2>1. PICK url \in U!Url : url = deliveryProof[h].proofUrl
    BY DEF PicturesInv, U!Row
  <2>2. PICK file \in U!File : file = url.file /\ file = proofReq[h].file
    BY <2>1 DEF PicturesInv
  <2>3. /\ Proving(h) /\ deliveryProof[h].order = file.order
        /\ U!Picture(url) # None /\ file.at = proofReq[h].at
    BY <2>1, <2>2 DEF PicturesInv
  <2>4. U!Public(file) \in U!PublicId
    BY DEF U!Public, U!File, U!PublicId
  <2>5. PICK shown \in Handlers : shown = U!Picture(url)
    BY <2>2, <2>3, <2>4 DEF U!Picture, PicturesInv, U!TypeOK
  <2>6. Proving(shown) /\ U!Public(proofReq[shown].file) = U!Public(file)
    BY <2>2, <2>3, <2>4, <2>5 DEF U!Picture, PicturesInv
  <2>7. proofReq[shown].file.order = file.order /\ proofReq[shown].at = file.at
    BY <2>6 DEF U!Public, PicturesInv
  <2>8. QED
    BY <2>1, <2>2, <2>3, <2>5, <2>7 DEF U!Together
<1>2. QED
  BY <1>1, PicturesInit, PicturesNext, PTL DEF U!Spec

-----------------------------------------------------------------------------
(* Uploads of orders: what an upload knows of the lines behind it.         *)

Tells(h, u) ==
    /\ u.pc = "idle" => I!Stored(h) = {}
    /\ u.pc # "idle" =>
         /\ u.at \in 1 .. (Len(u.orders) + 1)
         /\ u.createdOrders = I!Stored(h)
         /\ u.errors \subseteq 1 .. (u.at - 1)
         /\ \A k \in (1 .. (u.at - 1)) \ u.errors :
              u.orders[k].numero \in Numbers /\ order[u.orders[k].numero] = h
    /\ u.pc = "insert" => u.at <= Len(u.orders) /\ u.orders[u.at].numero \in Numbers
    /\ u.pc = "answered" /\ u.answer # "InternalError" =>
         /\ u.at = Len(u.orders) + 1
         /\ u.answer = "BadRequest" => u.errors # {} /\ u.createdOrders = {}
         /\ u.answer = "Todos" => u.errors = {}

UploadsInv == I!TypeOK /\ \A h \in Handlers : Tells(h, upload[h])

LEMMA UploadsInit == I!Init => UploadsInv
<1> SUFFICES ASSUME I!Init
             PROVE  UploadsInv
  OBVIOUS
<1>1. I!NoUpload \in I!Upload /\ I!NoUpload.pc = "idle"
  BY DEF I!NoUpload, I!Upload, I!Answer
<1>2. I!TypeOK
  BY <1>1 DEF I!Init, I!TypeOK
<1>3. \A h \in Handlers : I!Stored(h) = {}
  BY RowsConfig DEF I!Init, I!Stored
<1>4. QED
  BY <1>1, <1>2, <1>3 DEF I!Init, UploadsInv, Tells

\* One upload goes on; it may have stored a number that was free.
LEMMA UploadAdvances ==
    ASSUME UploadsInv, NEW h \in Handlers, NEW u \in I!Upload,
           upload' = [upload EXCEPT ![h] = u],
           \/ order' = order
           \/ \E n \in Numbers : order[n] = None /\ order' = [order EXCEPT ![n] = h],
           Tells(h, u)'
    PROVE  UploadsInv'
<1>1. h # None
  BY RowsConfig
<1>2. I!TypeOK'
  BY DEF UploadsInv, I!TypeOK
<1>3. \A n \in Numbers, g \in Handlers \ {h} : order'[n] = g <=> order[n] = g
  BY <1>1, RowsConfig DEF UploadsInv, I!TypeOK
<1>4. ASSUME NEW g \in Handlers
      PROVE  Tells(g, upload[g])'
  <2>1. CASE g = h
    <3>1. upload'[g] = u
      BY <2>1 DEF UploadsInv, I!TypeOK
    <3>2. QED
      BY <2>1, <3>1
  <2>2. CASE g # h
    <3>1. upload'[g] = upload[g] /\ Tells(g, upload[g])
      BY <2>2 DEF UploadsInv, I!TypeOK
    <3>2. I!Stored(g)' = I!Stored(g)
      BY <1>3, <2>2 DEF I!Stored
    <3>3. PICK w : w = upload[g]
      OBVIOUS
    <3>4. QED
      BY <1>3, <2>2, <3>1, <3>2, <3>3 DEF Tells
  <2>3. QED
    BY <2>1, <2>2
<1>5. QED
  BY <1>2, <1>4 DEF UploadsInv

LEMMA UploadCallKeeps ==
    ASSUME UploadsInv, NEW h \in Handlers, NEW file \in Files, I!UploadCall(h, file)
    PROVE  UploadsInv'
<1> DEFINE u == [I!NoUpload EXCEPT !.pc = "line", !.orders = file]
<1>1. file \in Seq(Line)
  BY IntakeConfig
<1>2. /\ u \in I!Upload /\ u.pc = "line" /\ u.at = 1 /\ u.orders = file
      /\ u.createdOrders = {} /\ u.errors = {}
  BY <1>1 DEF I!NoUpload, I!Upload, I!Answer, Line, I!Line
<1>3. I!Stored(h) = {}
  BY DEF I!UploadCall, I!At, UploadsInv, Tells
<1>4. I!Stored(h)' = {}
  BY <1>3 DEF I!UploadCall, I!Stored
<1>5. Len(file) \in Nat
  BY <1>1
<1> HIDE DEF u
<1>6. Tells(h, u)'
  BY <1>2, <1>4, <1>5 DEF Tells
<1>7. QED
  BY <1>2, <1>6, UploadAdvances DEF I!UploadCall, u

\* A line that is given up: reported, and the next one.
LEMMA ReportsKeeps ==
    ASSUME UploadsInv, NEW h \in Handlers, I!Reports(h), order' = order,
           upload[h].pc \in {"line", "insert"}, upload[h].at <= Len(upload[h].orders)
    PROVE  UploadsInv'
<1>1. PICK w \in I!Upload : w = upload[h]
  BY DEF UploadsInv, I!TypeOK
<1>2. Tells(h, w)
  BY <1>1 DEF UploadsInv
<1>3. Len(w.orders) \in Nat /\ w.at \in Nat
  BY DEF I!Upload
<1>4. PICK u \in I!Upload : /\ upload' = [upload EXCEPT ![h] = u]
                           /\ u.pc = "line" /\ u.at = w.at + 1 /\ u.orders = w.orders
                           /\ u.createdOrders = w.createdOrders
                           /\ u.errors = w.errors \cup {w.at}
  <2> DEFINE u == [w EXCEPT !.pc = "line", !.errors = w.errors \cup {w.at}, !.at = w.at + 1]
  <2>1. /\ u \in I!Upload /\ u.pc = "line" /\ u.at = w.at + 1 /\ u.orders = w.orders
        /\ u.createdOrders = w.createdOrders /\ u.errors = w.errors \cup {w.at}
    <3>1. PICK at \in Nat, errors \in SUBSET Nat : at = w.at + 1 /\ errors = w.errors \cup {w.at}
      <4>1. w.errors \subseteq Nat
        BY DEF I!Upload
      <4>2. w.at + 1 \in Nat /\ w.errors \cup {w.at} \in SUBSET Nat
        BY <1>3, <4>1
      <4>3. QED
        BY <4>2, Zenon
    <3>2. u = [w EXCEPT !.pc = "line", !.errors = errors, !.at = at]
      BY <3>1
    <3>3. QED
      BY <3>1, <3>2 DEF I!Upload
  <2>2. upload' = [upload EXCEPT ![h] = u]
    BY <1>1 DEF I!Reports
  <2>3. QED
    BY <2>1, <2>2
<1>5. I!Stored(h)' = I!Stored(h)
  BY DEF I!Stored
<1>6. /\ u.at \in 1 .. (Len(u.orders) + 1)
      /\ u.errors \subseteq 1 .. (u.at - 1)
      /\ \A k \in (1 .. (u.at - 1)) \ u.errors : k \in (1 .. (w.at - 1)) \ w.errors
  BY <1>1, <1>2, <1>3, <1>4 DEF Tells
<1>7. Tells(h, u)'
  BY <1>1, <1>2, <1>4, <1>5, <1>6 DEF Tells
<1>8. QED
  BY <1>4, <1>7, UploadAdvances

LEMMA LineInsertKeeps ==
    ASSUME UploadsInv, NEW h \in Handlers, I!LineInsert(h)
    PROVE  UploadsInv'
<1>1. PICK w \in I!Upload : w = upload[h]
  BY DEF UploadsInv, I!TypeOK
<1>2. Tells(h, w) /\ w.pc = "insert"
  BY <1>1 DEF UploadsInv, I!LineInsert, I!At
<1>3. Len(w.orders) \in Nat /\ w.at \in Nat
  BY DEF I!Upload
<1>4. PICK n \in Numbers : n = w.orders[w.at].numero
  BY <1>2 DEF Tells
<1>5. order[n] = None /\ order' = [order EXCEPT ![n] = h]
  BY <1>1, <1>4 DEF I!LineInsert, I!Current
<1>6. PICK u \in I!Upload : /\ upload' = [upload EXCEPT ![h] = u]
                           /\ u.pc = "line" /\ u.at = w.at + 1 /\ u.orders = w.orders
                           /\ u.createdOrders = w.createdOrders \cup {n}
                           /\ u.errors = w.errors
  <2> DEFINE u == [w EXCEPT !.pc = "line", !.at = w.at + 1,
                            !.createdOrders = w.createdOrders \cup {n}]
  <2>1. /\ u \in I!Upload /\ u.pc = "line" /\ u.at = w.at + 1 /\ u.orders = w.orders
        /\ u.createdOrders = w.createdOrders \cup {n} /\ u.errors = w.errors
    <3>1. PICK at \in Nat, created \in SUBSET Numbers :
            at = w.at + 1 /\ created = w.createdOrders \cup {n}
      <4>1. w.createdOrders \subseteq Numbers
        BY DEF I!Upload
      <4>2. w.at + 1 \in Nat /\ w.createdOrders \cup {n} \in SUBSET Numbers
        BY <1>3, <4>1
      <4>3. QED
        BY <4>2, Zenon
    <3>2. u = [w EXCEPT !.pc = "line", !.at = at, !.createdOrders = created]
      BY <3>1
    <3>3. QED
      BY <3>1, <3>2 DEF I!Upload
  <2>2. upload' = [upload EXCEPT ![h] = u]
    BY <1>1, <1>4 DEF I!LineInsert, I!Current
  <2>3. QED
    BY <2>1, <2>2
<1>7. order'[n] = h /\ \A m \in Numbers \ {n} : order'[m] = order[m]
  BY <1>5 DEF UploadsInv, I!TypeOK
<1>8. I!Stored(h)' = I!Stored(h) \cup {n}
  BY <1>7 DEF I!Stored
<1>9. /\ u.at \in 1 .. (Len(u.orders) + 1)
      /\ u.errors \subseteq 1 .. (u.at - 1)
      /\ \A k \in (1 .. (u.at - 1)) \ u.errors : k = w.at \/ k \in (1 .. (w.at - 1)) \ w.errors
  BY <1>2, <1>3, <1>6 DEF Tells
<1>10. ASSUME NEW k \in (1 .. (u.at - 1)) \ u.errors
       PROVE  u.orders[k].numero \in Numbers /\ order'[u.orders[k].numero] = h
  <2>1. CASE k = w.at
    BY <1>4, <1>6, <1>7, <2>1
  <2>2. CASE k \in (1 .. (w.at - 1)) \ w.errors
    BY <1>2, <1>6, <1>7, <2>2 DEF Tells
  <2>3. QED
    BY <1>9, <2>1, <2>2
<1>11. Tells(h, u)'
  BY <1>2, <1>6, <1>8, <1>9, <1>10 DEF Tells
<1>12. QED
  BY <1>5, <1>6, <1>11, UploadAdvances

\* A line that is taken on, an answer, and the end of the process.
LEMMA UploadTurnsKeeps ==
    ASSUME UploadsInv, NEW h \in Handlers,
           I!LineRead(h) \/ I!LineIsNull(h) \/ I!UploadAnswer(h) \/ I!Dies(h)
    PROVE  UploadsInv'
<1>1. PICK w \in I!Upload : w = upload[h]
  BY DEF UploadsInv, I!TypeOK
<1>2. Tells(h, w) /\ w.pc # "idle"
  BY <1>1 DEF UploadsInv, I!LineRead, I!LineIsNull, I!UploadAnswer, I!Dies, I!At
<1>3. Len(w.orders) \in Nat /\ w.at \in Nat /\ order' = order
  BY DEF I!Upload, I!LineRead, I!LineIsNull, I!UploadAnswer, I!Dies
<1>4. I!Stored(h)' = I!Stored(h)
  BY <1>3 DEF I!Stored
<1>5. CASE I!LineRead(h)
  <2>1. w.at <= Len(w.orders) /\ w.orders[w.at].numero \in Numbers
    <3>1. w.at \in 1 .. Len(w.orders)
      BY <1>1, <1>2, <1>3, <1>5 DEF I!LineRead, I!MoreLines, Tells
    <3>2. w.orders \in Seq(I!Line)
      BY DEF I!Upload
    <3>3. w.orders[w.at] \in I!Line
      BY <3>1, <3>2
    <3>4. w.orders[w.at].numero # None
      BY <1>1, <1>5 DEF I!LineRead, I!Acceptable, I!Current
    <3>5. QED
      BY <3>1, <3>3, <3>4 DEF I!Line
  <2>2. PICK u \in I!Upload : /\ upload' = [upload EXCEPT ![h] = u]
                             /\ u.pc = "insert" /\ u.at = w.at /\ u.orders = w.orders
                             /\ u.createdOrders = w.createdOrders /\ u.errors = w.errors
    <3> DEFINE u == [w EXCEPT !.pc = "insert"]
    <3>1. /\ u \in I!Upload /\ u.pc = "insert" /\ u.at = w.at /\ u.orders = w.orders
          /\ u.createdOrders = w.createdOrders /\ u.errors = w.errors
      BY DEF I!Upload
    <3>2. upload' = [upload EXCEPT ![h] = u]
      BY <1>1, <1>5 DEF I!LineRead
    <3>3. QED
      BY <3>1, <3>2
  <2>3. Tells(h, u)'
    BY <1>2, <1>3, <1>4, <2>1, <2>2 DEF Tells
  <2>4. QED
    BY <1>3, <2>2, <2>3, UploadAdvances
<1>6. CASE I!LineIsNull(h) \/ I!Dies(h)
  <2>1. PICK u \in I!Upload : /\ upload' = [upload EXCEPT ![h] = u]
                             /\ u.pc = "answered" /\ u.at = w.at /\ u.orders = w.orders
                             /\ u.createdOrders = w.createdOrders /\ u.errors = w.errors
                             /\ u.answer = "InternalError"
    <3> DEFINE u == [w EXCEPT !.pc = "answered", !.answer = "InternalError"]
    <3>1. /\ u \in I!Upload /\ u.pc = "answered" /\ u.at = w.at /\ u.orders = w.orders
          /\ u.createdOrders = w.createdOrders /\ u.errors = w.errors
          /\ u.answer = "InternalError"
      BY DEF I!Upload, I!Answer
    <3>2. upload' = [upload EXCEPT ![h] = u]
      BY <1>1, <1>6 DEF I!LineIsNull, I!Dies
    <3>3. QED
      BY <3>1, <3>2
  <2>2. Tells(h, u)'
    BY <1>2, <1>3, <1>4, <2>1 DEF Tells
  <2>3. QED
    BY <1>3, <2>1, <2>2, UploadAdvances
<1>7. CASE I!UploadAnswer(h)
  <2>1. PICK answer \in I!Answer :
          answer = IF w.errors = {} THEN "Todos"
                   ELSE IF w.createdOrders = {} THEN "BadRequest" ELSE "Alguns"
    BY DEF I!Answer
  <2>2. PICK u \in I!Upload : /\ upload' = [upload EXCEPT ![h] = u]
                             /\ u.pc = "answered" /\ u.at = w.at /\ u.orders = w.orders
                             /\ u.createdOrders = w.createdOrders /\ u.errors = w.errors
                             /\ u.answer = answer
    <3> DEFINE u == [w EXCEPT !.pc = "answered", !.answer = answer]
    <3>1. /\ u \in I!Upload /\ u.pc = "answered" /\ u.at = w.at /\ u.orders = w.orders
          /\ u.createdOrders = w.createdOrders /\ u.errors = w.errors /\ u.answer = answer
      BY DEF I!Upload
    <3>2. upload' = [upload EXCEPT ![h] = u]
      BY <1>1, <1>7, <2>1 DEF I!UploadAnswer
    <3>3. QED
      BY <3>1, <3>2
  <2>3. w.at = Len(w.orders) + 1
    BY <1>1, <1>2, <1>3, <1>7 DEF I!UploadAnswer, I!MoreLines, Tells
  <2>4. Tells(h, u)'
    BY <1>2, <1>3, <1>4, <2>1, <2>2, <2>3 DEF Tells
  <2>5. QED
    BY <1>3, <2>2, <2>4, UploadAdvances
<1>8. QED
  BY <1>5, <1>6, <1>7

LEMMA UploadsNext == UploadsInv /\ [I!Next]_I!vars => UploadsInv'
<1> SUFFICES ASSUME UploadsInv, [I!Next]_I!vars
             PROVE  UploadsInv'
  OBVIOUS
<1>1. CASE UNCHANGED I!vars
  BY <1>1 DEF I!vars, UploadsInv, I!TypeOK, Tells, I!Stored
<1>2. ASSUME NEW h \in Handlers, I!UploadStep(h)
      PROVE  UploadsInv'
  <2>1. CASE I!LineRefused(h)
    BY <2>1, ReportsKeeps DEF I!LineRefused, I!At, I!MoreLines
  <2>2. CASE I!LineFails(h)
    <3>1. Tells(h, upload[h])
      BY DEF UploadsInv
    <3>2. QED
      BY <2>2, <3>1, ReportsKeeps DEF I!LineFails, I!At, Tells
  <2>3. QED
    BY <1>2, <2>1, <2>2, LineInsertKeeps, UploadTurnsKeeps DEF I!UploadStep
<1>3. CASE \E h \in Handlers : \E file \in Files : I!UploadCall(h, file)
  BY <1>3, UploadCallKeeps
<1>4. QED
  BY <1>1, <1>2, <1>3 DEF I!Next

\* For any files and any number of uploads at once: what an upload says it has
\* stored, or not stored, is so.
THEOREM UploadsAnswerTruly == I!Spec => []AnswersAreTrue
<1>1. UploadsInv => AnswersAreTrue
  <2> SUFFICES ASSUME UploadsInv, NEW h \in Handlers, I!At(h, "answered"),
                      upload[h].answer # "InternalError"
               PROVE  LET u == upload[h]
                          lines == 1 .. Len(u.orders)
                      IN /\ u.createdOrders = I!Stored(h)
                         /\ u.answer = "BadRequest" => I!Stored(h) = {} /\ u.errors = lines
                                                        /\ lines # {}
                         /\ u.answer = "Todos" => u.errors = {}
                         /\ \A k \in lines \ u.errors : order[u.orders[k].numero] = h
    BY DEF AnswersAreTrue, I!AnswersAreTrue
  <2>1. PICK u \in I!Upload : u = upload[h]
    BY DEF UploadsInv, I!TypeOK
  <2>2. /\ Tells(h, u) /\ u.pc = "answered" /\ u.answer # "InternalError"
        /\ Len(u.orders) \in Nat
    BY <2>1 DEF UploadsInv, I!At, I!Upload
  <2>3. /\ u.at - 1 = Len(u.orders) /\ u.createdOrders = I!Stored(h)
        /\ u.errors \subseteq 1 .. Len(u.orders)
        /\ \A k \in (1 .. Len(u.orders)) \ u.errors :
             u.orders[k].numero \in Numbers /\ order[u.orders[k].numero] = h
    BY <2>2 DEF Tells
  <2>4. ASSUME u.answer = "BadRequest"
        PROVE  I!Stored(h) = {} /\ u.errors = 1 .. Len(u.orders) /\ 1 .. Len(u.orders) # {}
    <3>1. I!Stored(h) = {} /\ u.errors # {}
      BY <2>2, <2>3, <2>4 DEF Tells
    <3>2. \A k \in 1 .. Len(u.orders) : k \in u.errors
      BY <2>3, <3>1 DEF I!Stored
    <3>3. QED
      BY <2>3, <3>1, <3>2
  <2>5. u.answer = "Todos" => u.errors = {}
    BY <2>2 DEF Tells
  <2>6. QED
    BY <2>1, <2>3, <2>4, <2>5
<1>2. QED
  BY <1>1, UploadsInit, UploadsNext, PTL DEF I!Spec
=============================================================================
