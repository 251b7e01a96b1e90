--------------------------- MODULE Notifications ---------------------------
(***************************************************************************)
(* Notifications: rows of the database and the sockets they are pushed to. *)
(*                                                                         *)
(* The gateway remembers the sockets of each user of the identity provider *)
(* in a map that lives in the process.  A socket may leave while its token *)
(* is being verified; the verification then puts it into the map all the   *)
(* same.  Notices are stored and pushed by a callback that nobody waits    *)
(* for, and pushed under the recipient's key in the database.              *)
(***************************************************************************)
EXTENDS Office

VARIABLES
    socket,         \* where each connection is, and the user its token names
    connectedUsers, \* the gateway's map
    note,           \* Notification rows, and those still to be stored
    received        \* the notices pushed to each socket

vars == <<socket, connectedUsers, note, received>>

Socket == [pc : {"new", "verifying", "left", "open", "closed", "ghost"}, uid : Uids \cup {None}]
Note == [status : {"none", "queued", "unread", "read", "lost"}, userId : Users \cup {None}]

TypeOK ==
    /\ socket \in [Sockets -> Socket]
    /\ connectedUsers \in [Uids \cup Users -> SUBSET Sockets]
    /\ note \in [Notes -> Note]
    /\ received \in [Sockets -> SUBSET Notes]

Init ==
    /\ socket = [s \in Sockets |-> [pc |-> "new", uid |-> None]]
    /\ connectedUsers = [k \in Uids \cup Users |-> {}]
    /\ note = [n \in Notes |-> [status |-> "none", userId |-> None]]
    /\ received = [s \in Sockets |-> {}]

-----------------------------------------------------------------------------
(* Sockets. *)

Is(s, pc) == socket[s].pc = pc

\* handleConnection, up to the verification of the token.
Connect(s, u) ==
    /\ Is(s, "new")
    /\ socket' = [socket EXCEPT ![s] = [pc |-> "verifying", uid |-> Uid[u]]]
    /\ UNCHANGED <<connectedUsers, note, received>>

\* handleConnection without a token.
ConnectRefused(s) ==
    /\ Is(s, "new")
    /\ socket' = [socket EXCEPT ![s].pc = "closed"]
    /\ UNCHANGED <<connectedUsers, note, received>>

\* The identity provider vouches for the token, even of a client that left.
Verified(s) ==
    /\ Is(s, "verifying") \/ Is(s, "left")
    /\ connectedUsers' = [connectedUsers EXCEPT ![socket[s].uid] = @ \cup {s}]
    /\ socket' = [socket EXCEPT ![s].pc = IF @ = "left" THEN "ghost" ELSE "open"]
    /\ UNCHANGED <<note, received>>

VerifyFails(s) ==
    /\ Is(s, "verifying") \/ Is(s, "left")
    /\ socket' = [socket EXCEPT ![s].pc = "closed"]
    /\ UNCHANGED <<connectedUsers, note, received>>

\* handleDisconnect of a socket whose user is not known yet.
LeavesEarly(s) ==
    /\ Is(s, "verifying")
    /\ socket' = [socket EXCEPT ![s].pc = "left"]
    /\ UNCHANGED <<connectedUsers, note, received>>

\* Mutant: the user is forgotten with the first of the sockets that leaves.
DisconnectsUser(s) ==
    /\ Is(s, "open")
    /\ connectedUsers' = [connectedUsers EXCEPT ![socket[s].uid] = {}]
    /\ socket' = [socket EXCEPT ![s].pc = "closed"]
    /\ UNCHANGED <<note, received>>
\* handleDisconnect
Disconnects(s) ==
    /\ Is(s, "open")
    /\ connectedUsers' = [connectedUsers EXCEPT ![socket[s].uid] = @ \ {s}]
    /\ socket' = [socket EXCEPT ![s].pc = "closed"]
    /\ UNCHANGED <<note, received>>

-----------------------------------------------------------------------------
(* Notices. *)

\* sendNotificationsAsync: the work is left to a callback.
Notify(n, u) ==
    /\ note[n].status = "none"
    /\ note' = [note EXCEPT ![n] = [status |-> "queued", userId |-> u]]
    /\ UNCHANGED <<socket, connectedUsers, received>>

\* sendToUser: sockets that are gone are dropped from the user's set.
Reached(key) == {s \in connectedUsers[key] : Is(s, "open")}

\* The row is stored, then pushed at once.
Send(n) ==
    LET key == note[n].userId IN
    /\ note[n].status = "queued"
    /\ note' = [note EXCEPT ![n].status = "unread"]
    /\ received' = [s \in Sockets |-> IF s \in Reached(key) THEN received[s] \cup {n}
                                      ELSE received[s]]
    /\ connectedUsers' = [connectedUsers EXCEPT ![key] = Reached(key)]
    /\ UNCHANGED socket

\* The row cannot be stored: nobody hears of it.
SendFails(n) ==
    /\ note[n].status = "queued"
    /\ note' = [note EXCEPT ![n].status = "lost"]
    /\ UNCHANGED <<socket, connectedUsers, received>>

\* Rows are never taken away or given to another user, so the look at the row
\* and its update are one step.
MarkAsRead(n, u) ==
    /\ note[n].status = "unread" /\ note[n].userId = u
    /\ note' = [note EXCEPT ![n].status = "read"]
    /\ UNCHANGED <<socket, connectedUsers, received>>

Unread(u) == {n \in Notes : note[n].status = "unread" /\ note[n].userId = u}
MarkAllAsRead(u) ==
    /\ Unread(u) # {}
    /\ note' = [n \in Notes |-> IF n \in Unread(u) THEN [note[n] EXCEPT !.status = "read"]
                                ELSE note[n]]
    /\ UNCHANGED <<socket, connectedUsers, received>>

-----------------------------------------------------------------------------
\* The map, the callbacks and the connections go with the process.
Restart ==
    /\ connectedUsers' = [k \in DOMAIN connectedUsers |-> {}]
    /\ socket' = [s \in Sockets |-> IF Is(s, "new") THEN socket[s]
                                    ELSE [socket[s] EXCEPT !.pc = "closed"]]
    /\ note' = [n \in Notes |-> IF note[n].status = "queued"
                                THEN [note[n] EXCEPT !.status = "lost"] ELSE note[n]]
    /\ UNCHANGED received

SocketStep(s) ==
    \/ \E u \in Users : Connect(s, u)
    \/ ConnectRefused(s)
    \/ Verified(s) \/ VerifyFails(s) \/ LeavesEarly(s) \/ Disconnects(s)

NoteStep(n) ==
    \/ \E u \in Users : Notify(n, u) \/ MarkAsRead(n, u)
    \/ Send(n) \/ SendFails(n)

Next ==
    \/ \E s \in Sockets : SocketStep(s)
    \/ \E n \in Notes : NoteStep(n)
    \/ \E u \in Users : MarkAllAsRead(u)
    \/ Restart

Spec == Init /\ [][Next]_vars

-----------------------------------------------------------------------------
(* Properties. *)

\* Whatever the order in which a user's sockets come, are verified and go: each
\* open socket is in its own user's set, and a set holds nothing else but the
\* sockets that left while their token was being verified.  A notice reaches no
\* socket of another user.
SocketsAreFound ==
    /\ \A s \in Sockets : Is(s, "open") => s \in connectedUsers[socket[s].uid]
    /\ \A k \in DOMAIN connectedUsers : \A s \in connectedUsers[k] :
         socket[s].uid = k /\ (Is(s, "open") \/ Is(s, "ghost"))
=============================================================================
