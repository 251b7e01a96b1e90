----------------------------- MODULE MCIdentity -----------------------------
(***************************************************************************)
(* Small instances of Identity for TLC.  Ids are numbers, given out in     *)
(* order: which of the free ones a new row gets makes no difference.       *)
(* Other is an address that only the edition of a row gives to anybody.    *)
(*                                                                         *)
(* Two handlers overlap.  Both accept invites, log in and remove users;    *)
(* one of them manages invites besides, and may die; the other makes       *)
(* users for the platform and edits them.                                  *)
(***************************************************************************)
EXTENDS Identity, Integers

CONSTANTS Other, Platform

InOrder ==
    /\ \A i \in Invites \ {1} : invite[i].status # "none" => invite[i - 1].status # "none"
    /\ \A a \in Accounts \ {1} : account[a].state # "absent" => account[a - 1].state # "absent"

OnlyEdited ==
    /\ \A i \in Invites : invite[i].email # Other
    /\ \A a \in Accounts : account[a].email # Other
    /\ \A h \in Handlers : req[h].email # Other

\* Where an address has been edited one invite is enough.
OneInviteIfEdited ==
    (\E a \in Accounts : user[a].email = Other) => invite[2].status = "none"

Bounded == InOrder /\ OnlyEdited /\ OneInviteIfEdited

Tenants(h) == InviteCall(h) \/ AcceptCall(h) \/ LoginCall(h) \/ DeleteCall(h) \/ Die(h)
Platforms(h) == PlatformCall(h) \/ AcceptCall(h) \/ LoginCall(h) \/ DeleteCall(h) \/ UpdateCall(h)

MCProceeds(h) == Proceeds(h) /\ Bounded'
MCNext ==
    \/ \E h \in Handlers :
         \/ (IF h \in Platform THEN Platforms(h) ELSE Tenants(h)) /\ Bounded'
         \/ MCProceeds(h)
    \/ Around /\ Bounded'

MCSpec == Init /\ [][MCNext]_vars /\ \A h \in Handlers : WF_vars(MCProceeds(h))
=============================================================================
