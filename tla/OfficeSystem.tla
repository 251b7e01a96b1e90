---------------------------- MODULE OfficeSystem ----------------------------
(***************************************************************************)
(* The modules about a tenant's records side by side, over the same rows   *)
(* and people, and what each of them is asked to keep.  They share no      *)
(* variable that a property relates: the fleet keeps of a user whether he  *)
(* is a driver, the platform of a tenant whether there is one, the regions *)
(* how it computes freight.                                                *)
(***************************************************************************)
EXTENDS Office

VARIABLES
    region, tenant, regionsReq, quote, raced,
    driver, vehicle, category, fleetUser, sequence, fleetReq,
    user, company, isPlatformRole, platformReq,
    order, upload,
    socket, connectedUsers, note, received,
    now, carrier, cloudinary, disk, deliveryProof, proofReq

R == INSTANCE Regions WITH req <- regionsReq
F == INSTANCE Fleet WITH req <- fleetReq, user <- fleetUser
P == INSTANCE Platform WITH req <- platformReq, tenant <- company
I == INSTANCE Intake
N == INSTANCE Notifications
U == INSTANCE ProofUpload WITH req <- proofReq

-----------------------------------------------------------------------------
(* The properties, each stated in its module. *)

\* Regions: a clash takes a race of two handlers.
RegionsClashOnlyByRace == R!RegionsClashOnlyByRace

\* Freight and statistics see the same regions.
FreightAgreesWithStatistics == R!FreightAgreesWithStatistics

\* Fleet: vehicles, drivers, categories and users of one tenant hang together.
FleetIsWhole == F!FleetIsWhole

\* Fleet: no number is given twice or lost.
CodesAreConsecutive == F!CodesAreConsecutive

\* Platform: the last administrator goes only by a race or from the other side.
LastOneStays == P!LastOneStays

\* Intake: what an upload says it stored is what it stored.
AnswersAreTrue == I!AnswersAreTrue

\* Notifications: the gateway's map and the sockets agree.
SocketsAreFound == N!SocketsAreFound

\* Proofs of delivery: every row has its picture.
ProofsHaveTheirPicture == U!ProofsHaveTheirPicture
=============================================================================
