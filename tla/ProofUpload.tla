---------------------------- MODULE ProofUpload ----------------------------
(***************************************************************************)
(* Proofs of delivery (MobileService.uploadDeliveryProof) and the storage  *)
(* of their pictures: Cloudinary first, the local disk when that fails.    *)
(*                                                                         *)
(* The picture is named after its order and the millisecond, stored by one *)
(* of the providers, and only then does the row that points to it exist.   *)
(* A picture carries the handler that sent it.                             *)
(***************************************************************************)
EXTENDS Office

Moments == 0 .. LastMoment

VARIABLES
    now,            \* Date.now()
    carrier,        \* the driver of each order's delivery, if it has one
    cloudinary,     \* pictures by public_id, which has no extension
    disk,           \* pictures under uploads/proofs
    deliveryProof,  \* DeliveryProof rows, by the request that made them
    req

vars == <<now, carrier, cloudinary, disk, deliveryProof, req>>

File == [order : Orders, at : Moments, ext : Extensions]
PublicId == [order : Orders, at : Moments]
NoFile == [order |-> None, at |-> 0, ext |-> None]

Url == [provider : {"cloudinary", "local"}, file : File]
NoUrl == [provider |-> "none", file |-> NoFile]
Req == [pc : {"idle", "primary", "fallback", "row", "done"}, driver : Drivers \cup {None},
        at : Moments,           \* when it came in
        file : File \cup {NoFile}, url : Url \cup {NoUrl}]
Row == [order : Orders, driver : Drivers, proofUrl : Url]
NoRow == [order |-> None, driver |-> None, proofUrl |-> NoUrl]

TypeOK ==
    /\ now \in Moments
    /\ carrier \in [Orders -> Drivers \cup {None}]
    /\ cloudinary \in [PublicId -> Handlers \cup {None}]
    /\ disk \in [File -> Handlers \cup {None}]
    /\ deliveryProof \in [Handlers -> Row \cup {NoRow}]
    /\ req \in [Handlers -> Req]

NoReq == [pc |-> "idle", driver |-> None, at |-> 0, file |-> NoFile, url |-> NoUrl]

Init ==
    /\ now = 0
    /\ carrier \in [Orders -> Drivers \cup {None}]
    /\ cloudinary = [f \in PublicId |-> None]
    /\ disk = [f \in File |-> None]
    /\ deliveryProof = [h \in Handlers |-> NoRow]
    /\ req = [h \in Handlers |-> NoReq]

-----------------------------------------------------------------------------
At(h, pc) == req[h].pc = pc
GoesTo(h, pc) == req' = [req EXCEPT ![h].pc = pc]
Public(file) == [order |-> file.order, at |-> file.at]

\* Mutant: the name is the same for every picture of an order.
FileNameOfOrder(order, ext) == [order |-> order, at |-> 0, ext |-> ext]
\* proof_<order>_<Date.now()><extension>
FileName(order, ext) == [order |-> order, at |-> now, ext |-> ext]

\* The order may be on the route of the driver, or on none.
UploadRead(h, d, o, ext) ==
    /\ At(h, "idle")
    /\ carrier[o] \in {None, d}
    /\ req' = [req EXCEPT ![h] = [NoReq EXCEPT !.pc = "primary", !.driver = d, !.at = now,
                                               !.file = FileName(o, ext)]]
    /\ UNCHANGED <<now, carrier, cloudinary, disk, deliveryProof>>

\* A public_id that is taken is written over.
PrimaryStores(h) ==
    LET file == req[h].file IN
    /\ At(h, "primary")
    /\ cloudinary' = [cloudinary EXCEPT ![Public(file)] = h]
    /\ \/ req' = [req EXCEPT ![h].pc = "row", ![h].url = [provider |-> "cloudinary", file |-> file]]
       \/ GoesTo(h, "fallback")      \* the answer is lost
    /\ UNCHANGED <<now, carrier, disk, deliveryProof>>

PrimaryFails(h) ==
    /\ At(h, "primary")
    /\ GoesTo(h, "fallback")
    /\ UNCHANGED <<now, carrier, cloudinary, disk, deliveryProof>>

FallbackStores(h) ==
    LET file == req[h].file IN
    /\ At(h, "fallback")
    /\ disk' = [disk EXCEPT ![file] = h]
    /\ req' = [req EXCEPT ![h].pc = "row", ![h].url = [provider |-> "local", file |-> file]]
    /\ UNCHANGED <<now, carrier, cloudinary, deliveryProof>>

\* deliveryProof.create
ProofCreate(h) ==
    /\ At(h, "row")
    /\ deliveryProof' = [deliveryProof EXCEPT ![h] =
         [order |-> req[h].file.order, driver |-> req[h].driver, proofUrl |-> req[h].url]]
    /\ GoesTo(h, "done")
    /\ UNCHANGED <<now, carrier, cloudinary, disk>>

\* The disk refuses the picture, the row cannot be written, or the process goes.
GivesUp(h) ==
    /\ At(h, "primary") \/ At(h, "fallback") \/ At(h, "row")
    /\ GoesTo(h, "done")
    /\ UNCHANGED <<now, carrier, cloudinary, disk, deliveryProof>>

-----------------------------------------------------------------------------
\* Routes are made, changed and taken apart meanwhile.
Reassigned(o, d) ==
    /\ carrier[o] # d
    /\ carrier' = [carrier EXCEPT ![o] = d]
    /\ UNCHANGED <<now, cloudinary, disk, deliveryProof, req>>

Tick ==
    /\ now < LastMoment
    /\ now' = now + 1
    /\ UNCHANGED <<carrier, cloudinary, disk, deliveryProof, req>>

UploadStep(h) ==
    \/ \E d \in Drivers, o \in Orders, ext \in Extensions : UploadRead(h, d, o, ext)
    \/ PrimaryStores(h) \/ PrimaryFails(h) \/ FallbackStores(h) \/ ProofCreate(h) \/ GivesUp(h)

Next ==
    \/ \E h \in Handlers : UploadStep(h)
    \/ \E o \in Orders : \E d \in Drivers \cup {None} : Reassigned(o, d)
    \/ Tick

Spec == Init /\ [][Next]_vars

-----------------------------------------------------------------------------
(* Properties. *)

\* What is found under the url of a row.
Picture(url) == IF url.provider = "cloudinary" THEN cloudinary[Public(url.file)] ELSE disk[url.file]

\* Another upload for the same order in the same millisecond.
Together(h, g) == g # h /\ req[g].file.order = req[h].file.order /\ req[g].at = req[h].at

\* Whichever provider fails, answers late or not at all, and wherever an upload
\* ends: a row of DeliveryProof points to a picture that is stored, a picture of
\* its own order, and to the very one sent with it unless another upload for the
\* order fell into the same millisecond.
ProofsHaveTheirPicture ==
    \A h \in Handlers : deliveryProof[h] # NoRow =>
      LET row == deliveryProof[h]
          shown == Picture(row.proofUrl)
      IN /\ shown # None
         /\ req[shown].file.order = row.order
         /\ shown = h \/ Together(h, shown)
=============================================================================
