------------------------------- MODULE Intake -------------------------------
(***************************************************************************)
(* Upload of a file of orders (OrdersService.upload) for one tenant.       *)
(*                                                                         *)
(* The lines are taken one after another, each in its own statement; a     *)
(* line that cannot be stored is reported and the upload goes on.  The     *)
(* body is not validated: a line may lack anything, or be null, and null   *)
(* throws again where the error is being recorded.                         *)
(***************************************************************************)
EXTENDS Office

VARIABLES
    order,      \* Order: which upload stored each number
    upload      \* uploads in progress and their answers

vars == <<order, upload>>

Answer == {"none", "Todos", "Alguns", "BadRequest", "InternalError"}
Upload == [pc : {"idle", "line", "insert", "answered"}, orders : Seq(Line), at : Nat,
           createdOrders : SUBSET Numbers, errors : SUBSET Nat, answer : Answer]

TypeOK ==
    /\ order \in [Numbers -> Handlers \cup {None}]
    /\ upload \in [Handlers -> Upload]

NoUpload == [pc |-> "idle", orders |-> <<>>, at |-> 1, createdOrders |-> {}, errors |-> {},
             answer |-> "none"]

Init ==
    /\ order = [n \in Numbers |-> None]
    /\ upload = [h \in Handlers |-> NoUpload]

-----------------------------------------------------------------------------
At(h, pc) == upload[h].pc = pc
Current(h) == upload[h].orders[upload[h].at]
MoreLines(h) == upload[h].at <= Len(upload[h].orders)

\* convertToISODate, and the fields that are asked for.
Acceptable(line) == line.data = "valid" /\ line.numero # None

\* errors.push, and the next line.
Reports(h) ==
    LET u == upload[h] IN
    upload' = [upload EXCEPT ![h] = [u EXCEPT !.pc = "line", !.errors = u.errors \cup {u.at},
                                              !.at = u.at + 1]]

UploadCall(h, file) ==
    /\ At(h, "idle")
    /\ upload' = [upload EXCEPT ![h] = [NoUpload EXCEPT !.pc = "line", !.orders = file]]
    /\ UNCHANGED order

LineRefused(h) ==
    /\ At(h, "line") /\ MoreLines(h)
    /\ ~ Current(h).isNull
    /\ Acceptable(Current(h)) => order[Current(h).numero] # None
    /\ Reports(h)
    /\ UNCHANGED order

LineRead(h) ==
    /\ At(h, "line") /\ MoreLines(h)
    /\ ~ Current(h).isNull
    /\ Acceptable(Current(h)) /\ order[Current(h).numero] = None
    /\ upload' = [upload EXCEPT ![h].pc = "insert"]
    /\ UNCHANGED order

\* order.numero is read of null once more in the catch.
LineIsNull(h) ==
    /\ At(h, "line") /\ MoreLines(h)
    /\ Current(h).isNull
    /\ upload' = [upload EXCEPT ![h] = [@ EXCEPT !.pc = "answered", !.answer = "InternalError"]]
    /\ UNCHANGED order

\* Mutant: the row another upload has made meanwhile is taken for one's own.
LineInsertOrFind(h) ==
    LET n == Current(h).numero  u == upload[h] IN
    /\ At(h, "insert")
    /\ Current(h).storable
    /\ order' = IF order[n] = None THEN [order EXCEPT ![n] = h] ELSE order
    /\ upload' = [upload EXCEPT ![h] = [u EXCEPT !.pc = "line", !.at = u.at + 1,
                                           !.createdOrders = u.createdOrders \cup {n}]]
\* @@unique([numero, tenantId])
LineInsert(h) ==
    LET n == Current(h).numero  u == upload[h] IN
    /\ At(h, "insert")
    /\ Current(h).storable /\ order[n] = None
    /\ order' = [order EXCEPT ![n] = h]
    /\ upload' = [upload EXCEPT ![h] = [u EXCEPT !.pc = "line", !.at = u.at + 1,
                                           !.createdOrders = u.createdOrders \cup {n}]]

\* The key is taken, a weight is not a number, or the database fails.
LineFails(h) ==
    /\ At(h, "insert")
    /\ Reports(h)
    /\ UNCHANGED order

UploadAnswer(h) ==
    LET u == upload[h] IN
    /\ At(h, "line") /\ ~ MoreLines(h)
    /\ upload' = [upload EXCEPT ![h] =
                    [u EXCEPT !.pc = "answered",
                              !.answer = IF u.errors = {} THEN "Todos"
                                         ELSE IF u.createdOrders = {} THEN "BadRequest"
                                         ELSE "Alguns"]]
    /\ UNCHANGED order

\* The process goes down: what has been stored stays, nobody is told.
Dies(h) ==
    /\ ~ At(h, "idle") /\ ~ At(h, "answered")
    /\ upload' = [upload EXCEPT ![h] = [@ EXCEPT !.pc = "answered", !.answer = "InternalError"]]
    /\ UNCHANGED order

UploadStep(h) ==
    LineRefused(h) \/ LineRead(h) \/ LineIsNull(h) \/ LineInsert(h) \/ LineFails(h)
      \/ UploadAnswer(h) \/ Dies(h)

Next == \E h \in Handlers : UploadStep(h) \/ \E file \in Files : UploadCall(h, file)

Spec == Init /\ [][Next]_vars

-----------------------------------------------------------------------------
(* Properties. *)

\* However uploads of the same numbers overlap: an upload that is refused has
\* stored nothing; one that answers names exactly the orders it stored itself,
\* each line is stored or reported, and "Todos" means all of them; so no two
\* uploads claim an order.
Stored(h) == {n \in Numbers : order[n] = h}
AnswersAreTrue ==
    \A h \in Handlers :
      LET u == upload[h]
          lines == 1 .. Len(u.orders)
      IN At(h, "answered") /\ u.answer # "InternalError" =>
           /\ u.createdOrders = Stored(h)
           /\ u.answer = "BadRequest" => Stored(h) = {} /\ u.errors = lines /\ lines # {}
           /\ u.answer = "Todos" => u.errors = {}
           /\ \A k \in lines \ u.errors : order[u.orders[k].numero] = h
=============================================================================
