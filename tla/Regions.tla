------------------------------- MODULE Regions -------------------------------
(***************************************************************************)
(* The regions (`Directions`) of the tenants, and the two readers that     *)
(* look an order's CEP up in them: freight and statistics.  From the       *)
(* freight and the tenant's rules follows whether a route needs approval.  *)
(*                                                                         *)
(* No constraint of the database keeps two regions of a tenant apart.  A   *)
(* handler looks for a namesake, then for an overlapping range, and writes *)
(* afterwards; what other handlers write in between it does not see.  The  *)
(* sequence that numbers the rows is in Fleet, who may change a tenant in  *)
(* Platform.  Amounts are whole numbers.                                   *)
(***************************************************************************)
EXTENDS Office

VARIABLES
    region,     \* Directions
    tenant,     \* Tenant: how freight is computed and when approval is asked for
    req,        \* handlers in flight
    quote,      \* freights being computed
    raced       \* history: rows one of which was written while another was checked

vars == <<region, tenant, req, quote, raced>>

Directions == [state : {"unborn", "live", "removed"}, regiao : Names \cup {None},
               rangeInicio : Ceps \cup {None}, rangeFim : Ceps \cup {None},
               valorDirecao : Nat \cup {None}]

Pc == {"idle", "createRange", "createWrite",
       "updateName", "updateRange", "updateWrite", "removeWrite"}

\* What a handler has read, and the rows written since it began to read.
Request == [pc : Pc, tenant : Tenants \cup {None}, id : Ids \cup {None}, dto : Patch,
            existing : Directions, stale : SUBSET Ids]

\* A freight on its way: what for, what has been read, and whether a region or a
\* tenant has been written since.
Quote == [pc : {"idle", "type", "fee", "distance", "pricing", "rules", "done"},
          purpose : {"preview", "create", "update"}, tenant : Tenants \cup {None},
          orders : Seq(Ceps), freightType : FreightTypes \cup {None},
          fee : Nat, priced : Seq(Ids \cup {None}), maxDirectionValue : Nat,
          valorFrete : Nat, rules : TenantRow \cup {None}, needsApproval : BOOLEAN,
          stale : BOOLEAN]

TypeOK ==
    /\ region \in [Ids -> Directions]
    /\ tenant \in [Tenants -> TenantRow]
    /\ req \in [Handlers -> Request]
    /\ quote \in [Quoters -> Quote]
    /\ raced \subseteq SUBSET Ids

NoPatch == [regiao |-> None, rangeInicio |-> None, rangeFim |-> None, valorDirecao |-> None]
Unborn == [state |-> "unborn", regiao |-> None, rangeInicio |-> None, rangeFim |-> None,
           valorDirecao |-> None]
NoRequest == [pc |-> "idle", tenant |-> None, id |-> None, dto |-> NoPatch,
              existing |-> Unborn, stale |-> {}]
NoQuote == [pc |-> "idle", purpose |-> "preview", tenant |-> None, orders |-> <<>>,
            freightType |-> None, fee |-> 0, priced |-> <<>>, maxDirectionValue |-> 0,
            valorFrete |-> 0, rules |-> None, needsApproval |-> FALSE, stale |-> FALSE]

Init ==
    /\ region = [i \in Ids |-> Unborn]
    /\ tenant \in [Tenants -> Settings]
    /\ req = [h \in Handlers |-> NoRequest]
    /\ quote = [q \in Quoters |-> NoQuote]
    /\ raced = {}

-----------------------------------------------------------------------------
At(h, pc) == req[h].pc = pc
Ends(h) == req' = [req EXCEPT ![h] = NoRequest]
GoesTo(h, pc) == req' = [req EXCEPT ![h].pc = pc]
Begins(h, pc, t, i, dto, row) ==
    req' = [req EXCEPT ![h] = [pc |-> pc, tenant |-> t, id |-> i, dto |-> dto,
                               existing |-> row, stale |-> {}]]
Reads == UNCHANGED <<region, tenant, quote, raced>>

Live(i) == region[i].state = "live"
RowsOf(t) == {i \in Ids : Live(i) /\ TenantOf[i] = t}

\* `dto.field ?? row.field`, for each field.
Patched(row, dto) ==
    [state |-> "live",
     regiao |-> IF dto.regiao = None THEN row.regiao ELSE dto.regiao,
     rangeInicio |-> IF dto.rangeInicio = None THEN row.rangeInicio ELSE dto.rangeInicio,
     rangeFim |-> IF dto.rangeFim = None THEN row.rangeFim ELSE dto.rangeFim,
     valorDirecao |-> IF dto.valorDirecao = None THEN row.valorDirecao ELSE dto.valorDirecao]

\* The row as the handler means to leave it.
Meant(h) == Patched(req[h].existing, req[h].dto)

Ordered(v) == Text[v.rangeInicio] <= Text[v.rangeFim]
Overlaps(v, w) ==
    /\ Text[v.rangeInicio] <= Text[w.rangeFim]
    /\ Text[w.rangeInicio] <= Text[v.rangeFim]
SameName(v, w) == Fold[v.regiao] = Fold[w.regiao]

\* findFirst of a namesake, and checkOverlap; the row under change does not count.
Others(h) == RowsOf(req[h].tenant) \ {req[h].id}
NameIsFree(h) == \A i \in Others(h) : ~ SameName(Meant(h), region[i])

\* Mutant: ranges that only touch are not seen to overlap.
RangeIsFreeStrictly(h) ==
    /\ Ordered(Meant(h))
    /\ \A i \in Others(h) :
         ~ (/\ Text[Meant(h).rangeInicio] < Text[region[i].rangeFim]
            /\ Text[region[i].rangeInicio] < Text[Meant(h).rangeFim])
RangeIsFree(h) ==
    /\ Ordered(Meant(h))
    /\ \A i \in Others(h) : ~ Overlaps(Meant(h), region[i])

QuotesAreStale ==
    quote' = [q \in Quoters |-> [quote[q] EXCEPT !.stale = quote[q].pc # "idle"]]

\* `h` writes row i and answers; whoever has already looked has not seen it.
Wrote(h, i) ==
    /\ raced' = raced \cup {{i, j} : j \in req[h].stale}
    /\ req' = [g \in Handlers |->
                 IF g = h THEN NoRequest
                 ELSE [req[g] EXCEPT !.stale = IF At(g, "idle") THEN @ ELSE @ \cup {i}]]
    /\ QuotesAreStale
    /\ UNCHANGED tenant

-----------------------------------------------------------------------------
(* DirectionsService. *)

CreateRead(h, t, dto) ==
    /\ At(h, "idle")
    /\ dto \in Drafts
    /\ \A i \in RowsOf(t) : ~ SameName(dto, region[i])
    /\ Begins(h, "createRange", t, None, dto, Unborn)
    /\ Reads

UpdateRead(h, t, i, dto) ==
    /\ At(h, "idle")
    /\ dto \in Patches
    /\ i \in RowsOf(t)
    /\ Begins(h, "updateName", t, i, dto, region[i])
    /\ Reads

\* A region that keeps its name is not looked for under it.
UpdateName(h) ==
    /\ At(h, "updateName")
    /\ IF req[h].dto.regiao \in {None, req[h].existing.regiao} \/ NameIsFree(h)
         THEN GoesTo(h, "updateRange") ELSE Ends(h)
    /\ Reads

CheckOverlap(h, pc, next) ==
    /\ At(h, pc)
    /\ IF RangeIsFree(h) THEN GoesTo(h, next) ELSE Ends(h)
    /\ Reads

CreateWrite(h) ==
    /\ At(h, "createWrite")
    /\ \E i \in Ids :
         /\ region[i].state = "unborn" /\ TenantOf[i] = req[h].tenant
         /\ region' = [region EXCEPT ![i] = Meant(h)]
         /\ Wrote(h, i)

\* Only the fields of the body are written; a row gone meanwhile is error 500.
UpdateWrite(h) ==
    LET i == req[h].id IN
    /\ At(h, "updateWrite")
    /\ IF Live(i)
         THEN /\ region' = [region EXCEPT ![i] = Patched(@, req[h].dto)]
              /\ Wrote(h, i)
         ELSE Ends(h) /\ Reads

RemoveRead(h, t, i) ==
    /\ At(h, "idle")
    /\ i \in RowsOf(t)
    /\ Begins(h, "removeWrite", t, i, NoPatch, region[i])
    /\ Reads

RemoveWrite(h) ==
    LET i == req[h].id IN
    /\ At(h, "removeWrite")
    /\ IF Live(i)
         THEN region' = [region EXCEPT ![i] = [Unborn EXCEPT !.state = "removed"]] /\ Wrote(h, i)
         ELSE Ends(h) /\ Reads

\* TenantService: the fields of the body, in one statement.
TenantUpdate(t, patch) ==
    /\ tenant' = [tenant EXCEPT ![t] =
                    [f \in DOMAIN @ |-> IF f \in DOMAIN patch THEN patch[f] ELSE @[f]]]
    /\ QuotesAreStale
    /\ UNCHANGED <<region, req, raced>>

\* A query fails, or the process goes down: nothing has been written yet.
Dies(h) == ~ At(h, "idle") /\ Ends(h) /\ Reads

-----------------------------------------------------------------------------
(* Freight and approval: one query for each order of the route, one for the *)
(* tenant by each that asks for it, and none of them in a transaction.      *)

\* Mutant: a CEP at the lower end of a range is outside of it.
CoveringOpen(t, c) ==
    {i \in RowsOf(t) : Text[region[i].rangeInicio] < Text[c] /\ Text[c] <= Text[region[i].rangeFim]}
Covering(t, c) ==
    {i \in RowsOf(t) : Text[region[i].rangeInicio] <= Text[c] /\ Text[c] <= Text[region[i].rangeFim]}

\* orderBy valorDirecao desc
Dearest(t, c) ==
    {i \in Covering(t, c) :
       \A j \in Covering(t, c) : region[j].valorDirecao <= region[i].valorDirecao}

Higher(a, b) == IF a > b THEN a ELSE b

\* Mutant: the percentage is a minimum.
PercentageTooLow(rules, valorFrete, totalValor) ==
    /\ rules.minDeliveryPercentage # None /\ totalValor > 0
    /\ valorFrete * 100 < rules.minDeliveryPercentage * totalValor
\* Called a minimum, it is the share of the value that the freight may not exceed.
PercentageTooHigh(rules, valorFrete, totalValor) ==
    /\ rules.minDeliveryPercentage # None /\ totalValor > 0
    /\ valorFrete * 100 > rules.minDeliveryPercentage * totalValor

Total(amount, orders) ==
    LET upTo[n \in 0 .. Len(orders)] ==
          IF n = 0 THEN 0 ELSE upTo[n - 1] + amount[orders[n]]
    IN upTo[Len(orders)]

\* TenantApprovalValidator
NeedsApproval(rules, orders, valorFrete) ==
    \/ PercentageTooHigh(rules, valorFrete, Total(Valor, orders))
    \/ rules.minValue # None /\ Total(Valor, orders) < rules.minValue
    \/ rules.minPeso # None /\ Total(Peso, orders) < rules.minPeso
    \/ rules.minOrders # None /\ Len(orders) < rules.minOrders

Asks(q, pc) == quote[q].pc = pc
Answers(q, r) == quote' = [quote EXCEPT ![q] = r] /\ UNCHANGED <<region, tenant, req, raced>>

\* create has the tenant's rules from the start.
QuoteCall(q, t, orders, purpose) ==
    /\ Asks(q, "idle")
    /\ Answers(q, [NoQuote EXCEPT !.pc = "type", !.purpose = purpose, !.tenant = t,
                                  !.orders = orders,
                                  !.rules = IF purpose = "create" THEN tenant[t] ELSE None])

\* FreightCalculatorFactory
QuoteType(q) ==
    LET type == tenant[quote[q].tenant].freightType IN
    /\ Asks(q, "type")
    /\ Answers(q, [quote[q] EXCEPT
         !.freightType = type,
         !.pc = IF type = "DIRECTION_AND_CATEGORY" THEN "pricing"
                ELSE IF type = "DISTANCE_BASED" THEN "distance" ELSE "fee"])

\* Without a price per delivery there is no freight, and no route.
QuoteFee(q) ==
    LET fee == tenant[quote[q].tenant].pricePerDelivery IN
    /\ Asks(q, "fee")
    /\ Answers(q, IF fee = None THEN NoQuote ELSE [quote[q] EXCEPT !.fee = fee, !.pc = "pricing"])

\* The provider of maps may refuse, too.
QuoteDistance(q) ==
    LET perKm == tenant[quote[q].tenant].pricePerKm IN
    /\ Asks(q, "distance")
    /\ \/ Answers(q, NoQuote)
       \/ /\ perKm # None
          /\ \E km \in Distances :
               Answers(q, [quote[q] EXCEPT !.valorFrete = km * perKm, !.pc = "rules"])

QuoteOrder(q) ==
    LET r == quote[q]
        c == r.orders[Len(r.priced) + 1]
    IN /\ Asks(q, "pricing") /\ Len(r.priced) < Len(r.orders)
       /\ \/ /\ Covering(r.tenant, c) = {}
             /\ Answers(q, [r EXCEPT !.priced = Append(@, None)])
          \/ \E i \in Dearest(r.tenant, c) :
               Answers(q, [r EXCEPT !.priced = Append(@, i),
                             !.maxDirectionValue = Higher(region[i].valorDirecao, @)])

Surcharge(freightType, fee, orders) ==
    IF freightType = "DIRECTION_AND_CATEGORY" THEN CategoryValue ELSE Len(orders) * fee

QuoteTotal(q) ==
    LET r == quote[q] IN
    /\ Asks(q, "pricing") /\ Len(r.priced) = Len(r.orders)
    /\ Answers(q, [r EXCEPT !.pc = "rules",
                            !.valorFrete = r.maxDirectionValue
                                             + Surcharge(r.freightType, r.fee, r.orders)])

\* update reads the rules when it has the freight; a preview has none.
QuoteRules(q) ==
    LET r == quote[q]
        rules == IF r.purpose = "update" THEN tenant[r.tenant] ELSE r.rules
    IN
    /\ Asks(q, "rules")
    /\ Answers(q, [r EXCEPT !.pc = "done", !.rules = rules,
                            !.needsApproval = /\ r.purpose # "preview"
                                              /\ NeedsApproval(rules, r.orders, r.valorFrete)])

QuoteAnswered(q) == Asks(q, "done") /\ Answers(q, NoQuote)

-----------------------------------------------------------------------------
RegionsStep(h) ==
    \/ UpdateName(h)
    \/ CheckOverlap(h, "createRange", "createWrite")
    \/ CheckOverlap(h, "updateRange", "updateWrite")
    \/ CreateWrite(h) \/ UpdateWrite(h) \/ RemoveWrite(h)
    \/ Dies(h)

RegionsCall(h, t) ==
    \/ \E dto \in Drafts : CreateRead(h, t, dto)
    \/ \E i \in Ids, dto \in Patches : UpdateRead(h, t, i, dto)
    \/ \E i \in Ids : RemoveRead(h, t, i)

QuoteStep(q) ==
    \/ QuoteType(q) \/ QuoteFee(q) \/ QuoteDistance(q)
    \/ QuoteOrder(q) \/ QuoteTotal(q) \/ QuoteRules(q) \/ QuoteAnswered(q)

RegionsNext == \E h \in Handlers : RegionsStep(h) \/ \E t \in Tenants : RegionsCall(h, t)

QuoteNext ==
    \E q \in Quoters :
      \/ QuoteStep(q)
      \/ \E t \in Tenants, orders \in Baskets, purpose \in {"preview", "create", "update"} :
           QuoteCall(q, t, orders, purpose)

TenantNext == \E t \in Tenants, patch \in SettingsPatches : TenantUpdate(t, patch)

Next == RegionsNext \/ QuoteNext \/ TenantNext

Spec == Init /\ [][Next]_vars

-----------------------------------------------------------------------------
(* Properties. *)

\* Two regions of a tenant clash, or one is upside down, only if one of the
\* rows was written between another handler's look at it and that handler's
\* own write.
Excused(i, j) == {{i}, {j}, {i, j}} \cap raced # {}
RegionsClashOnlyByRace ==
    /\ \A i \in Ids : Live(i) => Ordered(region[i]) \/ {i} \in raced
    /\ \A i, j \in Ids :
         /\ i # j /\ Live(i) /\ Live(j) /\ TenantOf[i] = TenantOf[j]
         /\ Overlaps(region[i], region[j]) \/ SameName(region[i], region[j])
         => Excused(i, j)

\* The regions statistics may find first for a CEP: by number, in no order.
RegionsOfNote(t, c) ==
    {i \in RowsOf(t) : /\ Number[region[i].rangeInicio] <= Number[c]
                       /\ Number[c] <= Number[region[i].rangeFim]}

\* Eight digits are the same as a string and as a number.
Plain(c) == Text[c] = Number[c]
PlainTable(t) == \A i \in RowsOf(t) : Plain(region[i].rangeInicio) /\ Plain(region[i].rangeFim)

\* A freight computed while neither region nor tenant was written, over regions
\* that never raced, is the dearest of the regions under which statistics counts
\* the orders and what the tenant now adds to it, each order priced by its own
\* region, where CEPs are plain; and approval is asked for by the tenant's rules
\* of that freight, though they were read apart from the prices.
Undisturbed(r) ==
    /\ r.pc = "done" /\ ~ r.stale /\ raced = {} /\ PlainTable(r.tenant)
    /\ \A n \in DOMAIN r.orders : Plain(r.orders[n])

PricedByRegion(r) ==
    LET found == [n \in DOMAIN r.orders |-> RegionsOfNote(r.tenant, r.orders[n])]
        values == {0} \cup {region[i].valorDirecao : i \in UNION {found[n] : n \in DOMAIN found}}
        row == tenant[r.tenant]
    IN row.freightType # "DISTANCE_BASED" =>
         /\ \A n \in DOMAIN found : found[n] = IF r.priced[n] = None THEN {} ELSE {r.priced[n]}
         /\ \E v \in values :
              /\ r.valorFrete = v + Surcharge(row.freightType, row.pricePerDelivery, r.orders)
              /\ \A w \in values : w <= v

\* The rules as a team would put them: a route goes unapproved if it is worth
\* enough, weighs enough, has orders enough and its freight is no more than the
\* share allowed of what it is worth.
GoesUnapproved(row, orders, valorFrete) ==
    LET enough(least, amount) == least = None \/ amount >= least IN
    /\ enough(row.minValue, Total(Valor, orders))
    /\ enough(row.minPeso, Total(Peso, orders))
    /\ enough(row.minOrders, Len(orders))
    /\ \/ row.minDeliveryPercentage = None \/ Total(Valor, orders) = 0
       \/ row.minDeliveryPercentage * Total(Valor, orders) >= valorFrete * 100

FreightAgreesWithStatistics ==
    \A q \in Quoters : Undisturbed(quote[q]) =>
      LET r == quote[q] IN
      /\ PricedByRegion(r)
      /\ r.purpose # "preview" =>
           (r.needsApproval <=> ~ GoesUnapproved(tenant[r.tenant], r.orders, r.valorFrete))
=============================================================================
