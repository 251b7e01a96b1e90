--------------------------- MODULE RegionsProofs ----------------------------
(***************************************************************************)
(* For any tenants, regions, handlers and freights: two regions of a       *)
(* tenant clash only if one of them was written between another handler's  *)
(* look at it and that handler's own write; and a freight nobody wrote     *)
(* past is the one that statistics and the tenant's rules arrive at.       *)
(*                                                                         *)
(* The argument is about what a handler still knows.  It has compared what *)
(* it means to write with every row of its tenant; where the comparison no *)
(* longer holds, the row is among those written since (`stale`), and so    *)
(* the handler's own write puts the pair into `raced`.  A handler that     *)
(* changes a row without renaming it has not looked for namesakes: it owes *)
(* that there are none to whoever named the row.                           *)
(*                                                                         *)
(* Of a freight on its way, FreightInv says that what it has gathered is   *)
(* what the tables hold, unless one of them was written past it.  Without  *)
(* clashes at most one region covers a CEP, and so the calculator and the  *)
(* statistics, which look for it differently, find the same one.           *)
(***************************************************************************)
EXTENDS OfficeSystem, WellFoundedInduction, TLAPS

Creating == {"createRange", "createWrite"}
Updating == {"updateName", "updateRange", "updateWrite"}

RegionTypes ==
    /\ region \in [Ids -> R!Directions]
    /\ regionsReq \in [Handlers -> R!Request]
    /\ raced \subseteq SUBSET Ids

\* The rows a handler has in hand are as it read them, or have been written.
Holds(h) ==
    /\ regionsReq[h].pc \in Creating => /\ regionsReq[h].id = None
                                        /\ regionsReq[h].tenant \in Tenants
                                        /\ regionsReq[h].existing = R!Unborn
                                        /\ regionsReq[h].dto \in Drafts
    /\ regionsReq[h].pc \in Updating => /\ regionsReq[h].id \in Ids
                                        /\ TenantOf[regionsReq[h].id] = regionsReq[h].tenant
                                        /\ regionsReq[h].existing.state = "live"
                                        /\ regionsReq[h].id \notin regionsReq[h].stale =>
                                             region[regionsReq[h].id] = regionsReq[h].existing
    /\ regionsReq[h].pc = "removeWrite" => regionsReq[h].id \in Ids

\* What the comparison of names has left to be excused.
NamesSeen(h) ==
    regionsReq[h].pc \in {"createRange", "createWrite", "updateRange", "updateWrite"} =>
      \A j \in R!Others(h) : R!SameName(R!Meant(h), region[j]) =>
        \/ j \in regionsReq[h].stale \/ regionsReq[h].id \in regionsReq[h].stale
        \/ regionsReq[h].id \in Ids /\ R!Excused(regionsReq[h].id, j)

\* What the comparison of ranges has.
RangesSeen(h) ==
    regionsReq[h].pc \in {"createWrite", "updateWrite"} =>
      /\ R!Ordered(R!Meant(h))
      /\ \A j \in R!Others(h) : R!Overlaps(R!Meant(h), region[j]) => j \in regionsReq[h].stale

Knows(h) == Holds(h) /\ NamesSeen(h) /\ RangesSeen(h)

ClashInv == RegionTypes /\ (\A h \in Handlers : Knows(h)) /\ R!RegionsClashOnlyByRace

-----------------------------------------------------------------------------
(* Two ways of leaving the rest alone.                                     *)

\* A handler looks, goes on, or ends.
Looks(h, r) ==
    /\ regionsReq' = [regionsReq EXCEPT ![h] = r]
    /\ region' = region /\ raced' = raced

\* A handler writes a row and ends.
Writes(h, i, row) ==
    /\ region' = [region EXCEPT ![i] = row]
    /\ R!Wrote(h, i)

LEMMA LooksLeavesOthers ==
    ASSUME RegionTypes, NEW h \in Handlers, NEW r \in R!Request, Looks(h, r),
           NEW g \in Handlers \ {h}, Knows(g)
    PROVE  Knows(g)'
<1>1. regionsReq'[g] = regionsReq[g] /\ region' = region /\ raced' = raced
  BY DEF Looks, RegionTypes
<1>2. R!Meant(g)' = R!Meant(g) /\ R!Others(g)' = R!Others(g)
  BY <1>1 DEF R!Meant, R!Others, R!RowsOf, R!Live
<1>3. QED
  BY <1>1, <1>2 DEF Knows, Holds, NamesSeen, RangesSeen, R!Excused

LEMMA LooksKeepsClashes ==
    ASSUME RegionTypes, NEW h \in Handlers, NEW r \in R!Request, Looks(h, r),
           R!RegionsClashOnlyByRace
    PROVE  RegionTypes' /\ R!RegionsClashOnlyByRace'
<1>1. RegionTypes'
  BY DEF Looks, RegionTypes
<1>2. R!RegionsClashOnlyByRace'
  BY DEF Looks, R!RegionsClashOnlyByRace, R!Excused, R!Live
<1>3. QED
  BY <1>1, <1>2

LEMMA Symmetric ==
    ASSUME NEW v, NEW w
    PROVE  /\ R!Overlaps(v, w) <=> R!Overlaps(w, v)
           /\ R!SameName(v, w) <=> R!SameName(w, v)
BY DEF R!Overlaps, R!SameName

LEMMA WriteStep ==
    ASSUME RegionTypes, NEW h \in Handlers, NEW i \in Ids, NEW row \in R!Directions,
           Writes(h, i, row)
    PROVE  /\ RegionTypes'
           /\ regionsReq'[h] = R!NoRequest
           /\ \A g \in Handlers \ {h} :
                /\ regionsReq'[g].pc = regionsReq[g].pc
                /\ regionsReq'[g].tenant = regionsReq[g].tenant
                /\ regionsReq'[g].id = regionsReq[g].id
                /\ regionsReq'[g].dto = regionsReq[g].dto
                /\ regionsReq'[g].existing = regionsReq[g].existing
                /\ regionsReq[g].pc # "idle" => regionsReq'[g].stale = regionsReq[g].stale \cup {i}
           /\ region'[i] = row
           /\ \A j \in Ids \ {i} : region'[j] = region[j]
           /\ raced \subseteq raced'
           /\ \A j \in regionsReq[h].stale : {i, j} \in raced'
<1>1. \A g \in Handlers : regionsReq[g] \in R!Request
  BY DEF RegionTypes
<1>2. R!NoRequest \in R!Request
  BY DEF R!NoRequest, R!Request, R!Pc, R!NoPatch, R!Unborn, R!Directions, R!Patch
<1>3. regionsReq' \in [Handlers -> R!Request]
  <2>1. \A g \in Handlers :
          [regionsReq[g] EXCEPT !.stale = IF R!At(g, "idle") THEN @ ELSE @ \cup {i}]
                              \in R!Request
    BY <1>1 DEF R!Request
  <2>2. QED
    BY <1>2, <2>1 DEF Writes, R!Wrote
<1>4. regionsReq[h].stale \subseteq Ids
  BY <1>1 DEF R!Request
<1>5. raced' \subseteq SUBSET Ids
  BY <1>4 DEF Writes, R!Wrote, RegionTypes
<1>6. region' \in [Ids -> R!Directions]
  BY DEF Writes, RegionTypes
<1>7. \A g \in Handlers \ {h} :
         /\ regionsReq'[g].pc = regionsReq[g].pc
         /\ regionsReq'[g].tenant = regionsReq[g].tenant
         /\ regionsReq'[g].id = regionsReq[g].id /\ regionsReq'[g].dto = regionsReq[g].dto
         /\ regionsReq'[g].existing = regionsReq[g].existing
         /\ regionsReq[g].pc # "idle" => regionsReq'[g].stale = regionsReq[g].stale \cup {i}
  <2> TAKE g \in Handlers \ {h}
  <2>1. regionsReq'[g] = [regionsReq[g] EXCEPT !.stale = IF R!At(g, "idle") THEN @ ELSE @ \cup {i}]
    BY DEF Writes, R!Wrote
  <2>2. QED
    BY <1>1, <2>1 DEF R!At, R!Request
<1>8. regionsReq'[h] = R!NoRequest
  BY DEF Writes, R!Wrote
<1>9. /\ region'[i] = row
      /\ \A j \in Ids \ {i} : region'[j] = region[j]
  BY DEF Writes, RegionTypes
<1>10. /\ raced \subseteq raced'
       /\ \A j \in regionsReq[h].stale : {i, j} \in raced'
  BY DEF Writes, R!Wrote
<1>11. QED
  BY <1>3, <1>5, <1>6, <1>7, <1>8, <1>9, <1>10 DEF RegionTypes

LEMMA WriteLeavesOthers ==
    ASSUME RegionTypes, NEW h \in Handlers, NEW i \in Ids, NEW row \in R!Directions,
           Writes(h, i, row), NEW g \in Handlers \ {h}, Knows(g)
    PROVE  Knows(g)'
<1>1. /\ regionsReq'[g].pc = regionsReq[g].pc
      /\ regionsReq'[g].tenant = regionsReq[g].tenant
      /\ regionsReq'[g].id = regionsReq[g].id /\ regionsReq'[g].dto = regionsReq[g].dto
      /\ regionsReq'[g].existing = regionsReq[g].existing
      /\ regionsReq[g].pc # "idle" => regionsReq'[g].stale = regionsReq[g].stale \cup {i}
      /\ \A j \in Ids \ {i} : region'[j] = region[j]
      /\ raced \subseteq raced'
  BY WriteStep
<1>2. R!Meant(g)' = R!Meant(g)
  BY <1>1 DEF R!Meant
<1>3. R!Others(g)' \subseteq R!Others(g) \cup {i} /\ R!Others(g) \subseteq Ids
  BY <1>1 DEF R!Others, R!RowsOf, R!Live
<1>4. Holds(g)'
  BY <1>1 DEF Knows, Holds, Creating, Updating
<1>5. NamesSeen(g)'
  BY <1>1, <1>2, <1>3 DEF Knows, NamesSeen, R!Excused
<1>6. RangesSeen(g)'
  BY <1>1, <1>2, <1>3 DEF Knows, RangesSeen
<1>7. QED
  BY <1>4, <1>5, <1>6 DEF Knows

\* A row may be written if whatever it clashes with is excused afterwards.
LEMMA WriteKeepsClashes ==
    ASSUME RegionTypes, NEW h \in Handlers, NEW i \in Ids, NEW row \in R!Directions,
           Writes(h, i, row), R!RegionsClashOnlyByRace,
           row.state = "live" => R!Ordered(row) \/ {i} \in raced',
           row.state = "live" =>
             \A j \in R!RowsOf(TenantOf[i]) \ {i} :
               R!Overlaps(row, region[j]) \/ R!SameName(row, region[j]) => R!Excused(i, j)'
    PROVE  R!RegionsClashOnlyByRace'
<1>1. /\ region'[i] = row
      /\ \A j \in Ids \ {i} : region'[j] = region[j]
      /\ raced \subseteq raced'
  BY WriteStep
<1>2. \A k \in Ids : R!Live(k)' => R!Ordered(region'[k]) \/ {k} \in raced'
  BY <1>1 DEF R!RegionsClashOnlyByRace, R!Live
<1>3. ASSUME NEW k \in Ids, NEW j \in Ids, k # j, R!Live(k)', R!Live(j)', TenantOf[k] = TenantOf[j],
             R!Overlaps(region'[k], region'[j]) \/ R!SameName(region'[k], region'[j])
      PROVE  R!Excused(k, j)'
  <2>1. CASE k = i
    BY <1>1, <1>3, <2>1 DEF R!RowsOf, R!Live
  <2>2. CASE j = i
    <3>1. R!Overlaps(row, region[k]) \/ R!SameName(row, region[k])
      BY <1>1, <1>3, <2>2, Symmetric
    <3>2. R!Excused(i, k)'
      BY <1>1, <1>3, <2>2, <3>1 DEF R!RowsOf, R!Live
    <3>3. {i, k} = {k, i}
      OBVIOUS
    <3>4. QED
      BY <2>2, <3>2, <3>3 DEF R!Excused
  <2>3. CASE k # i /\ j # i
    <3>1. R!Excused(k, j)
      BY <1>1, <1>3, <2>3 DEF R!RegionsClashOnlyByRace, R!Live
    <3>2. QED
      BY <1>1, <3>1 DEF R!Excused
  <2>4. QED
    BY <2>1, <2>2, <2>3
<1>4. QED
  BY <1>2, <1>3 DEF R!RegionsClashOnlyByRace

-----------------------------------------------------------------------------
(* ClashInv is inductive.                                                  *)

LEMMA ClashInit == R!Init => ClashInv
<1> SUFFICES ASSUME R!Init
             PROVE  ClashInv
  OBVIOUS
<1>1. RegionTypes
  BY DEF R!Init, RegionTypes, R!Unborn, R!Directions, R!NoRequest, R!NoPatch, R!Patch,
         R!Request, R!Pc
<1>2. \A h \in Handlers : Knows(h)
  BY DEF R!Init, R!NoRequest, Knows, Holds, NamesSeen, RangesSeen, Creating, Updating
<1>3. R!RegionsClashOnlyByRace
  BY DEF R!Init, R!Unborn, R!RegionsClashOnlyByRace, R!Live
<1>4. QED
  BY <1>1, <1>2, <1>3 DEF ClashInv

\* A request leads to a request.
LEMMA RequestsAreTyped ==
    ASSUME RegionTypes, NEW h \in Handlers
    PROVE  /\ R!NoRequest \in R!Request /\ R!Unborn \in R!Directions /\ R!NoPatch \in R!Patch
           /\ \A pc \in R!Pc : [regionsReq[h] EXCEPT !.pc = pc] \in R!Request
           /\ Drafts \subseteq R!Patch /\ Patches \subseteq R!Patch
<1>1. R!NoRequest \in R!Request /\ R!Unborn \in R!Directions /\ R!NoPatch \in R!Patch
  BY DEF R!NoRequest, R!Request, R!Pc, R!NoPatch, R!Unborn, R!Directions, R!Patch
<1>2. \A pc \in R!Pc : [regionsReq[h] EXCEPT !.pc = pc] \in R!Request
  <2>1. regionsReq[h] \in R!Request
    BY DEF RegionTypes
  <2>2. QED
    BY <2>1 DEF R!Request
<1>3. Drafts \subseteq R!Patch /\ Patches \subseteq R!Patch
  BY RegionsConfig DEF Patch, R!Patch
<1>4. QED
  BY <1>1, <1>2, <1>3

LEMMA Dropped ==
    ASSUME NEW h \in Handlers, RegionTypes, R!Ends(h)
    PROVE  Knows(h)'
BY DEF R!Ends, RegionTypes, R!NoRequest, Knows, Holds, NamesSeen, RangesSeen, Creating,
       Updating

\* Each step of a handler, seen as looking or as writing.
LEMMA LookStep ==
    ASSUME ClashInv, NEW h \in Handlers, NEW r \in R!Request, Looks(h, r), Knows(h)'
    PROVE  ClashInv'
<1>1. \A g \in Handlers \ {h} : Knows(g)'
  BY LooksLeavesOthers DEF ClashInv
<1>2. RegionTypes' /\ R!RegionsClashOnlyByRace'
  BY LooksKeepsClashes DEF ClashInv
<1>3. QED
  BY <1>1, <1>2 DEF ClashInv

LEMMA EndStep ==
    ASSUME ClashInv, NEW h \in Handlers, R!Ends(h), region' = region, raced' = raced
    PROVE  ClashInv'
<1>1. R!NoRequest \in R!Request
  BY RequestsAreTyped DEF ClashInv
<1>2. Looks(h, R!NoRequest)
  BY DEF R!Ends, Looks
<1>3. Knows(h)'
  BY Dropped DEF ClashInv
<1>4. QED
  BY <1>1, <1>2, <1>3, LookStep

\* A handler that goes on has in hand what it had.
LEMMA GoesOnStep ==
    ASSUME ClashInv, NEW h \in Handlers, NEW pc \in R!Pc, R!GoesTo(h, pc), R!Reads
    PROVE  /\ Looks(h, [regionsReq[h] EXCEPT !.pc = pc])
           /\ [regionsReq[h] EXCEPT !.pc = pc] \in R!Request
           /\ regionsReq'[h].pc = pc
           /\ regionsReq'[h].tenant = regionsReq[h].tenant
           /\ regionsReq'[h].id = regionsReq[h].id
           /\ regionsReq'[h].dto = regionsReq[h].dto
           /\ regionsReq'[h].existing = regionsReq[h].existing
           /\ regionsReq'[h].stale = regionsReq[h].stale
           /\ region' = region /\ raced' = raced
           /\ R!Meant(h)' = R!Meant(h) /\ R!Others(h)' = R!Others(h)
<1>1. /\ Looks(h, [regionsReq[h] EXCEPT !.pc = pc])
      /\ [regionsReq[h] EXCEPT !.pc = pc] \in R!Request
      /\ region' = region /\ raced' = raced
  BY RequestsAreTyped DEF ClashInv, R!GoesTo, R!Reads, Looks
<1>2. /\ regionsReq'[h].pc = pc
      /\ regionsReq'[h].tenant = regionsReq[h].tenant
      /\ regionsReq'[h].id = regionsReq[h].id
      /\ regionsReq'[h].dto = regionsReq[h].dto
      /\ regionsReq'[h].existing = regionsReq[h].existing
      /\ regionsReq'[h].stale = regionsReq[h].stale
  BY DEF ClashInv, RegionTypes, R!GoesTo, R!Request
<1>3. R!Meant(h)' = R!Meant(h) /\ R!Others(h)' = R!Others(h)
  BY <1>1, <1>2 DEF R!Meant, R!Others, R!RowsOf, R!Live
<1>4. QED
  BY <1>1, <1>2, <1>3

\* A handler that begins has in hand what it was given and what it read.
LEMMA BeginStep ==
    ASSUME ClashInv, NEW h \in Handlers, NEW pc \in R!Pc, NEW t \in Tenants,
           NEW i \in Ids \cup {None}, NEW dto \in R!Patch, NEW row \in R!Directions,
           R!Begins(h, pc, t, i, dto, row), R!Reads
    PROVE  \E r \in R!Request :
             /\ Looks(h, r)
             /\ regionsReq'[h] = r
             /\ r.pc = pc /\ r.tenant = t /\ r.id = i /\ r.dto = dto
             /\ r.existing = row /\ r.stale = {}
<1> DEFINE r == [pc |-> pc, tenant |-> t, id |-> i, dto |-> dto, existing |-> row, stale |-> {}]
<1>1. r \in R!Request
  BY DEF R!Request
<1>2. Looks(h, r) /\ regionsReq'[h] = r
  BY DEF R!Begins, Looks, R!Reads, ClashInv, RegionTypes
<1>3. QED
  BY <1>1, <1>2

LEMMA CreateReadKeeps ==
    ASSUME ClashInv, NEW h \in Handlers, NEW t \in Tenants, NEW dto \in Drafts,
           R!CreateRead(h, t, dto)
    PROVE  ClashInv'
<1>1. dto \in R!Patch /\ R!Unborn \in R!Directions /\ dto.regiao # None
  BY RequestsAreTyped, RegionsConfig DEF ClashInv
<1>2. PICK r \in R!Request : /\ Looks(h, r) /\ regionsReq'[h] = r
                             /\ r.pc = "createRange" /\ r.tenant = t /\ r.id = None
                             /\ r.dto = dto /\ r.existing = R!Unborn /\ r.stale = {}
  BY <1>1, BeginStep DEF R!CreateRead, R!Pc
<1>3. Holds(h)'
  BY <1>2 DEF Holds, Creating, Updating
<1>4. R!Meant(h)'.regiao = dto.regiao
  BY <1>1, <1>2 DEF R!Meant, R!Patched
<1>5. \A j \in R!Others(h)' : ~ R!SameName(R!Meant(h)', region'[j])
  BY <1>2, <1>4 DEF R!CreateRead, R!Reads, R!SameName, R!Others, R!RowsOf, R!Live
<1>6. Knows(h)'
  BY <1>2, <1>3, <1>5 DEF Knows, NamesSeen, RangesSeen
<1>7. QED
  BY <1>2, <1>6, LookStep

LEMMA UpdateReadKeeps ==
    ASSUME ClashInv, NEW h \in Handlers, NEW t \in Tenants, NEW i \in Ids, NEW dto \in Patches,
           R!UpdateRead(h, t, i, dto)
    PROVE  ClashInv'
<1>1. dto \in R!Patch /\ region[i] \in R!Directions
  BY RequestsAreTyped DEF ClashInv, RegionTypes
<1>2. PICK r \in R!Request : /\ Looks(h, r) /\ regionsReq'[h] = r
                             /\ r.pc = "updateName" /\ r.tenant = t /\ r.id = i
                             /\ r.dto = dto /\ r.existing = region[i] /\ r.stale = {}
  BY <1>1, BeginStep DEF R!UpdateRead, R!Pc
<1>3. Knows(h)'
  BY <1>2 DEF R!UpdateRead, R!Reads, R!RowsOf, R!Live, Knows, Holds, NamesSeen,
         RangesSeen, Creating, Updating
<1>4. QED
  BY <1>2, <1>3, LookStep

LEMMA RemoveReadKeeps ==
    ASSUME ClashInv, NEW h \in Handlers, NEW t \in Tenants, NEW i \in Ids, R!RemoveRead(h, t, i)
    PROVE  ClashInv'
<1>1. R!NoPatch \in R!Patch /\ region[i] \in R!Directions
  BY RequestsAreTyped DEF ClashInv, RegionTypes
<1>2. PICK r \in R!Request : /\ Looks(h, r) /\ regionsReq'[h] = r
                             /\ r.pc = "removeWrite" /\ r.tenant = t /\ r.id = i
                             /\ r.dto = R!NoPatch /\ r.existing = region[i] /\ r.stale = {}
  BY <1>1, BeginStep DEF R!RemoveRead, R!Pc
<1>3. Knows(h)'
  BY <1>2 DEF Knows, Holds, NamesSeen, RangesSeen, Creating, Updating
<1>4. QED
  BY <1>2, <1>3, LookStep

\* A region that keeps its name has whatever namesakes the table excused before.
LEMMA UpdateNameKeeps ==
    ASSUME ClashInv, NEW h \in Handlers, R!UpdateName(h)
    PROVE  ClashInv'
<1> DEFINE i == regionsReq[h].id
<1>1. CASE R!Ends(h) /\ R!Reads
  BY <1>1, EndStep DEF R!Reads
<1>2. CASE /\ regionsReq[h].dto.regiao \in {None, regionsReq[h].existing.regiao} \/ R!NameIsFree(h)
           /\ R!GoesTo(h, "updateRange") /\ R!Reads
  <2>1. Knows(h) /\ regionsReq[h].pc = "updateName"
    BY DEF ClashInv, R!UpdateName, R!At
  <2>2. /\ i \in Ids /\ TenantOf[i] = regionsReq[h].tenant /\ regionsReq[h].existing.state = "live"
        /\ (i \notin regionsReq[h].stale => region[i] = regionsReq[h].existing)
    BY <2>1 DEF Knows, Holds, Updating
  <2>3. \A j \in R!Others(h) : R!SameName(R!Meant(h), region[j]) =>
           j \in regionsReq[h].stale \/ i \in regionsReq[h].stale \/ R!Excused(i, j)
    <3>1. CASE R!NameIsFree(h)
      BY <3>1 DEF R!NameIsFree
    <3>2. CASE regionsReq[h].dto.regiao \in {None, regionsReq[h].existing.regiao} /\ i \notin regionsReq[h].stale
      <4>1. R!Meant(h).regiao = region[i].regiao
        BY <2>2, <3>2 DEF R!Meant, R!Patched
      <4>2. ASSUME NEW j \in R!Others(h), R!SameName(R!Meant(h), region[j])
            PROVE  R!Excused(i, j)
        <5>1. R!SameName(region[i], region[j])
          BY <4>1, <4>2 DEF R!SameName
        <5>2. R!Live(i) /\ R!Live(j) /\ j # i /\ j \in Ids /\ TenantOf[j] = TenantOf[i]
          BY <2>2, <3>2, <4>2 DEF R!Others, R!RowsOf, R!Live
        <5>3. QED
          BY <2>2, <5>1, <5>2 DEF ClashInv, R!RegionsClashOnlyByRace
      <4>3. QED
        BY <2>2, <4>2
    <3>3. QED
      BY <1>2, <3>1, <3>2
  <2>4. Knows(h)'
    BY <1>2, <2>1, <2>2, <2>3, GoesOnStep DEF R!Pc, Knows, Holds, NamesSeen, RangesSeen,
           Creating,
       Updating, R!Excused
  <2>5. QED
    BY <1>2, <2>4, GoesOnStep, LookStep DEF R!Pc
<1>3. QED
  BY <1>1, <1>2 DEF R!UpdateName

LEMMA CheckOverlapKeeps ==
    ASSUME ClashInv, NEW h \in Handlers,
           \/ R!CheckOverlap(h, "createRange", "createWrite")
           \/ R!CheckOverlap(h, "updateRange", "updateWrite")
    PROVE  ClashInv'
<1>1. ASSUME NEW pc, NEW next \in R!Pc, R!CheckOverlap(h, pc, next),
             \/ pc = "createRange" /\ next = "createWrite"
             \/ pc = "updateRange" /\ next = "updateWrite"
      PROVE  ClashInv'
  <2>1. CASE R!Ends(h) /\ R!Reads
    BY <2>1, EndStep DEF R!Reads
  <2>2. CASE R!RangeIsFree(h) /\ R!GoesTo(h, next) /\ R!Reads
    <3>1. Knows(h) /\ regionsReq[h].pc = pc
      BY <1>1 DEF ClashInv, R!CheckOverlap, R!At
    <3>2. R!Ordered(R!Meant(h)) /\ \A j \in R!Others(h) : ~ R!Overlaps(R!Meant(h), region[j])
      BY <2>2 DEF R!RangeIsFree
    <3>3. Knows(h)'
      <4>1. /\ regionsReq'[h].pc = next
            /\ regionsReq'[h].tenant = regionsReq[h].tenant
            /\ regionsReq'[h].id = regionsReq[h].id
            /\ regionsReq'[h].dto = regionsReq[h].dto
            /\ regionsReq'[h].existing = regionsReq[h].existing
            /\ regionsReq'[h].stale = regionsReq[h].stale
            /\ region' = region /\ raced' = raced
            /\ R!Meant(h)' = R!Meant(h) /\ R!Others(h)' = R!Others(h)
        BY <2>2, GoesOnStep
      <4>2. Holds(h)'
        BY <1>1, <3>1, <4>1 DEF Knows, Holds, Creating, Updating
      <4>3. NamesSeen(h)'
        BY <1>1, <3>1, <4>1 DEF Knows, NamesSeen, R!Excused
      <4>4. RangesSeen(h)'
        BY <3>2, <4>1 DEF RangesSeen
      <4>5. QED
        BY <4>2, <4>3, <4>4 DEF Knows
    <3>4. QED
      BY <2>2, <3>3, GoesOnStep, LookStep
  <2>3. QED
    BY <1>1, <2>1, <2>2 DEF R!CheckOverlap
<1>2. QED
  BY <1>1 DEF R!Pc

\* What is put together of a row and a body is a row.
LEMMA PatchedIsARow ==
    ASSUME NEW row \in R!Directions, NEW dto \in R!Patch
    PROVE  R!Patched(row, dto) \in R!Directions
BY DEF R!Patched, R!Directions, R!Patch

LEMMA WriteKeeps ==
    ASSUME ClashInv, NEW h \in Handlers, NEW i \in Ids, NEW row \in R!Directions,
           Writes(h, i, row),
           row.state = "live" => R!Ordered(row) \/ {i} \in raced',
           row.state = "live" =>
             \A j \in R!RowsOf(TenantOf[i]) \ {i} :
               R!Overlaps(row, region[j]) \/ R!SameName(row, region[j]) => R!Excused(i, j)'
    PROVE  ClashInv'
<1>1. RegionTypes' /\ regionsReq'[h] = R!NoRequest
  BY WriteStep DEF ClashInv
<1>2. R!RegionsClashOnlyByRace'
  BY WriteKeepsClashes DEF ClashInv
<1>3. \A g \in Handlers \ {h} : Knows(g)'
  BY WriteLeavesOthers DEF ClashInv
<1>4. Knows(h)'
  BY <1>1 DEF R!NoRequest, Knows, Holds, NamesSeen, RangesSeen, Creating, Updating
<1>5. QED
  BY <1>1, <1>2, <1>3, <1>4 DEF ClashInv

\* A new row clashes only with rows it was not compared with.
LEMMA CreateWriteKeeps ==
    ASSUME ClashInv, NEW h \in Handlers, R!CreateWrite(h)
    PROVE  ClashInv'
<1>1. PICK i \in Ids : /\ region[i].state = "unborn" /\ TenantOf[i] = regionsReq[h].tenant
                       /\ Writes(h, i, R!Meant(h))
  BY DEF R!CreateWrite, Writes
<1>2. Knows(h) /\ regionsReq[h].pc = "createWrite" /\ regionsReq[h] \in R!Request
  BY DEF ClashInv, RegionTypes, R!CreateWrite, R!At
<1>3. regionsReq[h].id = None /\ None \notin Ids /\ regionsReq[h].stale \subseteq Ids
  BY <1>2, RowsConfig DEF Knows, Holds, Creating, R!Request
<1>4. R!Meant(h) \in R!Directions
  BY <1>2, PatchedIsARow DEF R!Meant, R!Request
<1>5. \A j \in R!RowsOf(TenantOf[i]) : j \in R!Others(h)
  BY <1>1, <1>3 DEF R!Others, R!RowsOf
<1>6. ASSUME NEW j \in R!RowsOf(TenantOf[i]) \ {i},
             R!Overlaps(R!Meant(h), region[j]) \/ R!SameName(R!Meant(h), region[j])
      PROVE  R!Excused(i, j)'
  <2>1. j \in regionsReq[h].stale
    BY <1>2, <1>3, <1>5, <1>6 DEF Knows, NamesSeen, RangesSeen
  <2>2. {i, j} \in raced'
    BY <1>1, <1>4, <2>1, WriteStep DEF ClashInv
  <2>3. QED
    BY <2>2 DEF R!Excused
<1>7. R!Ordered(R!Meant(h))
  BY <1>2 DEF Knows, RangesSeen
<1>8. QED
  BY <1>1, <1>4, <1>6, <1>7, WriteKeeps

\* So does a changed one, if it is still as it was read; if it is not, it raced.
LEMMA UpdateWriteKeeps ==
    ASSUME ClashInv, NEW h \in Handlers, R!UpdateWrite(h)
    PROVE  ClashInv'
<1>0. PICK i \in Ids : i = regionsReq[h].id
  BY DEF ClashInv, R!UpdateWrite, R!At, Knows, Holds, Updating
<1> DEFINE row == R!Patched(region[i], regionsReq[h].dto)
<1>1. CASE R!Ends(h) /\ R!Reads
  BY <1>1, EndStep DEF R!Reads
<1>2. CASE R!Live(i) /\ Writes(h, i, row)
  <2>1. Knows(h) /\ regionsReq[h].pc = "updateWrite" /\ regionsReq[h] \in R!Request
    BY DEF ClashInv, RegionTypes, R!UpdateWrite, R!At
  <2>2. /\ TenantOf[i] = regionsReq[h].tenant
        /\ i \notin regionsReq[h].stale => region[i] = regionsReq[h].existing
    BY <1>0, <2>1 DEF Knows, Holds, Updating
  <2>3. row \in R!Directions
    BY <2>1, PatchedIsARow DEF ClashInv, RegionTypes, R!Request
  <2>4. /\ raced \subseteq raced'
        /\ \A j \in regionsReq[h].stale : {i, j} \in raced'
    BY <1>0, <1>2, <2>3, WriteStep DEF ClashInv
  <2>5. CASE i \in regionsReq[h].stale
    <3>1. {i} \in raced'
      BY <1>0, <2>4, <2>5
    <3>2. \A j \in Ids : R!Excused(i, j)'
      BY <3>1 DEF R!Excused
    <3>3. QED
      BY <1>2, <2>3, <3>1, <3>2, WriteKeeps DEF R!RowsOf
  <2>6. CASE i \notin regionsReq[h].stale
    <3>1. row = R!Meant(h)
      BY <1>0, <2>2, <2>6 DEF R!Meant
    <3>2. ASSUME NEW j \in R!RowsOf(TenantOf[i]) \ {i},
                 R!Overlaps(row, region[j]) \/ R!SameName(row, region[j])
          PROVE  R!Excused(i, j)'
      <4>1. j \in regionsReq[h].stale \/ R!Excused(i, j)
        BY <1>0, <2>1, <2>2, <2>6, <3>1, <3>2 DEF Knows, NamesSeen, RangesSeen, R!Others
      <4>2. QED
        BY <2>4, <4>1 DEF R!Excused
    <3>3. R!Ordered(row)
      BY <2>1, <3>1 DEF Knows, RangesSeen
    <3>4. QED
      BY <1>2, <2>3, <3>2, <3>3, WriteKeeps
  <2>7. QED
    BY <2>5, <2>6
<1>3. QED
  BY <1>0, <1>1, <1>2 DEF R!UpdateWrite, Writes

LEMMA RemoveWriteKeeps ==
    ASSUME ClashInv, NEW h \in Handlers, R!RemoveWrite(h)
    PROVE  ClashInv'
<1> DEFINE row == [R!Unborn EXCEPT !.state = "removed"]
<1>1. CASE R!Ends(h) /\ R!Reads
  BY <1>1, EndStep DEF R!Reads
<1>2. CASE Writes(h, regionsReq[h].id, row)
  <2>1. regionsReq[h].id \in Ids
    BY DEF ClashInv, Knows, Holds, R!RemoveWrite, R!At
  <2>2. row \in R!Directions /\ row.state # "live"
    BY DEF R!Unborn, R!Directions
  <2>3. QED
    BY <1>2, <2>1, <2>2, WriteKeeps
<1>3. QED
  BY <1>1, <1>2 DEF R!RemoveWrite, Writes

LEMMA ClashNext == ClashInv /\ [R!Next]_R!vars => ClashInv'
<1> SUFFICES ASSUME ClashInv, [R!Next]_R!vars
             PROVE  ClashInv'
  OBVIOUS
<1>1. CASE region' = region /\ regionsReq' = regionsReq /\ raced' = raced
  BY <1>1 DEF ClashInv, RegionTypes, Knows, Holds, NamesSeen, RangesSeen,
         R!RegionsClashOnlyByRace,
     R!Meant, R!Others, R!RowsOf, R!Live, R!Excused
<1>2. ASSUME NEW h \in Handlers, NEW t \in Tenants, R!RegionsCall(h, t)
      PROVE  ClashInv'
  BY <1>2, CreateReadKeeps, UpdateReadKeeps, RemoveReadKeeps DEF R!RegionsCall
<1>3. ASSUME NEW h \in Handlers, R!RegionsStep(h)
      PROVE  ClashInv'
  <2>1. CASE R!Dies(h)
    BY <2>1, EndStep DEF R!Dies, R!Reads
  <2>2. QED
    BY <1>3, <2>1, UpdateNameKeeps, CheckOverlapKeeps, CreateWriteKeeps, UpdateWriteKeeps,
       RemoveWriteKeeps DEF R!RegionsStep
<1>4. CASE R!QuoteNext \/ R!TenantNext \/ UNCHANGED R!vars
  <2>1. region' = region /\ regionsReq' = regionsReq /\ raced' = raced
    BY <1>4 DEF R!QuoteNext, R!QuoteStep, R!QuoteCall, R!QuoteType, R!QuoteFee,
           R!QuoteDistance, R!QuoteOrder,
       R!QuoteTotal, R!QuoteRules, R!QuoteAnswered, R!Answers, R!TenantNext, R!TenantUpdate, R!vars
  <2>2. QED
    BY <1>1, <2>1
<1>5. QED
  BY <1>2, <1>3, <1>4 DEF R!Next, R!RegionsNext

\* Whatever overlaps with whatever, two regions of a tenant that clash were
\* written past each other (DirectionsService.checkOverlap, create and update).
THEOREM ClashesAreRaces == R!Spec => []RegionsClashOnlyByRace
<1>1. ClashInv => RegionsClashOnlyByRace
  BY DEF ClashInv, RegionsClashOnlyByRace
<1>2. QED
  BY ClashInit, ClashNext, <1>1, PTL DEF R!Spec

-----------------------------------------------------------------------------
(* Freight.  What a freight has read is still what the tables say, as long *)
(* as no region and no tenant has been written since it began.             *)

QuoteTypes ==
    /\ quote \in [Quoters -> R!Quote]
    /\ tenant \in [Tenants -> R!TenantRow]
    /\ \A q \in Quoters : quote[q].pc # "idle" => /\ quote[q].tenant \in Tenants
                                                  /\ quote[q].orders \in Seq(Ceps)

\* A region has its range and its value as long as it lives.
RegionsAreWhole ==
    \A i \in Ids : R!Live(i) => /\ region[i].rangeInicio \in Ceps
                                /\ region[i].rangeFim \in Ceps
                                /\ region[i].valorDirecao \in Nat

\* The highest of what the regions that priced the first orders are worth.
Worth(r) ==
    {0} \cup {region[r.priced[n]].valorDirecao :
                 n \in {m \in DOMAIN r.priced : r.priced[m] # None}}

PricedSoFar(r) ==
    /\ Len(r.priced) <= Len(r.orders)
    /\ \A n \in DOMAIN r.priced :
         IF r.priced[n] = None THEN R!Covering(r.tenant, r.orders[n]) = {}
         ELSE r.priced[n] \in R!Covering(r.tenant, r.orders[n])
    /\ r.maxDirectionValue \in Worth(r)
    /\ \A v \in Worth(r) : v <= r.maxDirectionValue

ByRegion(r) == r.pc \in {"pricing", "rules", "done"} /\ r.freightType # "DISTANCE_BASED"

TypeSeen(r, row) ==
    /\ r.pc \in {"fee", "distance", "pricing", "rules", "done"} =>
          r.freightType = row.freightType
    /\ r.pc = "fee" => r.freightType \notin {"DIRECTION_AND_CATEGORY", "DISTANCE_BASED"}
    /\ r.pc = "distance" => r.freightType = "DISTANCE_BASED"
    /\ r.pc = "pricing" => r.freightType # "DISTANCE_BASED"

PricesSeen(r, row) ==
    /\ r.pc \in {"type", "fee"} => r.priced = <<>> /\ r.maxDirectionValue = 0
    /\ ByRegion(r) => PricedSoFar(r)
    /\ r.pc = "pricing" /\ r.freightType # "DIRECTION_AND_CATEGORY" =>
          r.fee = row.pricePerDelivery
    /\ ByRegion(r) /\ r.pc # "pricing" =>
          /\ Len(r.priced) = Len(r.orders)
          /\ r.valorFrete = r.maxDirectionValue
                              + R!Surcharge(r.freightType, row.pricePerDelivery, r.orders)

RulesSeen(r, row) ==
    /\ r.purpose = "create" => r.rules = row
    /\ r.pc = "done" /\ r.purpose # "preview" =>
          r.needsApproval = R!NeedsApproval(row, r.orders, r.valorFrete)

Seen(r, row) == TypeSeen(r, row) /\ PricesSeen(r, row) /\ RulesSeen(r, row)

\* (`r` and `row` are bound to their values, so that only `region` is read anew
\* after a step.)
QuotesHold ==
    \A q \in Quoters : \A r \in {quote[q]} :
      r.pc # "idle" /\ ~ r.stale => \A row \in {tenant[r.tenant]} : Seen(r, row)

FreightInv == QuoteTypes /\ RegionsAreWhole /\ QuotesHold

-----------------------------------------------------------------------------
(* FreightInv is inductive, together with what ClashInv says of a handler. *)

\* The rows are those of Office, by either name.
LEMMA SameRows == R!TenantRow = TenantRow
BY DEF R!TenantRow, TenantRow, R!FreightTypes, FreightTypes

LEMMA NoQuoteIsAQuote == R!NoQuote \in R!Quote /\ R!NoQuote.pc = "idle"
<1>1. <<>> \in Seq(Ceps) /\ <<>> \in Seq(Ids \cup {None})
  OBVIOUS
<1>2. QED
  BY <1>1 DEF R!NoQuote, R!Quote

LEMMA FreightInit == R!Init => FreightInv
<1> SUFFICES ASSUME R!Init
             PROVE  FreightInv
  OBVIOUS
<1>1. \A q \in Quoters : quote[q] \in R!Quote /\ quote[q].pc = "idle"
  BY NoQuoteIsAQuote DEF R!Init
<1>2. QuoteTypes
  BY <1>1, RegionsConfig, SameRows DEF R!Init, QuoteTypes
<1>3. RegionsAreWhole
  BY DEF R!Init, RegionsAreWhole, R!Live, R!Unborn
<1>4. QuotesHold
  BY <1>1 DEF QuotesHold
<1>5. QED
  BY <1>2, <1>3, <1>4 DEF FreightInv

\* What a freight has seen it still sees when nobody writes a region.
LEMMA SeenStays ==
    ASSUME NEW r, NEW row, Seen(r, row), region' = region
    PROVE  Seen(r, row)'
<1>1. TypeSeen(r, row)' /\ RulesSeen(r, row)'
  BY DEF Seen, TypeSeen, RulesSeen
<1>2. PricedSoFar(r) => PricedSoFar(r)'
  BY DEF PricedSoFar, Worth, R!Covering, R!RowsOf, R!Live
<1>3. PricesSeen(r, row)'
  BY <1>2 DEF Seen, PricesSeen, ByRegion
<1>4. QED
  BY <1>1, <1>3 DEF Seen

LEMMA NothingMoves ==
    ASSUME FreightInv, UNCHANGED <<region, tenant, quote>>
    PROVE  FreightInv'
<1>1. QuoteTypes' /\ RegionsAreWhole'
  BY DEF FreightInv, QuoteTypes, RegionsAreWhole, R!Live
<1>2. QuotesHold'
  BY SeenStays DEF FreightInv, QuotesHold
<1>3. QED
  BY <1>1, <1>2 DEF FreightInv

\* After a write every freight under way is stale.
LEMMA WrittenPast ==
    ASSUME QuoteTypes, RegionsAreWhole', tenant' \in [Tenants -> R!TenantRow], R!QuotesAreStale
    PROVE  FreightInv'
<1>1. \A q \in Quoters : quote[q] \in R!Quote
  BY DEF QuoteTypes
<1>2. \A q \in Quoters :
        /\ quote'[q] \in R!Quote
        /\ quote'[q].pc = quote[q].pc /\ quote'[q].tenant = quote[q].tenant
        /\ quote'[q].orders = quote[q].orders
        /\ quote'[q].pc # "idle" => quote'[q].stale
  <2> TAKE q \in Quoters
  <2>1. quote'[q] = [quote[q] EXCEPT !.stale = quote[q].pc # "idle"]
    BY DEF R!QuotesAreStale
  <2>2. (quote[q].pc # "idle") \in BOOLEAN
    OBVIOUS
  <2>3. QED
    BY <1>1, <2>1, <2>2 DEF R!Quote
<1>3. quote' \in [Quoters -> R!Quote]
  BY <1>2 DEF R!QuotesAreStale
<1>4. QuoteTypes'
  BY <1>2, <1>3 DEF QuoteTypes
<1>5. QuotesHold'
  BY <1>2 DEF QuotesHold
<1>6. QED
  BY <1>4, <1>5 DEF FreightInv

\* A freight goes on, and the others wait.
LEMMA AnswersStep ==
    ASSUME FreightInv, NEW q \in Quoters, NEW r \in R!Quote, R!Answers(q, r),
           r.pc # "idle" => r.tenant \in Tenants /\ r.orders \in Seq(Ceps),
           r.pc # "idle" /\ ~ r.stale => Seen(r, tenant[r.tenant])
    PROVE  FreightInv'
<1>1. /\ quote' = [quote EXCEPT ![q] = r] /\ quote \in [Quoters -> R!Quote]
      /\ region' = region /\ tenant' = tenant
  BY DEF FreightInv, QuoteTypes, R!Answers
<1>2. QuoteTypes'
  BY <1>1 DEF FreightInv, QuoteTypes
<1>3. RegionsAreWhole'
  BY <1>1 DEF FreightInv, RegionsAreWhole, R!Live
<1>4. ASSUME NEW p \in Quoters, NEW s \in {quote'[p]}, s.pc # "idle", ~ s.stale,
             NEW row \in {tenant'[s.tenant]}
      PROVE  Seen(s, row)'
  <2>1. Seen(s, row)
    <3>1. CASE p = q
      BY <1>1, <1>4, <3>1
    <3>2. CASE p # q
      BY <1>1, <1>4, <3>2 DEF FreightInv, QuotesHold
    <3>3. QED
      BY <3>1, <3>2
  <2>2. QED
    BY <1>1, <2>1, SeenStays
<1>5. QuotesHold'
  BY <1>4 DEF QuotesHold
<1>6. QED
  BY <1>2, <1>3, <1>5 DEF FreightInv

LEMMA FreightEnds ==
    ASSUME FreightInv, NEW q \in Quoters, R!Answers(q, R!NoQuote)
    PROVE  FreightInv'
BY NoQuoteIsAQuote, AnswersStep

LEMMA QuoteCallKeeps ==
    ASSUME FreightInv, NEW q \in Quoters, NEW t \in Tenants, NEW orders \in Baskets,
           NEW purpose \in {"preview", "create", "update"},
           R!QuoteCall(q, t, orders, purpose)
    PROVE  FreightInv'
<1> DEFINE rules == IF purpose = "create" THEN tenant[t] ELSE None
           r == [R!NoQuote EXCEPT !.pc = "type", !.purpose = purpose, !.tenant = t,
                                  !.orders = orders, !.rules = rules]
<1>1. R!Answers(q, r)
  BY DEF R!QuoteCall
<1>2. orders \in Seq(Ceps) /\ rules \in R!TenantRow \cup {None}
  BY RegionsConfig DEF FreightInv, QuoteTypes
<1>3. /\ r.pc = "type" /\ r.purpose = purpose /\ r.tenant = t /\ r.orders = orders
      /\ r.rules = rules /\ r.priced = <<>> /\ r.maxDirectionValue = 0
  BY DEF R!NoQuote
<1> HIDE DEF rules
<1>4. r \in R!Quote
  BY <1>2, NoQuoteIsAQuote DEF R!Quote
<1> HIDE DEF r
<1>5. Seen(r, tenant[t])
  BY <1>3 DEF rules, Seen, TypeSeen, PricesSeen, RulesSeen, ByRegion
<1>6. QED
  BY <1>1, <1>2, <1>3, <1>4, <1>5, AnswersStep

\* What each step of a freight starts from.
LEMMA QuoteNow ==
    ASSUME FreightInv, NEW q \in Quoters, NEW r, r = quote[q], r.pc # "idle"
    PROVE  /\ r \in R!Quote /\ r.tenant \in Tenants /\ r.orders \in Seq(Ceps)
           /\ tenant[r.tenant] \in R!TenantRow
           /\ ~ r.stale => Seen(r, tenant[r.tenant])
BY DEF FreightInv, QuoteTypes, QuotesHold

LEMMA QuoteTypeKeeps ==
    ASSUME FreightInv, NEW q \in Quoters, R!QuoteType(q)
    PROVE  FreightInv'
<1>1. PICK r : r = quote[q]
  OBVIOUS
<1>2. PICK row : row = tenant[r.tenant]
  OBVIOUS
<1>3. /\ r.pc = "type" /\ r \in R!Quote /\ r.tenant \in Tenants /\ r.orders \in Seq(Ceps)
      /\ row \in R!TenantRow
      /\ ~ r.stale => Seen(r, row)
  BY <1>1, <1>2, QuoteNow DEF R!QuoteType, R!Asks
<1> DEFINE pc == IF row.freightType = "DIRECTION_AND_CATEGORY" THEN "pricing"
                 ELSE IF row.freightType = "DISTANCE_BASED" THEN "distance" ELSE "fee"
           s == [r EXCEPT !.freightType = row.freightType, !.pc = pc]
<1>4. R!Answers(q, s)
  BY <1>1, <1>2 DEF R!QuoteType
<1>5. /\ s.pc = pc /\ s.freightType = row.freightType /\ s.tenant = r.tenant
      /\ s.orders = r.orders /\ s.stale = r.stale /\ s.priced = r.priced
      /\ s.maxDirectionValue = r.maxDirectionValue /\ s.purpose = r.purpose
      /\ s.rules = r.rules
  BY <1>3 DEF R!Quote
<1>6. pc \in {"pricing", "distance", "fee"} /\ row.freightType \in R!FreightTypes
  BY <1>3 DEF R!TenantRow
<1>7. s \in R!Quote
  BY <1>3, <1>6 DEF R!Quote
<1> HIDE DEF s
<1>8. ASSUME ~ r.stale
      PROVE  Seen(s, row)
  <2>1. s.priced = <<>> /\ s.maxDirectionValue = 0
    BY <1>3, <1>5, <1>8 DEF Seen, PricesSeen
  <2>2. PricedSoFar(s)
    BY <1>3, <1>5, <2>1 DEF PricedSoFar, Worth
  <2>3. TypeSeen(s, row)
    BY <1>5, <1>6 DEF TypeSeen
  <2>4. PricesSeen(s, row)
    BY <1>5, <1>6, <2>1, <2>2 DEF PricesSeen, ByRegion
  <2>5. RulesSeen(s, row)
    BY <1>3, <1>5, <1>6, <1>8 DEF Seen, RulesSeen
  <2>6. QED
    BY <2>3, <2>4, <2>5 DEF Seen
<1>9. QED
  BY <1>2, <1>3, <1>4, <1>5, <1>7, <1>8, AnswersStep

LEMMA QuoteFeeKeeps ==
    ASSUME FreightInv, NEW q \in Quoters, R!QuoteFee(q)
    PROVE  FreightInv'
<1>1. PICK r : r = quote[q]
  OBVIOUS
<1>2. PICK row : row = tenant[r.tenant]
  OBVIOUS
<1>3. /\ r.pc = "fee" /\ r \in R!Quote /\ r.tenant \in Tenants /\ r.orders \in Seq(Ceps)
      /\ row \in R!TenantRow
      /\ ~ r.stale => Seen(r, row)
  BY <1>1, <1>2, QuoteNow DEF R!QuoteFee, R!Asks
<1>4. CASE row.pricePerDelivery = None
  BY <1>1, <1>2, <1>4, FreightEnds DEF R!QuoteFee
<1>5. CASE row.pricePerDelivery # None
  <2> DEFINE s == [r EXCEPT !.fee = row.pricePerDelivery, !.pc = "pricing"]
  <2>1. R!Answers(q, s)
    BY <1>1, <1>2, <1>5 DEF R!QuoteFee
  <2>2. /\ s.pc = "pricing" /\ s.fee = row.pricePerDelivery /\ s.tenant = r.tenant
        /\ s.orders = r.orders /\ s.stale = r.stale /\ s.priced = r.priced
        /\ s.maxDirectionValue = r.maxDirectionValue /\ s.purpose = r.purpose
        /\ s.rules = r.rules /\ s.freightType = r.freightType
    BY <1>3 DEF R!Quote
  <2>3. s \in R!Quote
    BY <1>3, <1>5 DEF R!Quote, R!TenantRow
  <2> HIDE DEF s
  <2>4. ASSUME ~ r.stale
        PROVE  Seen(s, row)
    <3>1. s.priced = <<>> /\ s.maxDirectionValue = 0
      BY <1>3, <2>2, <2>4 DEF Seen, PricesSeen
    <3>2. PricedSoFar(s)
      BY <1>3, <2>2, <3>1 DEF PricedSoFar, Worth
    <3>3. TypeSeen(s, row)
      BY <1>3, <2>2, <2>4 DEF Seen, TypeSeen
    <3>4. PricesSeen(s, row)
      BY <2>2, <3>1, <3>2 DEF PricesSeen, ByRegion
    <3>5. RulesSeen(s, row)
      BY <1>3, <2>2, <2>4 DEF Seen, RulesSeen
    <3>6. QED
      BY <3>3, <3>4, <3>5 DEF Seen
  <2>5. QED
    BY <1>2, <1>3, <2>1, <2>2, <2>3, <2>4, AnswersStep
<1>6. QED
  BY <1>4, <1>5

LEMMA QuoteDistanceKeeps ==
    ASSUME FreightInv, NEW q \in Quoters, R!QuoteDistance(q)
    PROVE  FreightInv'
<1>1. PICK r : r = quote[q]
  OBVIOUS
<1>2. PICK row : row = tenant[r.tenant]
  OBVIOUS
<1>3. /\ r.pc = "distance" /\ r \in R!Quote /\ r.tenant \in Tenants /\ r.orders \in Seq(Ceps)
      /\ row \in R!TenantRow
      /\ ~ r.stale => Seen(r, row)
  BY <1>1, <1>2, QuoteNow DEF R!QuoteDistance, R!Asks
<1>4. CASE R!Answers(q, R!NoQuote)
  BY <1>4, FreightEnds
<1>5. ASSUME row.pricePerKm # None, NEW km \in Distances,
             R!Answers(q, [r EXCEPT !.valorFrete = km * row.pricePerKm, !.pc = "rules"])
      PROVE  FreightInv'
  <2> DEFINE s == [r EXCEPT !.valorFrete = km * row.pricePerKm, !.pc = "rules"]
  <2>1. /\ s.pc = "rules" /\ s.tenant = r.tenant /\ s.orders = r.orders
        /\ s.stale = r.stale /\ s.purpose = r.purpose
        /\ s.rules = r.rules /\ s.freightType = r.freightType
    BY <1>3 DEF R!Quote
  <2>2. km * row.pricePerKm \in Nat
    BY <1>3, <1>5, RegionsConfig DEF R!TenantRow
  <2>3. s \in R!Quote
    BY <1>3, <2>2 DEF R!Quote
  <2>4. R!Answers(q, s)
    BY <1>5
  <2> HIDE DEF s
  <2>5. ASSUME ~ r.stale
        PROVE  Seen(s, row)
    BY <1>3, <2>1, <2>5 DEF Seen, TypeSeen, PricesSeen, RulesSeen, ByRegion
  <2>6. QED
    BY <1>2, <1>3, <2>1, <2>3, <2>4, <2>5, AnswersStep
<1>6. QED
  BY <1>1, <1>2, <1>4, <1>5 DEF R!QuoteDistance

\* One order more, and what its region is worth.
LEMMA OneMorePriced ==
    ASSUME FreightInv, NEW r \in R!Quote, NEW s \in R!Quote, NEW x \in Ids \cup {None},
           PricedSoFar(r), Len(r.priced) < Len(r.orders), r.orders \in Seq(Ceps),
           s.priced = Append(r.priced, x), s.orders = r.orders, s.tenant = r.tenant,
           IF x = None
             THEN /\ R!Covering(r.tenant, r.orders[Len(r.priced) + 1]) = {}
                  /\ s.maxDirectionValue = r.maxDirectionValue
             ELSE /\ x \in R!Covering(r.tenant, r.orders[Len(r.priced) + 1])
                  /\ s.maxDirectionValue = R!Higher(region[x].valorDirecao, r.maxDirectionValue)
    PROVE  PricedSoFar(s)
<1> DEFINE k == Len(r.priced)
           own == IF x = None THEN {} ELSE {region[x].valorDirecao}
<1>1. /\ r.priced \in Seq(Ids \cup {None}) /\ r.maxDirectionValue \in Nat
      /\ k \in Nat /\ DOMAIN r.priced = 1 .. k /\ Len(r.orders) \in Nat
  BY DEF R!Quote
<1>2. /\ Len(s.priced) = k + 1 /\ DOMAIN s.priced = 1 .. (k + 1)
      /\ s.priced[k + 1] = x /\ \A n \in 1 .. k : s.priced[n] = r.priced[n]
  BY <1>1
<1>3. \A n \in 1 .. (k + 1) : n \in 1 .. k \/ n = k + 1
  BY <1>1
<1>4. Worth(s) = Worth(r) \cup own
  <2>1. ASSUME NEW v \in Worth(s), v # 0
        PROVE  v \in Worth(r) \cup own
    <3>1. PICK n \in 1 .. (k + 1) : s.priced[n] # None /\ v = region[s.priced[n]].valorDirecao
      BY <1>2, <2>1 DEF Worth
    <3>2. CASE n = k + 1
      BY <1>2, <3>1, <3>2
    <3>3. CASE n \in 1 .. k
      BY <1>1, <1>2, <3>1, <3>3 DEF Worth
    <3>4. QED
      BY <1>3, <3>1, <3>2, <3>3
  <2>2. ASSUME NEW v \in Worth(r), v # 0
        PROVE  v \in Worth(s)
    <3>1. PICK n \in 1 .. k : r.priced[n] # None /\ v = region[r.priced[n]].valorDirecao
      BY <1>1, <2>2 DEF Worth
    <3>2. n \in DOMAIN s.priced /\ s.priced[n] # None /\ v = region[s.priced[n]].valorDirecao
      BY <1>1, <1>2, <3>1
    <3>3. QED
      BY <3>2 DEF Worth
  <2>3. own \subseteq Worth(s)
    <3>1. k + 1 \in DOMAIN s.priced
      BY <1>1, <1>2
    <3>2. QED
      BY <1>2, <3>1 DEF Worth
  <2>4. 0 \in Worth(s) /\ 0 \in Worth(r)
    BY DEF Worth
  <2> HIDE DEF own
  <2>5. QED
    BY <2>1, <2>2, <2>3, <2>4
<1>5. \A n \in DOMAIN s.priced :
        IF s.priced[n] = None THEN R!Covering(s.tenant, s.orders[n]) = {}
        ELSE s.priced[n] \in R!Covering(s.tenant, s.orders[n])
  BY <1>1, <1>2, <1>3 DEF PricedSoFar
<1>6. s.maxDirectionValue \in Worth(s) /\ \A v \in Worth(s) : v <= s.maxDirectionValue
  <2>1. r.maxDirectionValue \in Worth(r) /\ \A v \in Worth(r) : v <= r.maxDirectionValue
    BY DEF PricedSoFar
  <2>2. CASE x = None
    BY <1>4, <2>1, <2>2
  <2>3. CASE x # None
    <3>1. region[x].valorDirecao \in Nat
      BY <2>3 DEF FreightInv, RegionsAreWhole, R!Covering, R!RowsOf
    <3>2. Worth(s) = Worth(r) \cup {region[x].valorDirecao}
      BY <1>4, <2>3
    <3>3. Worth(r) \subseteq Nat
      <4>1. \A n \in 1 .. k : r.priced[n] # None => region[r.priced[n]].valorDirecao \in Nat
        <5> TAKE n \in 1 .. k
        <5>1. r.priced[n] # None => R!Live(r.priced[n]) /\ r.priced[n] \in Ids
          BY <1>1 DEF PricedSoFar, R!Covering, R!RowsOf
        <5>2. QED
          BY <5>1 DEF FreightInv, RegionsAreWhole
      <4>2. QED
        BY <1>1, <4>1 DEF Worth
    <3>4. s.maxDirectionValue = R!Higher(region[x].valorDirecao, r.maxDirectionValue)
      BY <2>3
    <3>5. QED
      BY <1>1, <2>1, <3>1, <3>2, <3>3, <3>4 DEF R!Higher
  <2>4. QED
    BY <2>2, <2>3
<1>7. Len(s.priced) <= Len(s.orders)
  BY <1>1, <1>2
<1>8. QED
  BY <1>5, <1>6, <1>7 DEF PricedSoFar

LEMMA QuoteOrderKeeps ==
    ASSUME FreightInv, NEW q \in Quoters, R!QuoteOrder(q)
    PROVE  FreightInv'
<1>1. PICK r : r = quote[q]
  OBVIOUS
<1>2. PICK row : row = tenant[r.tenant]
  OBVIOUS
<1>3. /\ r.pc = "pricing" /\ r \in R!Quote /\ r.tenant \in Tenants /\ r.orders \in Seq(Ceps)
      /\ row \in R!TenantRow /\ Len(r.priced) < Len(r.orders)
      /\ ~ r.stale => Seen(r, row)
  BY <1>1, <1>2, QuoteNow DEF R!QuoteOrder, R!Asks
<1>4. PICK c : c = r.orders[Len(r.priced) + 1]
  OBVIOUS
<1>5. ASSUME NEW s, NEW x \in Ids \cup {None}, NEW value \in Nat,
             s = [r EXCEPT !.priced = Append(@, x), !.maxDirectionValue = value],
             R!Answers(q, s),
             IF x = None THEN R!Covering(r.tenant, c) = {} /\ value = r.maxDirectionValue
             ELSE /\ x \in R!Covering(r.tenant, c)
                  /\ value = R!Higher(region[x].valorDirecao, r.maxDirectionValue)
      PROVE  FreightInv'
  <2>1. /\ s.pc = r.pc /\ s.fee = r.fee /\ s.tenant = r.tenant /\ s.orders = r.orders
        /\ s.stale = r.stale /\ s.priced = Append(r.priced, x)
        /\ s.maxDirectionValue = value /\ s.purpose = r.purpose
        /\ s.rules = r.rules /\ s.freightType = r.freightType
    BY <1>3, <1>5 DEF R!Quote
  <2>2. s \in R!Quote
    <3>1. Append(r.priced, x) \in Seq(Ids \cup {None})
      BY <1>3 DEF R!Quote
    <3>2. QED
      BY <1>3, <1>5, <3>1 DEF R!Quote
  <2>3. ASSUME ~ r.stale
        PROVE  Seen(s, row)
    <3>1. PricedSoFar(r)
      BY <1>3, <2>3 DEF Seen, TypeSeen, PricesSeen, ByRegion
    <3>2. PricedSoFar(s)
      <4>1. IF x = None
              THEN /\ R!Covering(r.tenant, r.orders[Len(r.priced) + 1]) = {}
                   /\ s.maxDirectionValue = r.maxDirectionValue
              ELSE /\ x \in R!Covering(r.tenant, r.orders[Len(r.priced) + 1])
                   /\ s.maxDirectionValue
                        = R!Higher(region[x].valorDirecao, r.maxDirectionValue)
        BY <1>4, <1>5, <2>1
      <4>2. Len(r.priced) < Len(r.orders) /\ r.orders \in Seq(Ceps) /\ r \in R!Quote
        BY <1>3
      <4>3. s.priced = Append(r.priced, x) /\ s.orders = r.orders /\ s.tenant = r.tenant
        BY <2>1
      <4>4. QED
        BY <2>2, <3>1, <4>1, <4>2, <4>3, OneMorePriced
    <3>3. TypeSeen(s, row) /\ RulesSeen(s, row)
      BY <1>3, <2>1, <2>3 DEF Seen, TypeSeen, RulesSeen
    <3>4. PricesSeen(s, row)
      BY <1>3, <2>1, <2>3, <3>2 DEF Seen, PricesSeen, ByRegion
    <3>5. QED
      BY <3>3, <3>4 DEF Seen
  <2>4. QED
    BY <1>2, <1>3, <1>5, <2>1, <2>2, <2>3, AnswersStep
<1>6. CASE R!Covering(r.tenant, c) = {} /\ R!Answers(q, [r EXCEPT !.priced = Append(@, None)])
  <2>1. /\ r.maxDirectionValue \in Nat
        /\ [r EXCEPT !.priced = Append(@, None)]
             = [r EXCEPT !.priced = Append(@, None),
                         !.maxDirectionValue = r.maxDirectionValue]
    BY <1>3 DEF R!Quote
  <2>2. QED
    BY <1>5, <1>6, <2>1
<1>7. ASSUME NEW i \in R!Dearest(r.tenant, c),
             R!Answers(q, [r EXCEPT !.priced = Append(@, i),
                             !.maxDirectionValue = R!Higher(region[i].valorDirecao, @)])
      PROVE  FreightInv'
  <2>1. i \in R!Covering(r.tenant, c) /\ i \in Ids /\ i # None
    BY <1>7, RowsConfig DEF R!Dearest, R!Covering, R!RowsOf
  <2>2. region[i].valorDirecao \in Nat /\ r.maxDirectionValue \in Nat
    BY <1>3, <2>1 DEF FreightInv, RegionsAreWhole, R!Covering, R!RowsOf, R!Quote
  <2>3. PICK value \in Nat : value = R!Higher(region[i].valorDirecao, r.maxDirectionValue)
    BY <2>2 DEF R!Higher
  <2>4. R!Answers(q, [r EXCEPT !.priced = Append(@, i), !.maxDirectionValue = value])
    BY <1>7, <2>3
  <2>5. QED
    BY <1>5, <2>1, <2>3, <2>4
<1>8. QED
  BY <1>1, <1>4, <1>6, <1>7 DEF R!QuoteOrder

LEMMA QuoteTotalKeeps ==
    ASSUME FreightInv, NEW q \in Quoters, R!QuoteTotal(q)
    PROVE  FreightInv'
<1>1. PICK r : r = quote[q]
  OBVIOUS
<1>2. PICK row : row = tenant[r.tenant]
  OBVIOUS
<1>3. /\ r.pc = "pricing" /\ r \in R!Quote /\ r.tenant \in Tenants /\ r.orders \in Seq(Ceps)
      /\ row \in R!TenantRow /\ Len(r.priced) = Len(r.orders)
      /\ ~ r.stale => Seen(r, row)
  BY <1>1, <1>2, QuoteNow DEF R!QuoteTotal, R!Asks
<1> DEFINE total == r.maxDirectionValue + R!Surcharge(r.freightType, r.fee, r.orders)
           s == [r EXCEPT !.pc = "rules", !.valorFrete = total]
<1>4. R!Answers(q, s)
  BY <1>1 DEF R!QuoteTotal
<1>5. total \in Nat
  <2>1. Len(r.orders) \in Nat /\ r.fee \in Nat /\ r.maxDirectionValue \in Nat
    BY <1>3 DEF R!Quote
  <2>2. CategoryValue \in Nat
    BY RegionsConfig
  <2>3. Len(r.orders) * r.fee \in Nat
    BY <2>1
  <2>4. QED
    BY <2>1, <2>2, <2>3 DEF R!Surcharge
<1> HIDE DEF total
<1>6. /\ s.pc = "rules" /\ s.fee = r.fee /\ s.tenant = r.tenant /\ s.orders = r.orders
      /\ s.stale = r.stale /\ s.priced = r.priced /\ s.valorFrete = total
      /\ s.maxDirectionValue = r.maxDirectionValue /\ s.purpose = r.purpose
      /\ s.rules = r.rules /\ s.freightType = r.freightType
  BY <1>3 DEF R!Quote
<1>7. s \in R!Quote
  BY <1>3, <1>5 DEF R!Quote
<1> HIDE DEF s
<1>8. ASSUME ~ r.stale
      PROVE  Seen(s, row)
  <2>1. TypeSeen(s, row) /\ RulesSeen(s, row)
    BY <1>3, <1>6, <1>8 DEF Seen, TypeSeen, RulesSeen
  <2>2. PricedSoFar(s)
    BY <1>3, <1>6, <1>8 DEF Seen, TypeSeen, PricesSeen, ByRegion, PricedSoFar, Worth
  <2>3. R!Surcharge(r.freightType, r.fee, r.orders)
          = R!Surcharge(r.freightType, row.pricePerDelivery, r.orders)
    BY <1>3, <1>8 DEF Seen, PricesSeen, R!Surcharge
  <2>4. PricesSeen(s, row)
    BY <1>3, <1>6, <2>2, <2>3 DEF PricesSeen, ByRegion, total
  <2>5. QED
    BY <2>1, <2>4 DEF Seen
<1>9. QED
  BY <1>2, <1>3, <1>4, <1>6, <1>7, <1>8, AnswersStep

LEMMA QuoteRulesKeeps ==
    ASSUME FreightInv, NEW q \in Quoters, R!QuoteRules(q)
    PROVE  FreightInv'
<1>1. PICK r : r = quote[q]
  OBVIOUS
<1>2. PICK row : row = tenant[r.tenant]
  OBVIOUS
<1>3. /\ r.pc = "rules" /\ r \in R!Quote /\ r.tenant \in Tenants /\ r.orders \in Seq(Ceps)
      /\ row \in R!TenantRow
      /\ ~ r.stale => Seen(r, row)
  BY <1>1, <1>2, QuoteNow DEF R!QuoteRules, R!Asks
<1> DEFINE rules == IF r.purpose = "update" THEN row ELSE r.rules
           asks == r.purpose # "preview" /\ R!NeedsApproval(rules, r.orders, r.valorFrete)
           s == [r EXCEPT !.pc = "done", !.rules = rules, !.needsApproval = asks]
<1>4. R!Answers(q, s)
  BY <1>1, <1>2 DEF R!QuoteRules
<1>5. asks \in BOOLEAN /\ rules \in R!TenantRow \cup {None}
  BY <1>3 DEF R!Quote
<1> HIDE DEF asks, rules
<1>6. /\ s.pc = "done" /\ s.fee = r.fee /\ s.tenant = r.tenant /\ s.orders = r.orders
      /\ s.stale = r.stale /\ s.priced = r.priced /\ s.valorFrete = r.valorFrete
      /\ s.maxDirectionValue = r.maxDirectionValue /\ s.purpose = r.purpose
      /\ s.rules = rules /\ s.freightType = r.freightType /\ s.needsApproval = asks
  BY <1>3 DEF R!Quote
<1>7. s \in R!Quote
  BY <1>3, <1>5 DEF R!Quote
<1> HIDE DEF s
<1>8. ASSUME ~ r.stale
      PROVE  Seen(s, row)
  <2>1. TypeSeen(s, row)
    BY <1>3, <1>6, <1>8 DEF Seen, TypeSeen
  <2>2. PricesSeen(s, row)
    BY <1>3, <1>6, <1>8 DEF Seen, PricesSeen, ByRegion, PricedSoFar, Worth
  <2>3. r.purpose \in {"create", "update"} => rules = row
    BY <1>3, <1>8 DEF rules, Seen, RulesSeen
  <2>4. R!NeedsApproval(row, r.orders, r.valorFrete) \in BOOLEAN
    BY DEF R!NeedsApproval
  <2>5. r.purpose \in {"preview", "create", "update"}
    BY <1>3 DEF R!Quote
  <2>6. RulesSeen(s, row)
    BY <1>6, <2>3, <2>4, <2>5 DEF RulesSeen, asks
  <2>7. QED
    BY <2>1, <2>2, <2>6 DEF Seen
<1>9. QED
  BY <1>2, <1>3, <1>4, <1>6, <1>7, <1>8, AnswersStep

\* A region is written whole, and every freight under way goes stale.
LEMMA RegionWrittenPast ==
    ASSUME ClashInv, FreightInv, NEW h \in Handlers,
           \/ R!CreateWrite(h)
           \/ (R!UpdateWrite(h) \/ R!RemoveWrite(h)) /\ R!Live(regionsReq[h].id)
    PROVE  FreightInv'
<1>1. \A i \in Ids : region[i] \in R!Directions
  BY DEF ClashInv, RegionTypes
<1>2. Knows(h) /\ regionsReq[h] \in R!Request
  BY DEF ClashInv, RegionTypes
<1>3. PICK i \in Ids : \E row : Writes(h, i, row) /\
        (row.state = "live" => /\ row.rangeInicio \in Ceps /\ row.rangeFim \in Ceps
                               /\ row.valorDirecao \in Nat)
  <2>1. CASE R!CreateWrite(h)
    <3>1. PICK i \in Ids : Writes(h, i, R!Meant(h))
      BY <2>1 DEF R!CreateWrite, Writes
    <3>2. regionsReq[h].dto \in Drafts
      BY <1>2, <2>1 DEF R!CreateWrite, R!At, Knows, Holds, Creating
    <3>3. /\ regionsReq[h].dto.rangeInicio \in Ceps /\ regionsReq[h].dto.rangeFim \in Ceps
          /\ regionsReq[h].dto.valorDirecao \in Nat
          /\ regionsReq[h].dto.rangeInicio # None /\ regionsReq[h].dto.rangeFim # None
          /\ regionsReq[h].dto.valorDirecao # None
      BY <3>2, RegionsConfig DEF Patch
    <3>4. /\ R!Meant(h).rangeInicio \in Ceps /\ R!Meant(h).rangeFim \in Ceps
          /\ R!Meant(h).valorDirecao \in Nat
      BY <3>3 DEF R!Meant, R!Patched
    <3>5. QED
      BY <3>1, <3>4
  <2>2. CASE R!UpdateWrite(h) /\ R!Live(regionsReq[h].id)
    <3>1. PICK i : i = regionsReq[h].id
      OBVIOUS
    <3>2. i \in Ids /\ R!Live(i)
      BY <1>2, <2>2, <3>1 DEF R!UpdateWrite, R!At, Knows, Holds, Updating
    <3>3. PICK dto \in R!Patch : dto = regionsReq[h].dto
      BY <1>2 DEF R!Request
    <3>4. Writes(h, i, R!Patched(region[i], dto))
      BY <2>2, <3>1, <3>2, <3>3 DEF R!UpdateWrite, Writes
    <3>5. /\ R!Patched(region[i], dto).rangeInicio \in Ceps
          /\ R!Patched(region[i], dto).rangeFim \in Ceps
          /\ R!Patched(region[i], dto).valorDirecao \in Nat
      BY <3>2, <3>3 DEF R!Patched, R!Patch, FreightInv, RegionsAreWhole
    <3>6. QED
      BY <3>2, <3>4, <3>5
  <2>3. CASE R!RemoveWrite(h) /\ R!Live(regionsReq[h].id)
    <3> DEFINE row == [R!Unborn EXCEPT !.state = "removed"]
    <3>1. regionsReq[h].id \in Ids
      BY <1>2, <2>3 DEF R!RemoveWrite, R!At, Knows, Holds
    <3>2. Writes(h, regionsReq[h].id, row)
      BY <2>3 DEF R!RemoveWrite, Writes
    <3>3. row.state # "live"
      BY DEF R!Unborn
    <3> HIDE DEF row
    <3>4. QED
      BY <3>1, <3>2, <3>3
  <2>4. QED
    BY <2>1, <2>2, <2>3
<1>4. PICK row : /\ Writes(h, i, row)
                 /\ row.state = "live" => /\ row.rangeInicio \in Ceps /\ row.rangeFim \in Ceps
                                          /\ row.valorDirecao \in Nat
  BY <1>3
<1>5. /\ region' = [region EXCEPT ![i] = row] /\ region \in [Ids -> R!Directions]
      /\ tenant' = tenant /\ R!QuotesAreStale
  BY <1>4 DEF Writes, R!Wrote, ClashInv, RegionTypes
<1>6. RegionsAreWhole'
  BY <1>4, <1>5 DEF FreightInv, RegionsAreWhole, R!Live
<1>7. QED
  BY <1>5, <1>6, WrittenPast DEF FreightInv, QuoteTypes

\* So is a tenant.
LEMMA TenantWrittenPast ==
    ASSUME FreightInv, NEW t \in Tenants, NEW patch \in SettingsPatches,
           R!TenantUpdate(t, patch)
    PROVE  FreightInv'
<1>1. /\ tenant \in [Tenants -> R!TenantRow] /\ region' = region /\ R!QuotesAreStale
      /\ tenant' = [tenant EXCEPT ![t] =
                      [f \in DOMAIN tenant[t] |-> IF f \in DOMAIN patch THEN patch[f]
                                                  ELSE tenant[t][f]]]
  BY DEF FreightInv, QuoteTypes, R!TenantUpdate
<1>2. /\ DOMAIN patch \subseteq Amounts \cup {"freightType"}
      /\ \A f \in DOMAIN patch : IF f = "freightType" THEN patch[f] \in FreightTypes
                                 ELSE patch[f] \in Nat \cup {None}
  BY RegionsConfig
<1>3. [f \in DOMAIN tenant[t] |-> IF f \in DOMAIN patch THEN patch[f] ELSE tenant[t][f]]
        \in R!TenantRow
  <2>1. tenant[t] \in TenantRow
    BY <1>1, SameRows
  <2>2. DOMAIN tenant[t] = Amounts \cup {"freightType"}
    BY <2>1 DEF TenantRow, Amounts
  <2>3. QED
    BY <1>2, <2>1, <2>2, SameRows DEF TenantRow, Amounts
<1>4. tenant' \in [Tenants -> R!TenantRow]
  BY <1>1, <1>3
<1>5. RegionsAreWhole'
  BY <1>1 DEF FreightInv, RegionsAreWhole, R!Live
<1>6. QED
  BY <1>1, <1>4, <1>5, WrittenPast DEF FreightInv

LEMMA FreightNext == ClashInv /\ FreightInv /\ [R!Next]_R!vars => FreightInv'
<1> SUFFICES ASSUME ClashInv, FreightInv, [R!Next]_R!vars
             PROVE  FreightInv'
  OBVIOUS
<1>1. ASSUME NEW h \in Handlers, R!RegionsStep(h)
      PROVE  FreightInv'
  <2>1. CASE UNCHANGED <<region, tenant, quote>>
    BY <2>1, NothingMoves
  <2>2. CASE \/ R!CreateWrite(h)
             \/ (R!UpdateWrite(h) \/ R!RemoveWrite(h)) /\ R!Live(regionsReq[h].id)
    BY <2>2, RegionWrittenPast
  <2>3. CASE \/ R!UpdateName(h) \/ R!CheckOverlap(h, "createRange", "createWrite")
             \/ R!CheckOverlap(h, "updateRange", "updateWrite") \/ R!Dies(h)
    BY <2>1, <2>3 DEF R!UpdateName, R!CheckOverlap, R!Dies, R!Reads
  <2>4. CASE (R!UpdateWrite(h) \/ R!RemoveWrite(h)) /\ ~ R!Live(regionsReq[h].id)
    BY <2>1, <2>4 DEF R!UpdateWrite, R!RemoveWrite, R!Reads
  <2>5. CASE R!UpdateWrite(h) \/ R!RemoveWrite(h)
    <3>1. CASE R!Live(regionsReq[h].id)
      BY <2>2, <2>5, <3>1
    <3>2. CASE ~ R!Live(regionsReq[h].id)
      BY <2>4, <2>5, <3>2
    <3>3. QED
      BY <3>1, <3>2
  <2>6. QED
    BY <1>1, <2>2, <2>3, <2>5 DEF R!RegionsStep
<1>2. ASSUME NEW h \in Handlers, NEW t \in Tenants, R!RegionsCall(h, t)
      PROVE  FreightInv'
  BY <1>2, NothingMoves
     DEF R!RegionsCall, R!CreateRead, R!UpdateRead, R!RemoveRead, R!Reads
<1>3. ASSUME NEW q \in Quoters, R!QuoteStep(q)
      PROVE  FreightInv'
  BY <1>3, QuoteTypeKeeps, QuoteFeeKeeps, QuoteDistanceKeeps, QuoteOrderKeeps,
     QuoteTotalKeeps, QuoteRulesKeeps, FreightEnds DEF R!QuoteStep, R!QuoteAnswered
<1>4. CASE UNCHANGED R!vars
  BY <1>4, NothingMoves DEF R!vars
<1>5. QED
  BY <1>1, <1>2, <1>3, <1>4, QuoteCallKeeps, TenantWrittenPast
     DEF R!Next, R!RegionsNext, R!QuoteNext, R!TenantNext

-----------------------------------------------------------------------------
(* What an order amounts to.  Total adds up along the orders; that it is a *)
(* number for any of them takes an induction, by the least counterexample. *)

LEMMA LeastOf ==
    ASSUME NEW T, T \subseteq Nat, T # {}
    PROVE  \E n \in T : \A m \in T : n <= m
<1> DEFINE below == OpToRel(<, Nat)
<1>1. IsWellFoundedOn(below, Nat)
  BY NatLessThanWellFounded
<1>2. \A m, n \in Nat : <<m, n>> \in below <=> m < n
  BY DEF OpToRel
<1> HIDE DEF below
<1>3. PICK n \in T : \A m \in T : ~ (<<m, n>> \in below)
  BY <1>1, WFMin
<1>4. ASSUME NEW m \in T
      PROVE  n <= m
  <2>1. m \in Nat /\ n \in Nat
    OBVIOUS
  <2>2. ~ (<<m, n>> \in below)
    BY <1>3
  <2>3. ~ (m < n)
    BY <1>2, <2>1, <2>2
  <2>4. QED
    BY <2>1, <2>3
<1>5. QED
  BY <1>4

\* Partial sums, as far as one likes.
LEMMA SumsExist ==
    ASSUME NEW k \in Nat, NEW a \in [1 .. k -> Nat]
    PROVE  \E f \in [0 .. k -> Nat] :
             \A n \in 0 .. k : f[n] = IF n = 0 THEN 0 ELSE f[n - 1] + a[n]
<1> DEFINE Good(j) == \E f \in [0 .. j -> Nat] :
                        \A n \in 0 .. j : f[n] = IF n = 0 THEN 0 ELSE f[n - 1] + a[n]
           bad == {j \in 0 .. k : ~ Good(j)}
<1>1. Good(0)
  <2> DEFINE f == [n \in 0 .. 0 |-> 0]
  <2>1. f \in [0 .. 0 -> Nat] /\ \A n \in 0 .. 0 : n = 0 /\ f[n] = 0
    OBVIOUS
  <2>2. QED
    BY <2>1
<1>2. ASSUME NEW j \in 0 .. k, j # 0, Good(j - 1)
      PROVE  Good(j)
  <2>1. PICK f \in [0 .. (j - 1) -> Nat] :
           \A n \in 0 .. (j - 1) : f[n] = IF n = 0 THEN 0 ELSE f[n - 1] + a[n]
    BY <1>2
  <2> DEFINE g == [n \in 0 .. j |-> IF n = j THEN f[j - 1] + a[j] ELSE f[n]]
  <2>2. g \in [0 .. j -> Nat]
    BY <1>2, <2>1
  <2>3. \A n \in 0 .. j : g[n] = IF n = 0 THEN 0 ELSE g[n - 1] + a[n]
    <3> TAKE n \in 0 .. j
    <3>1. CASE n = 0
      BY <1>2, <2>1, <3>1
    <3>2. CASE n # 0
      <4>1. n - 1 \in 0 .. j /\ n - 1 # j /\ n - 1 \in 0 .. (j - 1)
        BY <3>2
      <4>2. g[n - 1] = f[n - 1]
        BY <4>1
      <4>3. g[n] = f[n - 1] + a[n]
        <5>1. CASE n = j
          BY <5>1
        <5>2. CASE n # j
          <6>1. n \in 0 .. (j - 1) /\ g[n] = f[n]
            BY <5>2
          <6>2. QED
            BY <2>1, <3>2, <6>1
        <5>3. QED
          BY <5>1, <5>2
      <4>4. QED
        BY <3>2, <4>2, <4>3
    <3>3. QED
      BY <3>1, <3>2
  <2>4. QED
    BY <2>2, <2>3
<1> HIDE DEF Good
<1>3. bad = {}
  <2> SUFFICES ASSUME bad # {} PROVE FALSE
    OBVIOUS
  <2>0. bad \subseteq Nat
    OBVIOUS
  <2>1. PICK j \in bad : \A m \in bad : j <= m
    <3> HIDE DEF bad
    <3>1. QED
      BY <2>0, LeastOf
  <2>2. j # 0 /\ j - 1 \in 0 .. k /\ j - 1 \notin bad
    BY <1>1, <2>1
  <2>3. QED
    BY <1>2, <2>1, <2>2
<1>4. Good(k)
  BY <1>3
<1>5. QED
  BY <1>4 DEF Good

\* Total adds up natural numbers to a natural number.
LEMMA TotalIsNat ==
    ASSUME NEW S, NEW amount \in [S -> Nat], NEW orders \in Seq(S)
    PROVE  R!Total(amount, orders) \in Nat
<1> DEFINE k == Len(orders)
           a == [n \in 1 .. k |-> amount[orders[n]]]
           Step(f) == [n \in 0 .. k |-> IF n = 0 THEN 0 ELSE f[n - 1] + amount[orders[n]]]
           upTo == CHOOSE f : f = Step(f)
<1>1. R!Total(amount, orders) = upTo[k]
  BY DEF R!Total
<1>2. k \in Nat /\ a \in [1 .. k -> Nat] /\ \A n \in 1 .. k : a[n] = amount[orders[n]]
  OBVIOUS
<1>3. \E f : f = Step(f)
  <2> HIDE DEF k, a
  <2>1. PICK f \in [0 .. k -> Nat] :
           \A n \in 0 .. k : f[n] = IF n = 0 THEN 0 ELSE f[n - 1] + a[n]
    BY <1>2, SumsExist
  <2>2. f = Step(f)
    BY <1>2, <2>1
  <2>3. QED
    BY <2>2
<1>4. upTo = Step(upTo)
  BY <1>3
<1> HIDE DEF upTo, a, k
<1>5. \A n \in 0 .. k : upTo[n] = IF n = 0 THEN 0 ELSE upTo[n - 1] + a[n]
  BY <1>2, <1>4
<1> DEFINE bad == {n \in 0 .. k : upTo[n] \notin Nat}
<1>6. bad = {}
  <2> SUFFICES ASSUME bad # {} PROVE FALSE
    OBVIOUS
  <2>0. bad \subseteq Nat
    BY <1>2
  <2>1. PICK j \in bad : \A m \in bad : j <= m
    <3> HIDE DEF bad
    <3>1. QED
      BY <2>0, LeastOf
  <2>2. j # 0 /\ j - 1 \in 0 .. k /\ j - 1 \notin bad
    BY <1>2, <1>5, <2>1
  <2>3. QED
    BY <1>2, <1>5, <2>1, <2>2
<1>7. QED
  BY <1>1, <1>2, <1>6

-----------------------------------------------------------------------------
(* The freight and statistics.                                             *)

\* Where nothing raced, a CEP lies in one region of a tenant at most.
LEMMA OneRegionCovers ==
    ASSUME ClashInv, FreightInv, raced = {}, NEW t, NEW c \in Ceps,
           NEW i \in R!Covering(t, c), NEW j \in R!Covering(t, c)
    PROVE  i = j
<1>1. /\ i \in Ids /\ j \in Ids /\ R!Live(i) /\ R!Live(j) /\ TenantOf[i] = TenantOf[j]
      /\ Text[region[i].rangeInicio] <= Text[c] /\ Text[c] <= Text[region[i].rangeFim]
      /\ Text[region[j].rangeInicio] <= Text[c] /\ Text[c] <= Text[region[j].rangeFim]
  BY DEF R!Covering, R!RowsOf
<1>2. /\ Text[c] \in Nat
      /\ Text[region[i].rangeInicio] \in Nat /\ Text[region[i].rangeFim] \in Nat
      /\ Text[region[j].rangeInicio] \in Nat /\ Text[region[j].rangeFim] \in Nat
  BY <1>1, RegionsConfig DEF FreightInv, RegionsAreWhole
<1>3. R!Overlaps(region[i], region[j])
  BY <1>1, <1>2 DEF R!Overlaps
<1>4. QED
  BY <1>1, <1>3 DEF ClashInv, R!RegionsClashOnlyByRace, R!Excused

LEMMA PricedByItsRegion ==
    ASSUME ClashInv, FreightInv, NEW q \in Quoters, NEW r, r = quote[q], R!Undisturbed(r)
    PROVE  R!PricedByRegion(r)
<1>1. PICK row : row = tenant[r.tenant]
  OBVIOUS
<1>2. /\ r \in R!Quote /\ r.orders \in Seq(Ceps) /\ Seen(r, row)
      /\ r.pc = "done" /\ raced = {} /\ R!PlainTable(r.tenant)
      /\ \A n \in DOMAIN r.orders : R!Plain(r.orders[n])
  BY <1>1, QuoteNow DEF R!Undisturbed
<1> SUFFICES ASSUME row.freightType # "DISTANCE_BASED"
             PROVE  LET found == [n \in DOMAIN r.orders |->
                                    R!RegionsOfNote(r.tenant, r.orders[n])]
                        values == {0} \cup {region[i].valorDirecao :
                                              i \in UNION {found[n] : n \in DOMAIN found}}
                    IN  /\ \A n \in DOMAIN found :
                             found[n] = IF r.priced[n] = None THEN {} ELSE {r.priced[n]}
                        /\ \E v \in values :
                             /\ r.valorFrete = v + R!Surcharge(row.freightType,
                                                     row.pricePerDelivery, r.orders)
                             /\ \A w \in values : w <= v
  BY <1>1 DEF R!PricedByRegion
<1> DEFINE found == [n \in DOMAIN r.orders |-> R!RegionsOfNote(r.tenant, r.orders[n])]
           values == {0} \cup {region[i].valorDirecao :
                                 i \in UNION {found[n] : n \in DOMAIN found}}
<1>3. /\ PricedSoFar(r) /\ Len(r.priced) = Len(r.orders) /\ r.freightType = row.freightType
      /\ r.valorFrete = r.maxDirectionValue
             + R!Surcharge(row.freightType, row.pricePerDelivery, r.orders)
  BY <1>2 DEF Seen, TypeSeen, PricesSeen, ByRegion
<1>4. DOMAIN r.priced = DOMAIN r.orders /\ \A n \in DOMAIN r.orders : r.orders[n] \in Ceps
  <2>1. r.priced \in Seq(Ids \cup {None})
    BY <1>2 DEF R!Quote
  <2>2. QED
    BY <1>2, <1>3, <2>1
<1>5. ASSUME NEW n \in DOMAIN r.orders
      PROVE  found[n] = IF r.priced[n] = None THEN {} ELSE {r.priced[n]}
  <2>1. PICK c \in Ceps : c = r.orders[n]
    BY <1>4
  <2>2. R!Plain(c)
    BY <1>2, <2>1
  <2>3. R!RegionsOfNote(r.tenant, c) = R!Covering(r.tenant, c)
    BY <1>2, <2>2 DEF R!PlainTable, R!Plain, R!RegionsOfNote, R!Covering
  <2>4. found[n] = R!Covering(r.tenant, c)
    BY <2>1, <2>3
  <2>5. IF r.priced[n] = None THEN R!Covering(r.tenant, c) = {}
        ELSE r.priced[n] \in R!Covering(r.tenant, c)
    BY <1>3, <1>4, <2>1 DEF PricedSoFar
  <2>6. \A i, j \in R!Covering(r.tenant, c) : i = j
    BY <1>2, OneRegionCovers
  <2> HIDE DEF found
  <2>7. QED
    BY <2>4, <2>5, <2>6
<1>6. DOMAIN found = DOMAIN r.orders
  OBVIOUS
<1> HIDE DEF found
<1>7. values = Worth(r)
  <2>1. UNION {found[n] : n \in DOMAIN found}
          = {r.priced[n] : n \in {m \in DOMAIN r.priced : r.priced[m] # None}}
    <3>1. ASSUME NEW i \in UNION {found[n] : n \in DOMAIN found}
          PROVE  i \in {r.priced[n] : n \in {m \in DOMAIN r.priced : r.priced[m] # None}}
      <4>1. PICK n \in DOMAIN r.orders : i \in found[n]
        BY <1>6, <3>1
      <4>2. r.priced[n] # None /\ i = r.priced[n]
        BY <1>5, <4>1
      <4>3. QED
        BY <1>4, <4>1, <4>2
    <3>2. ASSUME NEW n \in DOMAIN r.priced, r.priced[n] # None
          PROVE  r.priced[n] \in UNION {found[m] : m \in DOMAIN found}
      <4>1. r.priced[n] \in found[n] /\ n \in DOMAIN found
        BY <1>4, <1>5, <1>6, <3>2
      <4>2. QED
        BY <4>1
    <3>3. QED
      BY <3>1, <3>2
  <2>2. QED
    BY <2>1 DEF Worth
<1>8. r.maxDirectionValue \in values /\ \A w \in values : w <= r.maxDirectionValue
  BY <1>3, <1>7 DEF PricedSoFar
<1> HIDE DEF values
<1>9. QED
  BY <1>3, <1>5, <1>6, <1>8 DEF found, values

\* The rules as coded are the rules as meant.
LEMMA RulesAreMeant ==
    ASSUME NEW row \in R!TenantRow, NEW orders \in Seq(Ceps), NEW valorFrete \in Nat
    PROVE  R!NeedsApproval(row, orders, valorFrete) <=> ~ R!GoesUnapproved(row, orders, valorFrete)
<1>1. PICK worth : worth = R!Total(Valor, orders)
  OBVIOUS
<1>2. PICK weight : weight = R!Total(Peso, orders)
  OBVIOUS
<1>3. worth \in Nat /\ weight \in Nat /\ Len(orders) \in Nat /\ None \notin Nat
  <2>1. Valor \in [Ceps -> Nat] /\ Peso \in [Ceps -> Nat] /\ None \notin Nat
    BY RegionsConfig
  <2>2. R!Total(Valor, orders) \in Nat /\ R!Total(Peso, orders) \in Nat
    BY <2>1, TotalIsNat
  <2>3. QED
    BY <1>1, <1>2, <2>1, <2>2
<1>4. /\ row.minDeliveryPercentage \in Nat \cup {None} /\ row.minValue \in Nat \cup {None}
      /\ row.minOrders \in Nat \cup {None} /\ row.minPeso \in Nat \cup {None}
  BY DEF R!TenantRow
<1>5. PICK share : share = row.minDeliveryPercentage * worth
  OBVIOUS
<1>6. row.minDeliveryPercentage # None => share \in Nat
  BY <1>3, <1>4, <1>5
<1>7. R!PercentageTooHigh(row, valorFrete, worth)
        <=> ~ \/ row.minDeliveryPercentage = None \/ worth = 0
              \/ share >= valorFrete * 100
  BY <1>3, <1>5, <1>6 DEF R!PercentageTooHigh
<1>8. QED
  BY <1>1, <1>2, <1>3, <1>4, <1>5, <1>7 DEF R!NeedsApproval, R!GoesUnapproved

LEMMA FreightAgrees == ClashInv /\ FreightInv => FreightAgreesWithStatistics
<1> SUFFICES ASSUME ClashInv, FreightInv, NEW q \in Quoters, R!Undisturbed(quote[q])
             PROVE  LET r == quote[q] IN
                    /\ R!PricedByRegion(r)
                    /\ r.purpose # "preview" =>
                         (r.needsApproval
                            <=> ~ R!GoesUnapproved(tenant[r.tenant], r.orders, r.valorFrete))
  BY DEF FreightAgreesWithStatistics, R!FreightAgreesWithStatistics
<1>1. PICK r : r = quote[q]
  OBVIOUS
<1>2. R!PricedByRegion(r)
  BY <1>1, PricedByItsRegion
<1>3. PICK row : row = tenant[r.tenant]
  OBVIOUS
<1>4. /\ r \in R!Quote /\ r.orders \in Seq(Ceps) /\ row \in R!TenantRow
      /\ r.pc = "done" /\ Seen(r, row)
  BY <1>1, <1>3, QuoteNow DEF R!Undisturbed
<1>5. r.purpose # "preview" => r.needsApproval = R!NeedsApproval(row, r.orders, r.valorFrete)
  BY <1>4 DEF Seen, RulesSeen
<1>6. r.valorFrete \in Nat
  BY <1>4 DEF R!Quote
<1>7. r.purpose # "preview" =>
        (r.needsApproval <=> ~ R!GoesUnapproved(row, r.orders, r.valorFrete))
  BY <1>4, <1>5, <1>6, RulesAreMeant
<1>8. QED
  BY <1>1, <1>2, <1>3, <1>7

\* A freight computed while nobody wrote a region or a tenant, over regions that
\* never raced, is the one statistics and the tenant's rules would arrive at,
\* whatever the orders are and in however many queries it was read
\* (DirectionFreightService and TenantApprovalValidator against the statistics).
THEOREM FreightAlwaysAgrees == R!Spec => []FreightAgreesWithStatistics
<1>1. R!Init => ClashInv /\ FreightInv
  BY ClashInit, FreightInit
<1>2. ClashInv /\ FreightInv /\ [R!Next]_R!vars => (ClashInv /\ FreightInv)'
  BY ClashNext, FreightNext
<1>3. QED
  BY <1>1, <1>2, FreightAgrees, PTL DEF R!Spec
=============================================================================
