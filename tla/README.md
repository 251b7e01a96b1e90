# Verification of the delivery server

TLA+ models of the NestJS back end in this repository, the TLC runs that check
them and the theorems TLAPS proves about them. Paths below are relative to
`src/src/` unless they start with `prisma/`.

## 1. The system

One Node process serves the HTTP API over PostgreSQL (through Prisma). There is
no queue and no worker: every effect is made by the handler of some request.
Four facts about that process shape every model here.

* A handler gives up the processor at each `await`; any other handler may run
  there. What was read before an `await` can be stale after it.
* PostgreSQL runs at READ COMMITTED. No handler locks a row or compares a
  version, so the unit of atomicity is a single statement or one
  `prisma.$transaction`.
* Guards are evaluated on what was read at the beginning; writes name rows by id
  and hardly ever repeat the guard in their `where`.
* Nothing resumes a handler that has died, and an exception between two writes
  undoes neither. What was written before stays.

### Components

| Component | State | Operations that change it | Status |
|---|---|---|---|
| Delivery routes (`delivery/`) | `Order.status`, `Order.deliveryId`, `Delivery.*`, `Approval` | create, liberar, rejeitar, updateOrderStatus, update, removeOrder, remove | modelled |
| Payments (`payments/`) | `AccountsPayable`, `PaymentDelivery` | create (by hand or from finalisation), markAsPaid, updateStatus, revertPaymentToPending | modelled |
| Drivers' application (`mobile/`) | calls updateOrderStatus; `DeliveryProof` | updateOrderStatus, uploadDeliveryProof | modelled, with what it reads of routes and receivables; the profile not |
| Storage (`infrastructure/storage`) | pictures at Cloudinary and on the disk | save, with failover | modelled |
| Maps adapter (`routes/adapters`, `infrastructure/resilience`, `infrastructure/cache`) | circuits, cache entries, attempts in flight | the four provider calls, retry, expiry | modelled, one circuit |
| Order intake (`orders/`) | `Order` rows | upload | modelled; lists and details are reads |
| Drivers, vehicles, categories (`drivers/`, `vehicles/`, `category/`) | their rows, `Sequence` | create, update, remove | modelled |
| Regions (`directions/`) | `Directions` | create, update, remove | modelled |
| Freight and approval rules (`delivery/providers`) | none; they read regions, the vehicle's category and the tenant, one await after another | the three calculators, the rules | modelled; `Delivery` takes both answers |
| Identity (`invites/`, `users/`, `infrastructure/auth`) | Firebase accounts, `User`, `UserInvite` | invite, resend, cancel, expire, clean up, accept, first login, create, update, delete | modelled, one tenant |
| Administration (`platform-admin/`, `tenant/`, `users/`, `roles/`) | `User.roleId`, `isActive`, `tenantId`; `Tenant`; `Role.isPlatformRole` | create, update, delete of users and tenants by either side; the flag of a role | modelled; names, CNPJ and addresses not |
| Notifications (`notifications/`, `infrastructure/notifications`) | `Notification` rows, the gateway's socket map | send, connect, disconnect, mark as read | modelled |
| Statistics (`statistics/`) | none | counts and averages | their figures as of one state |
| Route planning (`routes/`), settings, landing, e-mail, filters, logging | single rows or none | one insertion or update, I/O | not modelled, section 7 |

### How they interact

`updateOrderStatus` is the hinge: called by the drivers' application through
`MobileService`, it writes an order, counts what is left of its route, finalises
the delivery when nothing is, and goes on into `PaymentsService.create`, whose
errors it prints and forgets. Everything else of the back office (create,
release, rejection, edition, removal, payments by hand) touches the same five
tables with no coordination but the guards. Freight calculators read regions
and categories, and the approval rules read the tenant; both are consulted
between a read and a write and change nothing, while the back office edits what
they read. Drivers, vehicles, categories and users refer to one another through
foreign keys that know no tenants: that all belong to one is what the handlers
look up beforehand. A route's changes tell drivers and administrators through
`NotificationService`, by a callback nobody waits for. The maps adapter is shared by all
requests of the process: its circuits and its cache are plain objects in memory. People exist
twice, as Firebase accounts and as rows; every handler of identity changes one
and then the other, and `JwtAuthGuard` makes rows too, at the first request of
somebody who holds a pending invite.

### What is hard, and what should hold

| Where | Behaviour | Property |
|---|---|---|
| two creates | both find an order free | an order is routed only while free (**fails**) |
| rejection | order of two statements of one transaction | orders come back free (**fails**, even alone) |
| last orders of a route at once | write and count are two statements | the last conclusion is always seen (holds), payment is made (holds), once (**fails**) |
| update, removeOrder | status, totals and driver written long after being read | orders, totals, driver and payment agree (holds unless written in a race) |
| update, removeOrder | a driver or a freight refused after the orders have been written | likewise (holds unless left half way; one call alone can leave it so) |
| remove | asks whether the driver is leaving before its transaction | none is removed under its driver (holds unless in a race) |
| payments | statuses written by id | paid while pending, reverted while paid (holds unless in a race) |
| releases and rejections | decide on a stale status | a rejection is on record (holds); a rejected route never runs (holds unless in a race) |
| circuit breaker | calls admitted in one state end in another | counters agree with state, recovery is reached (holds) |
| acceptance, platform users | account, row and invite in three steps with compensation | no account is left alone (holds); undoing leaves no user (**fails**, even alone) |
| removal of users | the provider first, then the row | no removed user keeps an account (holds) |
| regions | no constraint keeps two apart; name, overlap and write are three statements | a clash takes a race of two handlers (holds) |
| freight | regions and settings read one await after another, CEPs as strings; statistics read them as numbers | an undisturbed freight is the price list's, and approval follows the rules (holds) |
| drivers, vehicles, categories | looked up first, written later, removed meanwhile | references hold and stay within the tenant (holds) |
| codes | drawn from a sequence in the transaction that may fail | none twice, none lost (holds) |
| superadmins removing each other | the requester's role is read before the write | the last goes only by a race or from the other side (holds) |
| upload of orders | line by line, outside a transaction, beside another upload | the answer is true (holds) |
| sockets | leave while their token is verified; several of one user | the map finds every open socket (holds) |
| proofs of delivery | two providers, lost answers, names by the millisecond | a row has its picture (holds) |
| what drivers and the office are told | several queries over the same tables | the figures agree (holds unless raced or left half way) |
| retry | decided from fields the errors lack | what declares itself retryable is retried (**fails**) |

The full list, with lines, is `hazards` in `PROJECT.json`.

## 2. Modules

| Module | Models | Notes |
|---|---|---|
| `DeliveryState` | `prisma/schema.prisma`: the tables, and handlers in flight | constants, types, `Init`, request life cycle |
| `Delivery` | `delivery/delivery.service.ts` | one action per awaited read, write or transaction |
| `Payments` | `payments/payments.service.ts` | likewise |
| `Interference` | no code: which handlers were overtaken or stopped half way, and what they wrote | four history variables no guard reads |
| `DeliverySystem` | both over one database, handlers that may be refused or die | the safety and action properties |
| `MCDeliverySystem` | instances for TLC | workloads that bound concurrent runs |
| `Completion` | routes under way and the drivers' calls only | liveness, refinement of `RouteContract` |
| `RouteContract` | what a route's end promises, in one step | abstract specification |
| `CircuitBreaker` | `circuit-breaker.service.ts` | a record and one operator per method |
| `MapsExceptions` | `maps.exceptions.ts`, `is-retryable.helper.ts` | classification of errors |
| `MapsAdapter` | `base-maps.adapter.ts`, `google-maps.adapter.ts`, `retry.service.ts`, `memory-cache.service.ts` | calls over one circuit and the cache |
| `Identity` | `invites.controller.ts`, `invites.service.ts`, `users.service.ts`, `firebase-auth.provider.ts`, `platform-users.controller.ts` | invites, accounts, rows, handlers in flight |
| `MCIdentity` | instances for TLC | gives ids out in order, splits the calls between two handlers |
| `Views` | reads of `mobile.service.ts`, `statistics.service.ts` | functions of a state; extended by `DeliverySystem` |
| `Office` | rows and bodies that the next six share | constants and their assumptions |
| `Regions` | `directions.service.ts`, `delivery/providers/`, a tenant's settings, statistics by region | handlers that write, freights on their way |
| `Fleet` | `drivers.service.ts`, `vehicles.service.ts`, `category.service.ts` | rows of several tenants, sequences with their row lock |
| `Platform` | `users.service.ts`, `tenant.service.ts`, `platform-admin/`, the guards | who may change whom |
| `Intake` | `orders.service.ts` | one step per line and statement |
| `Notifications` | `notification.gateway.ts`, `realtime-notification.provider.ts`, `notifications.service.ts` | sockets, the map, rows |
| `ProofUpload` | `mobile.service.ts` (proofs), `infrastructure/storage` | files at two providers, rows |
| `OfficeSystem` | the six side by side | their instances, their properties by name; what the runs check and the proofs state |
| `MCOffice` | the same for TLC | one desk per behaviour |
| `DeliverySystemProofs`, `SettledProofs`, `CompletionProofs`, `MapsAdapterProofs`, `IdentityProofs`, `RegionsProofs`, `FleetProofs`, `OfficeProofs` | theorems | see section 5 |

Definitions whose comment begins with *Mutant* are not used by any specification. They
are plausible faulty versions of the operator that follows them; replacing the
operator by its mutant must break the property listed with it in
`PROJECT.json`, which shows that the property depends on that code.

### Correspondence with the code

A row is an id with one function per column that some guard or property needs.
`deliveryStatus` is `"absent"` before the row exists and `"deleted"` after, and
ids are never reused (they are UUIDs). Totals and freight (`totalPeso`,
`totalValor`, `valorFrete`) are always computed together from a list of orders,
so they are modelled by that list: `charged`. The amount of a payment is the
freight of its delivery when the payment was computed: `payBasis`.

A handler is a record `req[r]`: `pc` names its next step and the other fields
what it still remembers. Steps follow the awaits: for instance `create` is
`CreateRead` (the findMany for `SEM_ROTA` with the guards) and `CreateCommit`
(the transaction). Reads whose result no later write depends on (tenant,
vehicle, administrators to notify) are not steps. Calls that a guard refuses
change nothing and are not steps either. A refusal that comes after a write is a
step of its own, which ends the handler with its earlier writes in place. There
are three kinds:

* the row is gone when it is written (P2025, a foreign key): `DeliveryGone`,
  `PayGone`;
* `update` never looks up the `driverId` it is given, unlike `create`, and only
  the last of its writes refuses one that does not exist
  (`delivery.service.ts:690`, `:799`): `DriverUnknown`, for a request that names
  the `Stranger`;
* the freight is computed after the orders have been written, and the calculators
  throw where a price or a distance is missing (`delivery.service.ts:753`,
  `:886`): `FreightRefused` and `RemoveOrderUnfinished`.

With `MayFail` a handler may also die at any await (`Die`): a database error, a
deadlock victim, or a crash of the process, in which case each handler dies in
its own turn.

`Interference` keeps account of what overlap and stopping do, in four histories
that no guard reads. A handler is in `overtaken` when another one has changed,
since it read it, a row that its next steps go by (`Outdates` names them for each
step); a delivery or payment that such a handler then writes is in `raced`, with
every other delivery the write changes. A handler is in `begun` once it has
written something; the delivery of one that is refused or dies then is in
`abandoned`. The properties that overlap can break are stated of everything
outside these sets. They say that a disagreement has no other cause, which is
more than saying that there is none while calls do not overlap.

Two details of the code that are easily read over and are modelled as they are:

* `rejeitarRoteiro` first writes `orders: { set: [] }`, which disconnects the
  orders, and only then looks for orders by `deliveryId` to free them. The
  second statement finds none (`RejeitarCommit` leaves `orderStatus` alone).
* Only `updateOrderStatus` finalises a delivery. An edition that takes the last
  unfinished order off a route finalises nothing.

In `MapsAdapter` Node's run-to-completion makes the steps larger: everything a
call does from its start, from the provider's answer or from its retry timer up
to its next wait on a socket or timer is one step, because the promises between
are microtasks. The clock is replaced by distances to it (`sinceFailure`,
`untilAttempt`, an entry's `left`), which saturate where comparisons stop
depending on them, so no horizon is needed.

In `Identity` a row of `User` is named by its `firebaseUid`, which is unique and
never reused by the provider, so account and row share an id: `account[a]` is
what Firebase knows, `user[a]` what the database knows, each with an address of
its own, because the platform's edition changes the row's alone. `ours` records
whether the server made the account or its owner registered with the provider.
The unique keys are guards (`MayBecome`, `MayHaveRow`); a write they refuse is
an action or a branch of its own. Both kinds of acceptance create the row in one
transaction and the ordinary one then marks the invite outside it: `AcceptRow`
and `AcceptMark` are two steps, `LoginCommit` is one. A handler that dies with an
account to give a row or to undo stays as `"dead"`, so that the invariant can
name it; any other leaves its slot to the next request.

The modules over `Office` follow the same pattern. Three details are easily lost:

* No DTO names a tenant: a row belongs to the tenant of whoever made it, for
  ever. `TenantOf` gives it by the id, so that "of this tenant" is a condition on
  what a handler looks up and not a column it could write. A user is different:
  the removal of a tenant sets `User.tenantId` to null, so `Platform` keeps it as
  a field.
* `generateTenantCode` upserts the row of `Sequence` inside the transaction of
  the insertion, which keeps that row locked. `Fleet` draws and inserts in two
  steps with the sequence held between them, and a failed insertion gives the
  number back.
* A freight reads the tenant once for its type, once more in two of the
  calculators, and `create` or `update` once for the rules; each region is a
  query of its own. `Regions` gives every one of these reads a step, and
  `stale` records whether a region or a tenant was written since the first.

In `Platform` the guards' read of the requester, the service's second one and
that of the row it is about are one step: a change that falls between them adds
a refusal, or what a request that began a little later or earlier would have
read. What a request does after that step it does on what it read.

`Views` has one function per endpoint. A sum is represented by the rows it adds
up, which tells more than its value would.

### Abstractions to keep in mind

* A transaction is one step. At READ COMMITTED the statements of two
  transactions could interleave; what that adds is listed as a hazard of the
  plan (section 6), not checked.
* One tenant in the delivery modules and in `Identity`. Handlers filter what they
  read by tenant but `update` adds orders by id without it. Isolation of tenants
  is modelled where rows refer to one another across tables (`Fleet`) and where
  people administer (`Platform`).
* In `Delivery` the rules and the freight calculators are left open: each
  consultation takes both answers, so its properties hold whatever the rules
  are. What they answer is `Regions`.
* Amounts of freight are whole numbers; percentages are compared by products, as
  exact arithmetic would.
* `Platform` leaves the provider to `Identity`: a removal is one step on the row,
  which an invite may still refuse.
* Identity: invites to a platform role have no tenant, and a null escapes the
  unique key of `UserInvite`; they and invites of several tenants are not
  modelled. Roles, names, passwords and codes are left out, and their refusals
  (a missing CPF, a platform role) are refusals that may always happen.
* Notes, dates, sorting and audit lines change no guard.

## 3. Runs

| Run | Asks | Bounds | Result |
|---|---|---|---|
| `Settled` | do orders, deliveries, charges, payments and what is told of them ever disagree except by a race, or a handler stopped half way? | 2 orders, 2 deliveries, 2 payments, 2 drivers and a stranger, 2 handlers that may die, six workloads; payments by finalisation only | 9 properties hold |
| `Concurrent` | what can nothing break? | the same with 1 driver, every endpoint | 4 properties hold |
| `CompletionConcurrent` | is a route always finalised and paid for, however its last orders are concluded? | 3 orders of 1 route, 3 payments, 3 handlers | 2 invariants, 2 liveness properties hold |
| `CompletionOneByOne` | do one-at-a-time handlers implement `RouteContract`? | 3 orders, 2 routes, 2 drivers, 1 handler | refinement and transitions hold |
| `Maps` | circuit, retry and cache under overlapping calls | 2 callers, 2 queries, thresholds 2, reset 2, period 3, ttl 1 | 6 properties hold |
| `Identity` | do accounts and rows stay together under overlapping handlers that may die? | 2 handlers, 2 invites, 2 accounts, 1 address and one more by edition | 5 properties hold |
| `Office` | does each of the tenant's desks keep its records sound under two overlapping requests that may fail or die anywhere? | 2 handlers, 2 tenants, 2 or 3 rows of each kind, eleven desks | 8 properties hold |
| `OrderRoutedTwice` | "não estão disponíveis para roteirização" (`delivery.service.ts:182`) | 1 order, 2 creates | violated |
| `RejectionStrandsOrders` | a rejection gives its orders back (`delivery.service.ts:464`) | 1 order, 1 handler | violated |
| `DoublePayment` | "já possui um pagamento associado" (`payments.service.ts:77`) | 2 orders, 2 handlers | violated |
| `ReinvitedLockedOut` | somebody removed may be invited again (`users.service.ts:165`) | 1 handler, 2 invites, 2 accounts | violated |
| `NeverRetried` | "Vale a pena tentar novamente" (`maps.exceptions.ts:121`) | 2 callers, 2 attempts | violated |

**Why the bounds are enough.** Each interesting disagreement in this code needs
two handlers, two deliveries that compete for an order, or two orders of one
delivery. In `CompletionConcurrent` three orders and three handlers let two of
them conclude orders while a third still counts or pays. All endpoints at once with two handlers exceed what TLC finishes
in minutes, so `Settled` and `Concurrent` are the union of six workloads chosen
in the initial state; each puts together the endpoints that compete for the same
rows, and `MCDeliverySystem.Workload` names every bound:

| Workload | Explores | Handlers | Orders, deliveries, payments |
|---|---|---|---|
| `routing` | create, liberar, rejeitar, remove | 2 | 2, 2, 0 |
| `unloading` | orders taken off a route its driver works on, which is held, released, removed | 2 | 2, 1, 1 |
| `holding` | edition of driver or vehicle, with holds, against decisions and the driver | 2 | 1, 1, 1 |
| `editing` | the orders of a route changed while it is driven or removed | 2 | 2, 1, 1 |
| `moving` | orders moved from route to route | 1 | 2, 2, 1 |
| `books` | payments made, paid, reverted and changed against each other and the route | 2 | 1, 1, 2 |

A handler may be refused or die at any step of any of them. `Settled` goes no
further from a state in which every delivery that is left has been written in a
race: its properties say nothing of what follows. `Concurrent` looks at no
history and keeps none. In `editing` an edition names no other driver than, at
most, the unknown one; changes of driver race in `holding` and go with changes of
orders in `moving`.
`Maps` bounds
only `failures`, which failed probes raise for ever; `MaxFailures` leaves
room for a trip, a late failure after it and a failed probe.

`Identity` is bounded by its ids alone; two invites and two accounts are what it
takes to remove somebody and invite them again. `MCIdentity` gives ids out in
order, lets one handler manage invites and die and the other make and edit users
(both accept, log in and remove), and allows a second invite only where no
address has been edited.

`Office` explores the six modules over `Office` side by side without multiplying
them: a behaviour stays at the desk it starts at, so the states are the sum of
the desks' and not their product. The modules share no variable that a property
relates, which makes this no loss. Desks split a module where all of its calls
at once would be too many:

| Desk | Explores | Bounds |
|---|---|---|
| `regions` | create, update, remove of regions, two handlers | 2 regions of one tenant, 3 CEPs, 3 drafts of which two are namesakes, 2 patches |
| `freight` | a preview or a price while one handler changes regions | as above, routes of 1 or 2 orders |
| `approval` | create, update and their rules while settings change | regions made beforehand, 4 bodies of settings, one change during a route |
| `vehicles`, `drivers`, `categories` | each with what refers to it, two handlers | 3 drivers, 2 vehicles, 2 categories, 2 users, 2 keys, 2 tenants (categories: 1) |
| `platform` | users made, edited, removed by either side, roles flagged | 3 users, 1 tenant |
| `tenants` | tenants made and removed under their users | 2 users, 1 tenant |
| `intake` | two uploads | 7 files of up to 3 lines over 3 numbers |
| `notifications` | sockets and notices | 3 sockets, 2 users, 2 notices, restarts |
| `proofs` | two uploads | 2 orders, 2 drivers, 2 extensions, 2 milliseconds |

Two handlers are what a race takes, two rows what a clash or a reference takes;
a third driver is the other tenant's, a third socket lets one of a user's two go
while another user stays. The conditions under which a desk is kept small are the
definitions named after it in `MCOffice`. The two handlers are interchangeable,
so the run uses them as a symmetry set.

**Deadlock.** `CHECK_DEADLOCK FALSE` is set in the delivery, identity and office
runs because those instances really stop: ids run out, and a finished tenant has
nothing to do.
`Maps` has no such line.

**Fairness.** `Completion` assumes weak fairness of each handler's next step:
Node resumes every handler whose database call has answered. It is assumed only
where no handler dies. Nobody is obliged to call. `Identity` assumes the same of
handlers that do not die. `Maps` assumes that an attempt ends (axios is given
`timeout`), that timers fire, and that time passes; nobody is obliged to ask, which
is why recovery is stated under the condition that the provider keeps being asked.

## 4. What the runs show of this code

Under any interleaving and with handlers refused or dying anywhere: free orders
are on no route, rejections stay on record, and booked payments keep their driver
and what they were computed from, and are never linked to another delivery. The last conclusion of a route
is never overlooked, because each handler counts after its own write, and the
payment follows.

Also under any interleaving, for every delivery and payment that no overtaken
handler has written (`raced`): a delivery goes through its life cycle and no other
way, is not removed under its driver, and does not run once rejected; nothing
enters a finalised one; its orders stand where it stands; it is paid at most once,
to its driver; and a payment's status changes only as its endpoints grant.
If, besides, no handler stopped there between two writes (`abandoned`): none of a
running delivery's orders waits for release, what it carries is in its totals and
in its payment, once finalised it is paid, and what is told agrees: what a driver
hears he will receive with what the books owe him, and what the office counts
with what the drivers see.

The second condition is not only about crashes. One `PATCH` of a delivery,
overlapped by nothing, can leave it so: with a driver that does not exist, it
commits the new list of orders and holds them (`delivery.service.ts:705`, `:777`)
before the driver is refused (`:799`), so that orders wait on a running route that
nobody can release, or are carried by a route whose freight does not count them;
and with a list whose freight is refused (`:753`, or `:886` when an order is
removed), the second alone. Finalisation then pays the freight of the old list.
The code promises nothing of such calls but their error, so no violation run is
made of them.

No account the server made is left without its row unless a handler still has
the row to make or the account to undo (or died with that), no removed user keeps
an account, and an invite is accepted only if it made somebody a user, whatever
overlaps and whoever dies.

In the office, with two requests overlapping and dying anywhere: two regions of
a tenant clash only if one was written while the other was being checked; a
freight nobody disturbed is that of the regions under which statistics count its
orders, and asks for approval exactly when the tenant's rules say so; vehicles,
drivers, categories and users stay whole and within their tenant, and codes have
neither gaps nor doubles; uploads tell the truth of what they stored; every open
socket is found; every proof shows a picture of its order; and nobody is the last
administrator to go except by a race, or by somebody of the other side.

Five statements of the code's own messages or comments do not hold, and each has
a violation run and a finding: an order routed twice by overlapping creates;
orders stranded by every rejection; two payments for one delivery when its last
orders are concluded at once; retries that never happen; and a person invited
again after a removal, whose acceptance fails on the invites' unique key after
the row is committed, is left a user who can neither log in nor be removed.

What the excuses above stand for, and other effects that no document promises
against, so that they have no violation run:

* liberar and rejeitar of one delivery both find it `A_LIBERAR`; it ends in the
  state of whichever commits last, with both decisions on record
  (`RejectedNeverRuns`, `delivery.service.ts:400`).
* remove reads before the driver leaves and deletes after
  (`LifecycleIsRespected`, `delivery.service.ts:839`).
* update and removeOrder write a status, totals and a driver they decided on
  before the delivery was finalised, rejected or edited by another
  (`LifecycleIsRespected`, `FinalisedIsClosed`, `CarriedOrdersAreCharged`,
  `delivery.service.ts:799`).
* a late order write of one handler reopens an order another one has concluded
  (`OrderStepsAreValid`, `delivery.service.ts:562`); `ConcludedGetsFinalised`
  has its second alternative for that.
* markAsPaid pays a payment cancelled since it was read (`PaymentsChangeAsAsked`,
  `payments.service.ts:217`).
* a handler that stops between holding the orders and holding the delivery leaves
  waiting orders on a running route (`OrdersFollowTheirDelivery`,
  `delivery.service.ts:777`).
* a cancelled invite ends up accepted, or an accepted one cancelled or expired,
  since each handler writes the status it decided on (`invites.controller.ts:184`).
* a first login admits the holder of an expired invite
  (`firebase-auth.provider.ts:76`).
* an edition that fails after the provider has been told leaves the account
  disabled and the row active (`users.service.ts:397`).
* two superadmins who remove each other at once both succeed
  (`users.service.ts:815`).
* two overlapping calls store regions that overlap (`directions.service.ts:93`),
  and two patches of one region, each with its other end as read, can leave it
  with its ends crossed (`directions.service.ts:239`).
* a null line ends an upload in an internal error with its earlier lines stored
  (`orders.service.ts:134`).
* one address with two expired invites stops `cleanupExpiredInvites` for good
  (`invites.service.ts:224`).

Notices are stored, but pushed to nobody: the map of sockets is keyed by the
Firebase uid, and `sendToUser` is given the database's key
(`realtime-notification.provider.ts:32`). `SocketsAreFound` is therefore about
the map, and about the strangers a notice does not reach.

And two effects in the maps adapter that no property is stated about, since nothing promises
otherwise: `optimizeRoute` keys its cache by the sorted addresses, so a caller
can be served another request's order ids (`google-maps.adapter.ts:81`;
`AnswersShareTheKey` is the guarantee there is); and the answers a circuit
counts as success include a refused address (geocode), while "no result" of the
other operations counts as a failure of the provider.

## 5. Proofs

TLC checks the instances above; these theorems hold for every value of the
constants. Those marked 1 have `OneAtATime` as a hypothesis (at most one request
slot: calls do not overlap), the condition of the run `CompletionOneByOne`; those
marked 2 have `NoPaymentByHand` (payments are made by finalisation only), that of
the run `Settled`. The others hold for any number of overlapping handlers.

| Theorem | States | Argument |
|---|---|---|
| `DeliverySystemProofs!TypeCorrect` | `TypeOK` | with what each `pc` says of its record, and drivers of rows |
| `DeliverySystemProofs!BooksStayFixed` | `BooksAreFixed` | action property, from that invariant |
| `DeliverySystemProofs!FreeOrdersStayOffRoute` | `FreeOrdersAreOffRoute` | likewise: nobody writes `SEM_ROTA` by accident |
| `DeliverySystemProofs!RejectionsAreRecorded` | `RejectionIsOnRecord` | `REJEITADO` and the approval are written in one transaction |
| `SettledProofs!LifecycleHolds` | `LifecycleIsRespected` | action property: what a handler not overtaken has read still holds when it writes |
| `SettledProofs!FinalisedStaysClosed` | `FinalisedIsClosed` | likewise: `create` finds its row absent, `update` its delivery editable |
| `SettledProofs!PaymentsMoveAsAsked` | `PaymentsChangeAsAsked` | likewise: the payments of a request are as it read them |
| `SettledProofs!RejectedStaysRejected` | `RejectedNeverRuns` | only a delivery found `A_LIBERAR` is rejected or released |
| `SettledProofs!OrdersAlwaysFollow` | `OrdersFollowTheirDelivery` | orders agree with their delivery, or a handler is about to make them, or stopped |
| `SettledProofs!ChargesAlwaysCover` | `CarriedOrdersAreCharged` | likewise for totals |
| `SettledProofs!AlwaysPaidOnce` | `PaidOnce` | a second link takes a handler whose check is outdated |
| `SettledProofs!PaymentsAlwaysMatch` (2) | `PaymentMatchesDelivery` | what is paid is finalised, so driver and charge are settled |
| `SettledProofs!ViewsAlwaysAgree` (2) | `ViewsAgree` | from the invariants above, by counting |
| `CompletionProofs!LastConclusionIsAlwaysSeen`, `FinalisedIsNeverForgotten` | the two safety halves of completion | for any number of orders, routes and handlers |
| `CompletionProofs!OrderStepsStayValid` (1) | `OrderStepsAreValid` | the transition a handler was granted still is one when it writes |
| `CompletionProofs!HandlersKeepContract` (1) | `KeepsContract` | refinement of `RouteContract`, one step per action |
| `MapsAdapterProofs!CircuitStaysSound`, `TypeCorrect`, `AnswersAlwaysShareTheKey` | circuit and cache | one lemma per service method, then one step per action |
| `IdentityProofs!AccountsAreAttended`, `RemovedStayOut`, `AcceptanceMakesUsers`, `TypeCorrect` | `NoAccountUnattended`, `RemovedUsersHaveNoAccount`, `AcceptedInvitesMadeUsers`, `TypeOK` | one inductive invariant for the four |
| `RegionsProofs!ClashesAreRaces` | `RegionsClashOnlyByRace` | what a handler has compared holds, or the row is among those written since |
| `RegionsProofs!FreightAlwaysAgrees` | `FreightAgreesWithStatistics` | while nothing is written past a quote, its partial results are the reference's |
| `FleetProofs!ReferencesHold` | `FleetIsWhole` | existence by the keys at the write, the tenant by what was looked up |
| `FleetProofs!NumbersHaveNoGaps` | `CodesAreConsecutive` | a number drawn and not yet used belongs to the holder of its sequence |
| `OfficeProofs!MapAgreesWithSockets` | `SocketsAreFound` | a socket being verified already has its user |
| `OfficeProofs!LastAdministratorStays` | `LastOneStays` | action property: a request nobody overlapped still has its requester as read |
| `OfficeProofs!RowsHavePictures` | `ProofsHaveTheirPicture` | a handler about to write its row has a picture under its name |
| `OfficeProofs!UploadsAnswerTruly` | `AnswersAreTrue` | lines behind an upload are stored or reported, at every line |

The inductive invariant of `DeliverySystemProofs` is `TypeOK` with what each step
needs of its handler's record and with the drivers of rows. `TypeOK` alone is not
inductive: a step writes `req[r].to`, `req[r].driver` or the row `req[r].d` into a
table, and only what the handler's `pc` says of its record tells that these are a
status, a driver and a delivery.

`SettledProofs` rests on `ReadsHold`: at each of its steps, the record of a handler
that has not been overtaken agrees with the rows it was read from (`StillTrue`).
It is kept because whoever changes such a row puts the handler in `overtaken`
(`NotOutdated`), and it gives the three action properties at once. The others are
about rows that several writes bring back into agreement. Their invariant (`RInv`)
says of each delivery that is not in `raced` that it is `Whole`: a rejection on
record is its state; its orders agree with it, or a handler is at a step that will
make them, or it is in `abandoned`; likewise its totals and its payment. A step
is of one of three kinds for a given delivery (`SparedOrWritten`): it spares it, so
that its rows and the handlers at work on it stay as they were (`SparedIsWhole`);
it is a write to it by a handler not overtaken, whose record may be believed
(`WrittenAgrees`, `WrittenCovers`, `WrittenIsLinked`, one case per step); or the
delivery is in `raced` from then on. A handler that goes on after a write is in `begun` (`WrittenHasBegun`), so
that one which is refused or dies at work puts its delivery in `abandoned`. When `Quiet`, nobody is at work, and the property remains. `PInv`
adds that whatever is paid for is finalised; a payment made by hand may precede the
end of the route, and the comment of `PaymentMatchesDelivery` says it promises
nothing then.

In `CompletionProofs`
the strengthening (`UnderwayInv`) is that a handler about to write an order holds
that order's own delivery, so that its write disturbs the unfinished orders of no
route but the one it counts next, and that a payment not yet made has no link.
For the refinement, `OneInv` says where the one handler stands with its route. A
route is owed to its driver (`PromisedTo`) exactly when it is over, and it is over
from the write of its last order on (`PromisesFollow`): that write is the step of
`RouteContract`, while counting, finalising and booking stutter, as do the
calls that refuse (`ContractStep`).

In `MapsAdapterProofs`
the strengthening is that entries lie under their own key, and that a caller
waiting for its timer has an attempt left. In `IdentityProofs` it is `Holding`,
what a handler may still rely on of what it read: an invite and an account once
made keep their addresses (`Grows`), the account of a row about to be dropped is
deleted for good, and the row of an invite about to be marked has been made. Each
action is shown to establish this for its handler; `OthersHold` shows at once that
no step takes it from another, and three lemmas list the only writers of rows,
accounts and invites.

In `RegionsProofs` the strengthening says what a handler still knows: every row
of its tenant clashes with what it means to write in no way it has looked for
(`NamesSeen`, `RangesSeen`), unless the row, or its own, has been written since.
A write then either finds its comparison true or adds the pair to `raced`. An
update that does not rename never looked for namesakes, and for it the invariant
carries over what excused the pair before. For freights, `FreightInv` says of a
quote nobody has written past that each partial result is what the
tables give: the tenant's type (`TypeSeen`), the dearest region of the orders
done (`PricesSeen`), the rules (`RulesSeen`); a write to a region or tenant marks
every quote on its way, so it owes nothing to those. At most one region of a
tenant covers a CEP when no clash has been raced in (`ClashInv`), so the dearest
the calculator finds is the one statistics assign. The rules compare totals,
which are a recursive function over the route's orders; that it has values, and
that they are natural numbers, is shown by taking the least length for which it
would not (`LeastOf`, from the well-foundedness of the natural numbers).

In `FleetProofs` the two
halves of a reference are kept apart: `Aims` says that a handler carries only
ids of its own tenant, which no step can undo because rows do not change
tenants; that the id is there is what the foreign key checks when it is written,
and what every removal is refused over afterwards. For the codes the invariant
(`Begun`, `DriverCodes`, `VehicleCodes`) counts a number that has been drawn as
given to the handler that holds its sequence, until it is inserted or rolled
back. In `OfficeProofs` the strengthenings are local to a handler: who a socket's
token names, what a fresh request has read of its requester, where a handler's
file is, and which lines an upload has left behind.

Only model-checked: the six liveness properties (`ConcludedGetsFinalised`,
`FinalisedGetsPaid`, `CallsEnd`, `OpenPeriodEnds`, `RecoversWithTheProvider`,
`UnattendedIsResolved`), since reasoning about fairness needs `ENABLED`, which is
out of the prover's reach. Every other property of the passing runs is a theorem.

The assumptions are on constants only: `NoneIsNoId`, `StrangerIsNoDriver`,
`MayFailIsBoolean`, `TablesAreFinite` (orders and deliveries are rows of a database),
`BreakerConfig`, `AdapterConfig`, `IdentityConfig`, and in `Office` one per
module over it (`RowsConfig`, `RegionsConfig`, `FleetConfig`, `PlatformConfig`,
`IntakeConfig`, `NotificationsConfig`, `ProofUploadConfig`); TLC evaluates them
in the runs of the modules that have them.

## 6. Plan

In order of what the product depends on most:

1. *Done:* delivery, payments, completion, the maps adapter, identity, the
   office; their types, concurrent safety and completion proved.
2. *Done:* refusals after a write, the invariant of overlapping operation and the
   nine properties that rest on it; the refinement of `RouteContract`; the agreement of freight
   and statistics.
3. Transactions split into statements, for `remove` against a concurrent
   `update`, where READ COMMITTED lets an order be added between `updateMany` and
   `delete` (the foreign key is SetNull, so it would keep its routed status).
4. An abstract `Account` (invited, active, gone) that `Identity` should refine
   where no step fails, and invites without a tenant.
5. `Delivery` over `Regions`, with prices and rules in place of both answers, for
   the charges of a route whose regions change.

## 7. Not modelled

* **Route planning endpoints.** Each asks the adapter, which is modelled, and
  answers. The optimised route is inserted without being awaited and never
  changed, and nothing else reads it but the lists. The tenant of a user is
  cached for fifteen minutes; it can be stale only if the tenant has been removed
  meanwhile, since `User.tenantId` changes in no other way. That errors of the
  adapter are answered with status 200 and `success: false` is wording.
* **E-mail, landing leads, user settings, exception filter, logging.** Templates
  and formatting, single rows written by one statement, no state.
* **Authentication guards**, beyond what they admit (`Platform.Enters`,
  `Identity.LoginToken`): stateless checks of a token Firebase has verified.
* **`DriversService.updateOrderStatus` and `saveProof`**, which require an
  `order.driverId` that no code sets; statistics that filter by it count nothing,
  as `Views.ordersCount` says.
* **Roles** are never made, renamed or removed: the validation pipe refuses
  a body that names one, and the seed's four are held by rows. Their platform
  flag is modelled.
* **Names** of drivers and categories under a race (no key keeps drivers' apart),
  licences, addresses.
* **Torn reports**: statistics put a dozen queries into one answer; `Views` is as
  of one state.
* **The connection pool**, which `acceptInvite` asks for a second connection
  while it holds one (`invites.controller.ts:147`).
* Interleaving inside a transaction, as said above.
