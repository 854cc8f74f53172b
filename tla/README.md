# Nexraah: a TLA+ model of the load, from its rate to its last rupee

Nexraah is a freight broker's operating system: a client's load (an *indent*) is quoted by
transporters, awarded to one, loaded on a truck, driven, delivered, proved with a signed paper
(the *POD*), billed to the client and paid to the transporter. This directory holds TLA+ modules
of the services that decide those things, and of what stands around them: the transporter's file
and its papers, the agreed rates, the client's order, the notifications, and the transporter's own
portal with its retries. TLC configurations check the modules on small instances, and proofs, checked
by TLAPS, establish their main properties for all instances.

Paths below are relative to `src/apps/internal-api/src/modules/` unless they begin with `src/`.
`PROJECT.json` ties every definition to the lines it models.

Contents: [Inventory](#inventory) · [How the code runs](#how-the-code-runs) ·
[Modules](#modules) · [Runs](#runs) · [Bounds](#bounds) · [Fairness](#fairness) ·
[Proofs](#proofs) · [Deviations with a run](#deviations-with-a-run) ·
[Deviations without a run](#deviations-without-a-run) · [Not modelled](#not-modelled) · [Plan](#plan)

## Inventory

`internal-api` (NestJS over Postgres) holds all logic and makes all writes. `vendor-api` is a
proxy with no database; the portals and the mobile app are screens.

| Component | State it keeps | Operations that change it | What makes it correct |
| --- | --- | --- | --- |
| Indents (`indents/`) | `indents`, `quotes` | record, correct, remove a quote; award; cancel; reassign; placement; vehicle correction | one live quote per transporter; load, quotes and trip tell one story; a paid advance is never undercut |
| Portal: loads and quotes (`portal/portal-loads.*`) | `quotes`, idempotency ledger | submit and withdraw a quote | a quote lands only on an open load |
| Approvals (`approvals/`) | `approvals` with a stored action | raise, approve (replay), reject, withdraw, amend, resubmit | what is approved is what is done |
| Trips (`trips/`) | `trips`, `trip_documents`, `lorry_receipts`, tracking | supervisor, loading, papers, lorry receipt, departure, delivery | milestones in order; one truck; no departure without loading and papers; an issued receipt is never taken back |
| Proof of delivery (`pod/`) | `pod_receipts`, the trip's POD columns, waivers | docket, receive, E-POD, hard copy, verify, reject, approve, waive | the clock matches the proof; two pairs of eyes; every proof ends |
| Shortage records (`sdr/`) | `sdr_records`, `sdr_recoveries` | open, resolve, waive, recover | every rupee deducted is owed, written off or recovered |
| Payments (`payments/`) | `payments`, `vendor_bills` | advance, balance, raise / query / accept a bill | money leaves once and on grounds |
| Scheduled jobs (`jobs/`) | trips' penalty and forfeiture | nightly POD ageing; others report or remind | an unsent proof is forfeited, a sent one never is |
| Invoicing (`invoicing/`) | `invoices`, `invoice_trips`, `receipts`, `trips.billed` | create, update, generate, cancel, receipt | a trip is billed once; a total never moves under a receipt |
| Orders (`orders/`) | `orders`, `order_events` | recompute, create, reconcile | the order shows where the load is |
| Vendors, compliance, leads (`vendors/`, `compliance/`, `leads/`) | `leads`, `vendors`, `vendor_kyc`, `vendor_documents`, advance history | convert a lead, upload and verify papers, submit, activate, suspend, reinstate, edit, branch and advance policy | nobody reaches the panel without verified papers; nobody is refused an award unwarned; terms move by approval |
| Clients' rates (`clients/rate-*`) | `rate_card_lanes`, `rate_revisions` | propose, add, edit, delete, correct, sign, win at a quotation | one rate in force on a day; what is signed is what was shown; no past day is repriced |
| Notifications (`notifications/`, raised by most others) | `notifications` | raise, remind, claim, send, record | raised with its change; told once; a row comes to rest |
| Portal: retries (`portal/portal-idempotency.*`, `apps/vendor-portal`, `apps/vendor-api`) | `portal_idempotency_keys`, a page's key | seven writes behind one ledger | one submission is one write, and the transporter is told |
| RFQ | quotation versions | draft, submit, approve, win | a won quotation becomes lanes |
| Numbering | counters | issue | no gap, no duplicate |
| The rest: tickets, telematics, tracking links, import, reports, P&L, targets, assistant, OCR, users, roles, config, audit, attachments | single-row edits or reading | | |

### How they interact

There are no messages between services: they share rows. The `trips` row is where they meet. The
award creates it, the trip desk moves its stage, the POD desk and the nightly sweep write its POD
columns and close it when it is forfeited, invoicing sets `billed`, payments set `advance_paid` and
`balance_paid`, and whichever of invoice and payment comes second closes it. `approvals.approve`
calls back into the module that raised the request, inside its own transaction. After a commit
most handlers call `orders.recompute`, whose failure is logged and forgotten. Notifications are rows
inserted in the change's own transaction behind a savepoint, and a job that may run in several
processes sends them. The award reads the transporter's standing and papers; the load is priced from the lanes.

### What is hard here

* **Reads outside the transaction.** The portal checks the load's stage before the transaction
  that inserts the quote; the award looks at the band without a lock; the advance and the departure
  read papers on another connection; the draft of a lorry receipt reads with no transaction at all;
  the sweep works down a list read before any lock.
* **Long sequences of legal calls.** Award, reassign, award again, correct, cancel; receive, reject,
  receive again; waive, then approve; issue, cancel, pay in any order. Each handler rewrites some
  of the columns the others rely on, and tests call them two or three at a time.
* **Decisions of several actors in one column**, such as `pod_closure_basis`, which holds an
  approval, a waiver or a forfeiture, whichever was last.
* **Money at its edges.** A balance of zero, a deduction larger than the balance, a window counted
  from two different days.
* **Time.** Ageing runs once a night; the release has its own look at the clock; papers lapse and rates
  start on days that four places compare for themselves.
* **A request in several transactions.** Proposing, editing and deleting a rate, and recomputing an order,
  are two or three transactions or bare statements, any of which may be the last.
* **Lost answers.** A page, axios or the proxy stops waiting while the server works on, and the transporter
  taps again; a worker stops between sending a message and recording it.

`PROJECT.json` lists 40 such hazards with the line where each bites and the properties that cover
it, or the reason none does yet. Of some the code lets the bad outcome itself happen; the property then excepts
exactly that history, by a ghost or by name, and catches every other way to it, and the hazard's note says so. Those
outcomes are under [Deviations without a run](#deviations-without-a-run).

## How the code runs

Every desk handler opens one Postgres transaction, takes the row it is about with
`select … for update`, reads, refuses or writes, and commits. Isolation is the default, READ
COMMITTED. Such a handler is **one action**: its guard is the conjunction of its refusals, and its
primed variables are its writes, helpers included. Where a handler reads something another handler
can change before it writes, it is **two actions**, and a variable holds what it read:

| Handler | Actions | What is remembered |
| --- | --- | --- |
| portal quote, `portal-loads.service.ts` | `PortalCheck`, `PortalInsert` / `PortalAbort` | `portal` |
| award, `indents.service.ts` | `AwardPreview`, `AwardDirect` / `AwardDropped` | `preview` |
| advance, `payments.service.ts` | `AdvanceCheck`, `AdvancePay` / `GateLost` | `gate` |
| departure, `trips.service.ts` | `DepartCheck`, `Depart` / `GateLost` | `gate` |
| lorry-receipt draft, `trips.service.ts` | `PatchLrRead`, `PatchLrWrite` | `draft` |
| nightly sweep, `jobs.service.ts` | `SweepStart`, `SweepTrip` / `SweepLost` | `sweep` |
| order's recompute, `orders.service.ts` | `ReadLoad` … `GetOrder`, `Insert` / `WriteStatus`, `AppendEvent` / `Lost`: one action a statement | `job` |
| a rate proposed, edited, deleted, `rate-revision.service.ts` | one action a transaction, and one for each unlocked reading before a write | `request` |
| notification worker, `notifications.service.ts` | `Claim`, `SendMail` …, `Record` / `Stop` | `work` |
| portal write, `portal-idempotency.repository.ts` | the steps of `Handler(endpoint)`, one statement each | `req` |
| onboarding, link, update, activation, `vendors/` | `CreateCheck`, `LinkCheck` and `LinkTwin`, `UpdateCheck`, `StartDecision` / `ReadDocuments`, and their writes / `Drop` | `request` |

A handler in the middle of its transaction holds its row: in Dispatch `gate` is that lock, and
handlers that take it wait (`Unlocked`), handlers that do not, do not. A lost connection rolls back,
which is the second alternative in the table. A request repeated with the same idempotency key
returns what the first one made and changes nothing, which is a stuttering step. Permissions and
the validation of request bodies are taken as passed.

## Modules

| Module | Stands for | Abstract or composed with |
| --- | --- | --- |
| `Award` | one load: quotes at the desk and from the portal, award, above-band approval, cancel, reassign, corrections of the rate, advance | |
| `Dispatch` | one awarded load until it is unloaded: vehicle, loading, papers, lorry receipt, advance, departure, delivery, cancel, reassign and award again on the same row | |
| `TripAccount` | what the parts owe one another about a trip: stage, billed, paid | abstract specification |
| `Settlement` | one trip from the road to its last rupee: proof, sweep, shortage, waivers, bill, balance; its own invoice | implements `TripAccount` (`KeepsAccount`) |
| `Invoicing` | invoices over several trips | implements `TripAccount`, one instance per trip (`KeepsAccounts`) |
| `Orders` | the order of one load: every statement of a recompute, the writers that tell it and those that do not | |
| `RateCard` | the agreed rates of one client for one route: lanes, revisions, approvals, desks with a request in flight | |
| `Outbox` | the notifications of a few occasions, from the change to the mailbox | |
| `Portal` | the pages of one transporter, the proxy, the seven writes and their ledger | |
| `Vendors` | a transporter's lead, papers, decision, hold, branch and advance policy, and the readers of its papers | `Award`'s `standing` is what is left of it there |
| `MC…` | TLC's instances: symmetry and bounds | |
| `…Proofs` | inductive invariants, lemmas and theorems | |

### Award

`indent`, `quote`, `trip` are the rows; `portal` and `preview` the requests between their read and
their transaction; `pending` the approvals of above-band awards; `standing` what the vendors table
says. `LiveQuotes` in `InsertQuote` is the unique index `quotes_one_live_per_vendor`. An award revives a
set-aside trip of the load if there is one (`AwardTrip`); `Cancel`, `Reassign` and `CorrectQuote`
take whichever trip row the unordered query finds, so they choose one. `slips` is a ghost that
records the two orderings no lock excludes: a portal quote that commits after the load stopped
being open, and an advance released on a set-aside trip. The properties say what holds in all
other histories. What the first slip leads to, a load with two trips, is `NeverTwoTripNumbers`, which no run
repeats.

The trip's desks appear in `Award` as far as the award depends on them: `IssueLr`,
`VerifyPapers`, `Depart` and `ReleaseAdvance` drop guards that `Dispatch` has, so `Award` allows
more than the code does there, never less.

### Dispatch

`marks` is the set of milestones whose timestamp the trip holds, reached by the supervisor's
buttons or by the tracking sheet. `doc` keeps two kinds of paper, the ones the code treats
differently: a loading slip, which a lorry receipt stands in for, and the keyed papers of the
cross-check, of which only the vehicle number is kept (`keyed`). `lr.code` distinguishes no code, a
draft's code and an issued number, which is what the gates ask. `loaded` is a ghost: the truck
that was in place when loading was marked complete, renamed when its number is corrected.

### Settlement

Time is in days. `rows` are the receipts in order of insertion: what was received at the desk
(`PAPER`, `EPOD`) and what only announces it (`DOCKET`: a courier's number or the transporter's upload).
`sdr` keeps counts and sums instead of records; `sign` is read off the audit log. `Pay` is the whole of
`releaseBalanceForTrip`: penalty, deduction with its floor (`Recovered`, which is `planRecovery` for the
records of one trip), payment row, trip and closing. `AcceptBill` releases at our figure or at the transporter's.
The forfeiture refusal in the code writes before it throws; the transaction undoes the writes, so
`PastForfeiture` is a guard.

### Invoicing and TripAccount

`link` are the `invoice_trips` rows; `Linkable` is their `unique (trip_id)`, which ignores what became of
the invoice. Charge heads are reduced to the total they come to; the invoice number is taken in the
issuing transaction. `Depart`, `Arrive`, `Lapse` and `PayBalance` are what the other components do to a
trip while invoices are being made, in `TripAccount`'s terms. The module shares no name with
`Settlement`, because `MoneyProofs` extends both. What was received on an invoice is compared with
`SumFunctionOnSet` over its receipts, as `Settlement`'s records are with the sum over its `Payments`.

`TripAccount` is one variable, a trip's stage, billed flag and amount paid, and six actions. It is both
sides' assumption about the other: `Settlement`'s `Invoice` and `CancelInvoice` are `Invoicing`'s
`Generate` and `Cancel` seen from one trip, `Invoicing`'s four outside actions are `Settlement`'s (and
Dispatch's departure). Both are shown to implement it, so neither does to the trip what the other
does not expect.

### Orders

`facts` is what the ladder is computed from: the load, its trip, proof, advance, balance, receipt, papers and live
invoice. Their changes keep the guards the order can tell apart (`Sound`); the full guards are in the other
modules. `HookedChange` is followed by one recompute, `SilentChange` (award, failure tag, lorry receipt, sweep,
invoice) by none, as in the code. A recompute is `ReadLoad`, `ReadTrip`, `ReadPapers`, `ReadInvoice`, `GetOrder`,
then insert or update, then the event, each a bare statement, so `got` may mix several moments. `slips` records how an order
may have been left behind: a recompute lost, overtaken, or a change that called none. `Meant` is the
reference definition of the step: the furthest one borne out by `Evidence`, against which `StepOf`, the
translated ladder, is checked and proved (`StepOfIsMeant`).

### RateCard

A lane is a rate from a day to a day; an open end is `Forever`. A request's `at` says which of its transactions comes next
and what it has read; `Stops` ends it at any of them. `slips` says how two lanes may have come to overlap
(two readings at once, a change signed on a deleted lane, a lane won at a quotation), `marks` how a revision got out of
step with its approval (cut short, edits that crossed, an approval not yet linked). The bid band, branch and penalty
terms of a lane are left out.

### Outbox

`rows` is the table, oldest first. A worker holds what it claimed with the attempts it read then, and writes each
outcome by the row's id, whatever the row has become. Time is left out: at a claim any of the waiting rows may
be the due ones, and any `SENDING` row may have lapsed. `marks` and `tries` are ghosts (an answer lost, a claim lapsed, failures
counted). A row of the nightly jobs (`JOB`) has another payload, which the sender cannot read, and is given up unsent. So is the
SMS of an activation (`INVITE`) where the console has an address (`setup.url`), since the link to it is made from the text
before the channel is looked at (`notifications.service.ts:314`); without an address it is skipped.

### Portal

A page keeps one key until its write has succeeded; its requests run the steps of `Handler(endpoint)`, one
statement each, against the other requests, a lost answer, a restart and the desk. The unique indexes, the row and
key locks a transaction holds (`HoldsRow`, `HoldsKey`) and the rollback of the loser are in the guards. `since` tells which opening of a page
a request comes from. What the seven payloads hold is reduced to `Bodies`: of a quote its price, of a bill its number, of a truck
its registration.

`rows` are what the seven writes have inserted, `InTheWay` which of them stop another: the vendor's live quote on the load, the same
registration, the same bill number. A second bill under another number is written, as in the code. What the desk does to the same records
is `Desk`: `Award` decides the quotes and shuts the load, `Reassign` opens it again and may take the awarded quote back, `Cancel`
shuts it for good, `RemoveQuote` frees the vendor's place, `ApproveProof` opens the bill. `gate` is what a handler reads
of this before its transaction, `takenBack` the quotes the desk has withdrawn or removed.

### Vendors

`paper` keeps identity papers and documents by kind with status and last day; `proven` is a ghost of what Compliance has
ever verified, `stale` one of the leads linked on an old look. Submission and activation lock the row and read the two lists on other connections
(`StartDecision`, `ReadDocuments`, `WriteDecision`); uploads and verdicts take no lock. A link by hand is three unlocked
statements before its write; the reads of the transporter and of its other lead are one action (`LinkTwin`), because transporters are
never deleted, so nothing between the two could change the first. `Starts` are rows these handlers could have left.

`AwardRefused`, `BlockedInQueue`, `ShownExpired` and `InQueue` are the four readers of a paper's last day. They do not agree on every
paper. The award, the audit and the queue look at the legal papers only; the transporter's own page shows any verified business paper
as EXPIRED once its day has passed (`portal-profile.service.ts:233`), the TDS declaration (`Tds`) among them, which the desk's upload stamps
with 31 March (`Stamped`, `vendors.service.ts:611`) and which the award ignores by design: "a late declaration is chased, it does not stop a
truck". `LapseWasChased` is therefore about steps and about the other papers.

## Runs

`tlc -config X.cfg M` in this directory; each takes less than four minutes on two workers.

| Run | Result | States | Question, and what it shows |
| --- | --- | --- | --- |
| `award` | holds | 1.2 M | In every interleaving of desk, portal, approval, cancel, reassign, correction and advance: one live quote per transporter; load, quotes and trip consistent unless a portal quote was late; an advance within the rate and with the transporter it was paid to; nothing paid or departed set aside |
| `dispatch` | holds | 446 k | Through two ways of recording loading, swaps, corrections, a draft saved in between, reassignment and a second award: milestones in order, load and trip on one truck, departure loaded and with papers, issued receipts final |
| `settlement` | holds | 773 k | Proof, sweep, waivers, invoices, a shortage, a bill and two payment keys in every order: a payment keeps its grounds, a trip is closed exactly when settled or forfeited, the books balance and no balance is paid twice, and the trip's row moves as `TripAccount` says |
| `settlement_proof` | holds | 217 k | Two users, two receipts, four days, fair: the clock is stopped exactly while a proof is in the house, nobody but an administrator approves what he verified, every proof ends approved, waived, forfeited or received in time |
| `invoicing` | holds | 74 k | Three invoices over two moving trips: billed exactly while one issued invoice lists the trip, no total moves under a receipt, and every step is one of `TripAccount` |
| `invoicing_given_back` | violated | | A promise the code does not keep: see [below](#deviations-with-a-run) |
| `orders` | holds | 691 k | Two recomputes in flight against two changes from five points of a history: a quiet order that nothing slipped past shows the furthest step the records bear out, and a closed order is reopened only by a proof sent back or an overtaken write |
| `ratecard` | holds | 430 k | Two desks, three lanes, two changes over three days, each request cut where it may be: one rate in force on a day, a waiting change can be decided, the approver sees what he signs, no past day is repriced |
| `outbox` | holds | 1.7 M | Two workers over two rows from six setups: a notification only of a change that was made, nobody told twice but by a lost answer or a lapsed claim, given up only after all attempts, an answer stays |
| `outbox_rest` | holds | 194 k | One row, two browsers, three attempts, fair: what is SENT has arrived, and every row comes to rest though workers stop |
| `portal` | holds | 859 k | One page, or two side by side, that tap, lose an answer, are opened again and tap once more while the desk awards, reassigns, cancels, removes a quote or approves a proof: one write a submission, ledger and rows together, every success told is the stored one, and who keeps tapping is told |
| `vendors` | holds | 297 k | Conversions, links, uploads, verdicts and decisions between one another's reads: cleared on papers that were verified, leads and transporters matched, nobody refused by a paper the queue had not chased, the warning never short, a branch moved by approval |

Each property of a run that holds has a mutant in `PROJECT.json`: a definition changed the way a slip
of the code would change it, under which TLC finds the property violated. `PaidOnGrounds`, for
example, breaks when `reject` also accepts an approved proof, and `FourEyes` when only the service's
check of the latest receipt is there and not the trigger on every receipt.

### Why these properties

* `ConsistentUnlessLateQuote` relates three tables that five handlers rewrite in separate statements.
  Two awards with a reassignment between them are needed to break it.
* `AdvanceSecured` and `NoWayBack` relate the advance to rate, transporter and stage, each of which a
  different handler may change.
* `OneTruck` and `LrOnlyAdvances` follow a truck through allocation, swap, correction, a late draft and a second award.
* `LeftWithPapers` needs the window in departure, where papers are read on another connection.
* `ClockMatchesProof`, `PaidOnGrounds`, `FourEyes` and `EveryProofSettles` each fail only after receipt,
  rejection and receipt again, or after an upload nobody expected between two decisions.
* `BooksBalance` and `ReceiptsAddUp` are sums over tables that single handlers update by increments. `BooksBalance` also bounds
  what the second release can do that a balance of nothing lets through (`OneBalancePayment`, below).
* `BilledOnce` needs two invoices drafted side by side over one trip.
* `InStep` compares the stored order with a reference definition after recomputes that read mixtures of moments.
* `OneRateInForce` spans signing, correcting and deleting in separate transactions of two desks; `ShownIsWaiting`
  relates an approval to a revision that two transactions change one after the other.
* `ToldOnce` and `NotGivenUpEarly` need a slow worker whose claim was taken over.
* `OneWritePerSubmission`, `LedgerMatches` and `ToldInTheEnd` need a lost answer, a retry and often a restart or a quote
  withdrawn in between.
* `ClearedOnPapers` needs a paper replaced while an activation is reading. `LapseWasChased` compares four readings of the calendar from
  one step to the next, and breaks when an upload keeps the verdict of the paper it replaces.

Type invariants are not among the runs' properties: they are theorems (`TypeCorrect`, one of each module). Four more
theorems state what no run repeats: `LockedOnceIssued`, `PolicyByApproval`, `OneLive` and `BothHalves`.

## Bounds

| Module | Instance | Why it is enough |
| --- | --- | --- |
| Award | 2 transporters, 2 quotes, 2 trips, amounts 5 and 10 with the band at 5, advance 60 %; `CONSTRAINT Bound`: at most 2 requests in flight (`MaxInFlight`), at most 1 transporter out of standing | two transporters are needed to reassign, two trip rows to see a second number, one amount on either side of the band; the handlers look at one other request at most. Symmetric in transporters, quotes and trips; no liveness is checked with it |
| Dispatch | 2 trucks, 1 supervisor and none | a swap needs two trucks; a second supervisor only repeats what reassignment to none does to the marks |
| Settlement, money | 1 administrator, 2 payment keys, 1 bill, balance 3 with a bill of 4, a deduction of 2, penalty 3 a day, transit penalty 2, minimum 1, `MaxDay` 2, `MaxDelivery` 1, `MaxRows` 1, `MaxSdr` 1 | figures are chosen so that penalty and deduction can take less than, exactly, and more than the balance; two keys for a second release |
| Settlement, proof | 2 users, one an administrator, no payments, `MaxDay` 3, `MaxRows` 2 | two receipts are the least that hide one from "the latest"; forfeiture after 1 day and 0 free days stand for forty and twenty, which leaves days before, at and after the limit |
| Orders | 2 recomputes, 1 invoice, 2 changes, from no load, a load at the loading bay, one on the road, one with its proof verified, one paid | two recomputes are the least that overtake one another; two changes are one before and one during a recompute, and the proof holds for any number |
| RateCard | 2 desks, 3 lanes, 2 revisions, 2 approvals, 2 rates, 3 asks, days 0 to 2, 3 requests | two changes of one lane and their two successors; asks that start with, within and after the first lane's days |
| Outbox | 1 occasion from six setups, 2 workers, 2 rows, 2 attempts, batches of 2, 1 worker stopped; for liveness 1 row, 2 browsers, 3 attempts | two workers for one claim taken over; two browsers for a push that half arrives |
| Portal | page `p1` with 2 requests at once, alone, or `p2` and `p3` with 1 each, 2 bodies, 3 keys, 1 lost answer, 1 restart; a quote, status, paper, proof or bill alone, two pages quoting, two adding a truck, a quote and its withdrawal | two requests of one key for the race, two pages for two keys, one loss and one restart to tell them apart |
| Vendors | 2 leads, 2 transporters, 2 branches, 2 percentages, one identity paper, the declaration, two papers that lapse, 2 requests, 1 approval, warning 0 days, days 0 and 1, the financial year ending on day 0; `CONSTRAINT Bound` lets leads, terms or papers move in one history, never two of them, and papers have no dates while a request is under way | the three areas meet only in a transporter's status; with the year ending on day 0 a declaration lapses on day 1; the proof holds without `Bound`, for any warning and any days |
| Invoicing | 2 trips, 3 invoices, 2 receipt keys, totals 0 and 2, payments 0 and 1 | two invoices side by side and a third after one is cancelled; a total that two receipts pay, and one that none can |

The bounds inside specifications are constants: `MaxDay`, `MaxDelivery`, `MaxRows` and `MaxSdr` of
Settlement, `MaxChanges` of Orders, `MaxDay`, `Asks` and `MaxRequests` of RateCard, `MaxRows` and `MaxStops` of Outbox,
`MaxKeys`, `MaxLost` and `MaxStops` of Portal, `MaxDay` of Vendors; the proofs hold for every value of
them. The runs of the load's modules check for deadlock as well; those of Orders, RateCard, Outbox, Portal and Vendors stop
where a bound or the end of the story is reached.
`Tick` stops at `MaxDay`, after which the sweep goes on, so that liveness is not lost at the bound.

## Fairness

Three runs have a liveness property.

`settlement_proof`, `EveryProofSettles`, under
`FairSpec == Spec /\ WF_vars(Tick) /\ WF_vars(SweepStart) /\ SF_vars(SweepTrip)`.

* `WF(Tick)`: days pass.
* `WF(SweepStart)`: `@Cron('30 0 * * *')` starts the sweep every night (`jobs.service.ts:126`).
* `SF(SweepTrip)`: a run can be cut short before it reaches this trip, by a restart or by an earlier trip
  whose patch throws, which is `SweepLost`. Strong fairness says that this does not happen every night
  for ever. It is the least that will do: under weak fairness a run could be cut short there every night, and then nothing
  is promised. The code does not protect itself from a trip whose patch always throws; every trip behind it
  on the list would never be swept, and the assumption excludes that case.

No human step is fair: nobody has to verify, approve or pay. Hence `EveryProofSettles` ends in four ways,
one of them a proof received in time that waits for the desk.

`outbox_rest`, `ComesToRest`, under `WF(Send(w))` and `WF(Record(w))` for each worker, which finishes the batch in
its hand unless it stops, and `SF` of the claims for each row: a cron job runs every minute, but at any
one claim older rows may fill the batch or the row may still be held.

`portal`, `ToldInTheEnd`, under `WF(Serve(r))` for each request, since a server that is up finishes what it began, and `WF` of
the tap for each page. The second is about the transporter: whoever was not told and stays on the page taps
again. Without it nobody would ask for the answer.

## Proofs

`tlapm M.tla` for the eight `…Proofs` modules proves about 12 600 obligations. All theorems are of the form
`Spec => …` for every value of the constants that satisfies the named assumptions of the modules: null
is no row id (`NoneAssumption`, `TruckAssumption`, `StaffAssumption`, `NotHeldAssumption`, `UnsetAssumption`), amounts are naturals
(`AmountsAssumption`, `MoneyAssumption`), the percentage is at most 100, the free days do not exceed the forfeiture window
(`DaysAssumption`), what is asked for is a rate over days (`AsksAssumption`), there is at least one attempt (`AttemptsAssumption`), a
history begins with rows the handlers could have left (`StartsAssumption`), a paper is of one kind (`KindsAssumption`), a mail address is no
browser (`EndsAssumption`), and the pages of the portal are finitely many and have a key each before the first tap
(`PortalAssumption`). TLC evaluates each of them on the instances.

| Module | Theorem | Property | Argument |
| --- | --- | --- | --- |
| AwardProofs | `TypeCorrect`, `LiveQuotesUnique`, `StoryConsistent`, `AdvanceStays`, `NeverTakenBack` | `TypeOK`, `OneLiveQuotePerVendor`, `ConsistentUnlessLateQuote`, `AdvanceSecured`, `NoWayBack` | `IInv` adds `RowsComplete`: a row in use names its transporter, an unused trip has no advance, and the awarded quote exists. Without it a correction could move a rate with no owner, and a fresh row could bring an advance along. `AdvanceWithinRate` is the arithmetic of the rounded percentage |
| DispatchProofs | `TypeCorrect`, `MilestonesKept`, `SameTruck`, `NoDepartureWithoutPapers`, `ReceiptOnlyAdvances` | `TypeOK`, `MilestonesInOrder`, `OneTruck`, `LeftWithPapers`, `LrOnlyAdvances` | `IInv` adds `LrInv` (what a receipt's code says of its status, and what the lock of a departure keeps from happening to it) and `OpenInv` (an open load has no truck; a trip about to depart is open). `LeftWithPapers` covers the window itself, otherwise it does not survive `Depart` |
| MoneyProofs, of Settlement | `TypeCorrect`, `ClockFollowsProof`, `TwoPairsOfEyes`, `MoneyOnGrounds`, `SettledIsClosed` | `TypeOK`, `ClockMatchesProof`, `FourEyes`, `PaidOnGrounds`, `ClosedWhenSettled` | `IInv` adds `RoadInv` (nothing is received before delivery), `SignInv` (a verified proof carries its verifier's name on some receipt, which is what the trigger finds), `BasisInv` (the basis column says WAIVED only with a waiver recorded, FORFEITED only when forfeited; an amount paid has a payment) and `SdrInv` |
| MoneyProofs, of Settlement | `BooksAreKept` | `BooksBalance` | every rupee of a record is open, waived or recovered by a payment, what the trip was paid is the sum of its payments, and of two payments one came to nothing. `Books` adds that the payments are finitely many and none was for more than the trip shows, so that a release, which asks for a trip with nothing paid, finds only payments of nothing. A release adds one payment, under a key not used before, so a sum grows by exactly that one (`SumWithout`); all other steps leave the payments alone, and a waiver moves an amount from one side to the other |
| MoneyProofs, of Settlement | `ImplementsTripAccount` | `KeepsAccount` | initial states map to initial states and each of the twenty-four actions maps to one of the account's or to a stutter, by `IInv` |
| MoneyProofs, of Invoicing | `InvoicingTypeCorrect`, `OneInvoiceToATrip`, `IssuedIsLocked` | `InvoicingTypeOK`, `BilledOnce`, `LockedOnceIssued` | `InvoicingInv` adds `OneLink` (a trip has at most one link, the unique index) and `LinkInv` (only trips on the road are linked, and only to invoices that exist). Issuing looks at no trip: it is `OneLink` that keeps it from billing one twice |
| MoneyProofs, of Invoicing | `MoneyReceived` | `ReceiptsAddUp` | `AddsUp` follows the sum over an invoice's receipts as `Books` does the payments: a receipt of a key adds its amount to one invoice, a repeated key is no step |
| MoneyProofs, of Invoicing | `InvoicingImplementsTripAccount` | `KeepsAccounts` | as above, one instance of the account for each trip |
| MoneyProofs, of TripAccount | `AccountCloses` | `BothHalves` | paid and billed is closed; needs that only a trip on the road is billed, or `Depart` would undo it |
| OrdersProofs | `TypeCorrect`, `OrderShowsTheRecords`, `ClosedOrderStays` | `TypeOK`, `InStep`, `ReopenedForCause` | `IInv` follows one recompute left alone through its statements: `AloneInv` says that what it has read is what the records still say, `Attended` that as long as nothing slipped such a recompute is on its way or the order is in step; `ReadInv` and `EndKept` that an end once read or written is still there, which is what a closed order rests on. With `StepOfIsMeant`, that the ladder computes the furthest step borne out, the write puts it in step |
| RateCardProofs | `TypeCorrect`, `OneRateOnADay`, `WaitingCanBeDecided` | `TypeOK`, `OneRateInForce`, `WaitingIsDecidable` | `RateInv`: unless something slipped, one request at most has read the other lanes, and what it read still holds when it writes. `WaitInv` adds what kind of approval a desk holds between its two transactions (`LaneKinds`), so that nothing else closes a change's approval |
| RateCardProofs | `SignedStays`, `ApproverIsShown` | `SignedForGood`, `ShownIsWaiting` | `SignInv`: one approval to a change (`OneEach`), no approval without one (`Blank`, `About`, `Linked`), and for each request between its transactions (`Fits`): after the insert nobody has raised the change yet and its figures are the ones asked for, before a correction or deletion is written the approval in hand is the one of its own change, and a deletion that dropped its approval has turned it down. The marks `CROSSED` and `UNLINKED` are where this fails in the code and are excepted |
| RateCardProofs | `Reprices` | `RepricesFromItsDay` | of all steps only a signature gives a change its lane, and it closes the old one before the effective day, which is never a past one, and starts the next on it. That the new rate is the only one of its days needs `RateInv`: where no lanes had come to overlap, no other lane prices a day of the old one |
| OutboxProofs | `TypeCorrect`, `NothingOfAnUnmadeChange`, `GivenUpAfterAllAttempts`, `SentIsTrue` | `TypeOK`, `OnlyWithItsChange`, `NotGivenUpEarly`, `SentHasArrived` | `IInv` relates what a worker holds to the table: the attempts it read are no more than the failures so far (`WorkerInv`), though another worker may have written since, and an outcome SENT means that it arrived. Then an overwritten count can only lag, never run ahead |
| OutboxProofs | `NobodyIsToldTwice`, `AnswersStand` | `ToldOnce`, `AnsweredForGood` | a second invariant on top of the first, `DInv`: the key leaves one row to an occasion, channel and recipient (`OneToAKey`), whatever arrived came from a row (`CameFromARow`), and a row without a mark (no answer of it lost, no claim lapsed) is held by one worker and has arrived nowhere that it may still be sent to (`Clean`). An answer stands because every statement that writes a status is about a row that waits or that a worker holds (`KeepsAnswers`) |
| PortalProofs | `TypeCorrect`, `LedgerIsTheRows`, `WrittenOnce`, `ToldWhatWasWritten`, `OneLiveRow` | `TypeOK`, `LedgerMatches`, `OneWritePerSubmission`, `ToldTrue`, `OneLive` | what a request holds follows from its place in its handler: the steps come in one order (`InOrder`), so a request at its commit has written its row and recorded its key. `RequestsFit` says what that means for it (at its commit its key is not stored yet, since its write no live row is in its way, an answer of success it waits to deliver is the stored one), `RequestsApart` what it means for two (the locks exclude two commits of one key, and two writes where one row may live), `PagesFit` that a page which waits for its answer has a key as old as its opening. One write of one opening follows, since two rows of it would have one key. `OneLive` says that two requests which both found nothing in the way leave no two live quotes on a load, no truck twice and no bill number twice; it does not say that a trip is billed once, which the code does not ensure |
| VendorsProofs | `TypeCorrect`, `ClearedOnProvenPapers`, `LeadsStayMatched`, `LapsesAreChased`, `NobodyUnwarned`, `AdvanceByApproval`, `OverrideByApproval` | `TypeOK`, `ClearedOnPapers`, `LeadsMatch`, `LapseWasChased`, `WarnedInTime`, `PolicyByApproval`, `BranchByApproval` | three lemmas say how rows, papers and requests may move (`VendorMoves`, `PaperMoves`, `RequestMoves`). `IInv` adds that a verified paper is proven, that what a decision under way has found is proven, that an onboarding or link on an old look is marked, and that leads point at rows there are. A paper begins to be shown as lapsed only by a day passing, before which it was in the queue as expiring (`LapseStep`, by `DateMoves`: no step gives a verified paper another day), or by a verdict on a paper past its day; `RefusedAlike` says that the award and the audit then refuse together. The warning is arithmetic on days, for any warning |

`MoneyProofs` begins with the facts about sums that it needs (`SumType`, `SumSame`, `SumWithout`, the sum with one element less). The community modules define a sum over a
set by well-founded recursion on its finite subsets, so what a sum does when one element joins is itself proved here, by induction on
subsets with a set instead of a predicate.

Every invariant and every action property of a run that holds is stated by a theorem. Only model-checked:

* `EveryProofSettles`, `ComesToRest`, `ToldInTheEnd`: liveness under fairness is not proved (the prover has neither fairness nor ENABLED).
* `GivenBackCanBeBilled`, the violation, which is a counterexample.

## Deviations with a run

A promise quoted from the repository, stated as a property, and a shortest trace that breaks it.

| Run | Promise | What happens |
| --- | --- | --- |
| `invoicing_given_back` | "its loads go back to unbilled so a corrected invoice can be raised for them", `invoicing.repository.ts:195` | the links of the cancelled invoice stay, and `unique (trip_id)` refuses the corrected one |

## Deviations without a run

Seen while modelling, each between the code and a document or comment. The models contain the steps
(unless noted), so the histories exist in them. Where a property is named, the module states the promise; TLC
finds it violated when it is added to the module's configuration.

**The load**

* "so an indent never carries two trip numbers" (`indents.service.ts:561`; `Award`'s `NeverTwoTripNumbers`): a portal quote
  passes its stage check, the load is awarded, the quote commits and is awarded too; `applyAward` never looks at the load's stage.
* "A truck is not sent off until someone has marked it loaded" (`depart`'s comment; `Dispatch`'s `LoadedTruckLeaves`): allocate,
  load, allocate another: the marks stay and the other truck leaves.
* "a draft has none" (`findIssuedLrCode`'s comment; `DraftIsNotAnLr`): a draft's code counts as a lorry receipt and stands
  in for the loading slip when the advance is released.
* "a waived penalty must never still read as accruing" (`src/apps/internal-api/src/common/pod-penalty.ts:31`; `Settlement`'s
  `WaivedNotCharged`): waive, then approve: the approval overwrites the one column that held the waiver, and the stored penalty is charged.
* The clock "runs from delivery until receipt, then freezes" (`pod-penalty.ts:13`; `InTimeIsPayable`): the release counts from
  receipt to today, so a proof received at once is unpayable when the payment itself is late.
* "The balance has already been released for this trip." (`OneBalancePayment`): a balance that nets to nothing leaves
  `balance_paid` at zero, and a second key pays again.
* An above-band amount corrected into a quote between the award's preview and its transaction is
  accepted with no approval (`indents.service.ts:441-444`).
* The advance of a set-aside trip can be released: the release looks at no stage
  (`payments.service.ts:131`; `payments.repository.ts:45-46` says such a trip "is not waiting for an
  advance"). The ghost `STRAY_ADVANCE` marks it.
* Allocating another truck after the lorry receipt was issued leaves the receipt with the first
  (`indents.service.ts:684`; comment at 669-670).
* A draft receipt saved after departure is closed as DELIVERED and never has a number
  (`trips.service.ts:754`, against 658).
* Only issuing the lorry receipt looks at the cross-check; departure does not (`trips.service.ts:643`;
  `src/docs/specs/internal-spec/05-C4-trips-lr.md:58`).
* The advance reads the papers outside its transaction, and one may be rejected in between
  (`payments.service.ts:143`).
* The transporter's upload after an E-POD becomes the latest receipt and releases the hold for the hard
  copy (`payments.service.ts:716`; `pod.service.ts:311`).
* The refusal of a forfeited balance writes FORFEITED and CLOSED and throws, so that they are rolled
  back, and nothing else closes the trip (`payments.service.ts:366-378`; `src/docs/api/06-payments.md:159`).
* A waived trip whose proof was received can be rejected back into collection (`pod.service.ts:670`;
  comment at 667).
* A proof approved between the sweep's list and the sweep's lock is forfeited (`jobs.service.ts:130-145`).
* Waiving the daily penalty releases the whole balance of a trip with no proof (`payments.service.ts:743`;
  `src/docs/specs/internal-spec/06-C5-pod.md:25`), even of one still on the road.
* The penalty charged is the one the last sweep stored, not the one on screen (`payments.service.ts:389`;
  `jobs.service.ts:123`).
* The portal can submit a second bill while one is undecided (`portal-trips.service.ts:373`;
  `payments.service.ts:520`).
* An invoice with a total of zero stays ISSUED: no receipt can pay it. Receipts on an invoice that is
  cancelled leave the receivables with it (no property is about either).

**Orders**

* "reconcile() repairs anything missed here" (`trips.service.ts`, above `syncOrder`; `RepairReaches`): its query finds only some of the
  missed orders; those of the later steps stay as they are.
* "it writes only on a change" (`orders.service.ts:70-71`) does not hold before there is a trip: the comparison with an absent trip
  always differs.
* A balance paid under a waiver without a verified proof, or one that nets to nothing, never shows BALANCE_RELEASED; an
  order closed under a waiver is open again when the proof is rejected (`ReopenedForCause` allows it).
* Of two overlapping recomputes the older may write last and put the order back on an earlier step until the next one
  (`orders.service.ts:90`; the ghost `OVERTAKEN`).
* The sweep, the award, the lorry receipt, the failure tag and the invoice tell the order nothing; it shows them at the next recompute.

**Rates**

* "the approver sees the corrected figures" (above `editPendingRevision`; `ApproverSeesCorrected`): two edits may cross, and an edit
  before the approval is linked amends nothing.
* Two changes of one lane may wait at once: the look for an open one is outside the transaction and has no index behind it
  (`rate-revision.service.ts:970-975`).
* A change is accepted on a deleted lane, and signing it makes a successor of it (`:736-737`).
* Editing a change already applied rewrites its stored figures; deleting one whose approval is not linked yet may mark an applied one REJECTED.
* A proposal cut short between inserting and raising leaves a PENDING change nobody can decide, and with it a lane that accepts no other.
* A correction and a new lane, each reading the route's lanes before it writes, may together overlap.

**Notifications**

* "Safe to run from several processes" (`notifications.service.ts:239`): not when a batch takes more than ten minutes; its rows are claimed again and sent twice.
  Resend honours the idempotency key, Brevo does not.
* A worker stopped between sending and recording never counts the try (`NotGivenUpEarly` is one-sided for that reason).
* The rows of document expiry, the forfeiture report and the first login have a payload the sender cannot read and are given up unsent, though
  the job calls them "what gives Compliance thirty days' warning" (`jobs.service.ts:334`; `WarningGetsOut`).
* A FAILED row's key is never queued again; a person whose address changes between two sweeps is told at both; a reminder "stays due" on every day but the deadline itself (`pod-reminders.ts`).

**The portal**

* The answer of success is about an older tap when the key outlived a lost answer: what was typed since is dropped and
  reported as received (`profile/page.tsx:78-80`; `AnswerIsMine`).
* The loser of a race on a truck, quote, bill or withdrawal fails on the row before it reaches the ledger, and is refused
  (`portal-idempotency.repository.ts:58-64`; `RaceIsReplayed`).
* The buttons of a truck's status do not wait for their answer, and the answer of an older tap drops the key of a newer one
  (`fleet/page.tsx:65-66`, `131-132`); `OneWritePerSubmission` leaves the status out.
* "two different trips sharing a key must still be two different rows" (`portal.constants.ts`), but the unique key has no entity in it. Not modelled.
* Two overlapping requests store their file twice; two phones may supersede the same receipt.
* `submitBill` looks at the proof before the replay and outside its transaction (`portal-trips.repository.ts:153-156`).
* "`REJECTED` is deliberately promotable back to `ATTACHED`" (`portal-trips.service.ts:500-503`) is not what the code below it does, and DOCS_DUE is never set;
  withdrawing is not final, as `quotes/page.tsx:87-95` says, since migration `20261030010000` allows quoting again.

**Transporters**

* "Compliance has to see a current one before they can take new work" (`vendor-document-expiry.ts`): an expired licence that is uploaded
  again, even from the transporter's phone, is PENDING and no longer counts, so the award's block lifts before anyone has seen it.
* The transporter's page shows a lapsed TDS declaration as EXPIRED like a licence, though it refuses nothing (`portal-profile.service.ts:233`
  against `vendors.service.ts:604-610`).
* Activation reads identity papers and documents in two statements on other connections: they may never all have been VERIFIED at once
  (`ClearedOnPapers` says what is left).
* Submit and activate look at no status: submit puts an active or suspended transporter back to PENDING_VERIFICATION, activate takes a
  suspended one off hold without a reinstatement. The advance of a suspended one can be edited directly.
* An update checked before an activation writes the branch without approval, and one that saw its own branch undoes an override
  approved in between (`vendors.service.ts:387-424`); `BranchByApproval` names both.
* The party can be edited after clearing, so an OWNER may have no registration certificate. Two links of leads may cross: the update looks, then
  writes, with neither lock nor index (`LeadsMatch` leaves out the leads in `stale`).
* Verifying a paper takes no version of the file; a portal upload keeps the masked number of the photo it replaces. Not modelled.
* `indents.patchAdvancePct` (1161-1192) reads without a lock and writes directly before there is an award; a reassignment keeps the override. Not modelled.
* All four readers of an expiry use the UTC day, so a paper is valid for five and a half hours of the next Indian one.

## Not modelled

`PROJECT.json` has a line for each component. In short: of approvals, only the kinds that Award, Settlement, RateCard and Vendors
replay; RFQ up to the moment it is won (`WinLane`) is a sequence of edits of one quotation; numbering is one locked
counter; tickets, telematics and tracking links are single-row tables; reports, P&L, targets, import, assistant and
OCR read or call out; users, roles, config, audit and attachments are administration; what the portals and the mobile app show is layout,
and of what they do only the writes with a key are in Portal. Row-lock waits and the deadlocks they can make, the
connection pool, and two transactions whose `created_at` sorts against their commit order are not in
the models; each is listed as a hazard or was left out of the list for a nearer one.

The modules cover the services that hold the program's logic. Most of the remaining lines are screens, row
mappings, reports and generated types, which have no behaviour a model could say anything about.

## Plan

Done, in this order: `Award`, `Dispatch`, `Settlement`, `TripAccount` with its two refinements,
`Invoicing`, `Orders`, `RateCard`, `Outbox`, `Portal`, `Vendors`, and the proofs of their safety. Left:

1. **Recovery**: `planRecovery` over several records and trips of one transporter, as a function checked
   against a reference definition for small figures, with the record locks of two releases: the order of
   `for update` and who waits for whom.
2. **Fleet** and **Pool**: a truck on several loads; handlers that hold one connection and ask for a second.
3. **RFQ** and the approvals of its versions, in front of `RateCard`'s `WinLane`.
4. Dispatch's departure as a refinement of `TripAccount`'s `Depart`; `Vendors`' standing as what `Award` assumes of it.
