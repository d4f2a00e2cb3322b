# Verification of the peer-to-peer INR/USDT deal platform

Two people agree on a rate, one of them puts USDT into the platform's escrow, the
other sends rupees bank to bank, the first confirms the receipt and the USDT is
released.  When they disagree, a case freezes the deal and two operators rule.
The code is TypeScript over PostgreSQL (`src/src/server`, `src/src/services`,
`src/db/migrations`).  This directory holds TLA+ models of it, TLC configurations
that check them on small instances, and TLAPS proofs of the main results for every
instance.

Paths below are relative to the repository: `server/…` is `src/src/server/…`,
`services/…` is `src/src/services/…`, migrations are `src/db/migrations/…`.

## 1. The system

### Components

| Component | State it keeps | Operations | What is hard | Modelled in |
|---|---|---|---|---|
| Command boundary (`server/boundary/command.ts`, `lib/commandId.ts`) | `command` rows, audit rows, `outbox_event` rows; the id a page keeps | `runCommand`: claim the command id, run the body, record its result or its refusal, commit; `useCommandId` | repeated and concurrent ids; answers lost or late; a refused body is committed | `CommandBoundary`, `CommandPromise` |
| Ledger (`0007`, `0008`, `server/ledger`) | accounts, balances, journal entries | `post_entry`, `reverse_entry` | balance of every entry, no negative party or escrow balance, lock order | `ValueLedger`, `RowLocks` |
| Value protection (`server/ledger/valueProtection.ts`) | one `value_lock` row per deal | fund, lock, release, refund, reverse | settled once, to one person, in full | `ValueLedger`, `EscrowPromise` |
| Fee collection (`server/commerce/feeCollection.ts`) | `fee_collection` | `collectFee` inside a release | taken from the beneficiary in the same transaction | `ValueLedger` |
| Risk gate (`server/risk/engine.ts`, `controls.ts`) | switches, holds, policies, decisions | `enforce`, `pause`, `resume`, `placeHold`, `releaseHold` | a hold written by a refused command commits | `ValueLedger`, `OpsDesk` |
| Risk limits and rewards (`server/risk/limits.ts`, `rewardOrchestration.ts`) | counters, consumptions, grants | `consumeLimit`, `evaluateRewardFor` | concurrent consumption, undo, windows | `RiskLimits` |
| Deal lifecycle (`server/sandbox/service.ts`) | quotes, links, deals, participants, claims, confirmations | create, close, join, claim, confirm, cancel, expire | two joiners, a join whose lock is refused, a confirmation whose release is refused, the payment window | `DealSafe`, `RowLocks` |
| Disputes (`server/room/disputes.ts`) | cases with a version, proposals | open, propose, reject, approve | freeze, stale proposals, two operators, the live lock a ruling needs | `DealSafe` |
| Value commands (`services/commands.ts`) | none of their own | lock, release, refund, reverse, open a case | not wired to any screen; the freeze is read without a lock | `DealSafe` |
| Payment rails (`server/rails`, `server/room/incidents.ts`) | intents, instructions, deliveries, observations, incidents | open, instruct, ingest provider events, expire | late, repeated and contradictory events; reorgs | `PaymentRails` |
| Rail requests (`server/rails/railRequests.ts`) | `rail_request` | enqueue, lease and run | two-second lease without an owner | `RailRequests` |
| Outbox worker (`server/ops/outboxWorker.ts`) | `outbox_event` delivery columns | recover leases, claim a batch, run handlers, mark, replay | crashes, lapsed leases, timeouts, several passes | `OutboxWorker` |
| Operations cases and approvals (`server/risk/cases.ts`, `controls.ts`) | cases with a lease, approvals | claim, propose, approve, resolve, resume, release | two-person rule, lapsed lease | `OpsDesk` |
| Commerce (`server/commerce`) | fee policies, price snapshots, premium, rewards, referrals, reputation | activate, price, snapshot, attribute, qualify | overlapping approvals, one reward in two quotes, cycles | `FeePolicies`, `Pricing`, `Referrals` |
| Identity (`server/identity`, `server/sandbox/session.ts`) | challenges, rate buckets, sessions, factors, roles, verification cases | sign in, verify, rotate, revoke, recover, enrol, decide | single use, windows, changes of authority under way | `SignIn`, `Sessions`, `Verification` |
| Telegram sign-in (`app/api/telegram`, `server/telegram`) | launches | sign in | replays | `Sessions` |
| Deal room (`server/room/chat.ts`, `evidence.ts`) | messages, evidence objects, capabilities | post, page, upload, scan, download | order of commits, bytes outside the transaction | `Transcript`, `Evidence` |
| Adapters, configuration, screens | none | I/O, rendering | — | — |

### How they interact

A screen calls a server action (`services/actions.ts`), which calls one command of
`services/commands.ts`; a command is one `runCommand`, so **one database
transaction**.  The body locks the row it is about (`FOR UPDATE` on link, deal,
proposal or case), checks its guards, and calls down: the join and the confirmation
call value protection, a ruling calls value protection, value protection asks the
risk gate and its limits.  A refusal is a value, not an exception: `runCommand`
commits what a refused body wrote.  The body appends events to the outbox in its
transaction; the outbox worker, driven by a scheduler's POST to `/api/worker/tick`,
hands them to handlers later.  Provider events enter through `ingestRailEventCommand`
and reach the ledger through `postConfirmedValue` and `reverse_entry`.  Identity is
asked before a command begins (`requireCaller`) and not again.

Concurrency is therefore between transactions, ordered by row locks, except where

* a body reads without a lock and writes later (the freeze in `settleValueCommand`,
  the lock in `valueStillDisposable`, the chain of referrers in `wouldCycle`, the
  schedules in `approveActivation`, the session in `requireCaller`);
* work is done outside any transaction (the outbox worker, the rail queue, the bytes
  of evidence, the page that waits for an answer);
* something is counted in a statement of its own (`consumeRate`) or a number is drawn
  before the commit (the sequence of a transcript).

The models keep these gaps as separate steps; everything else is one step per
transaction.

### What makes each part correct

* Ledger and value protection: value is conserved; an escrow account holds what
  its lock and its deposits say; a lock is taken once, ends once, in full, to one
  person.  Transactions wait for each other in a circle only where it is known.
* Deal lifecycle: a join is whole; value leaves escrow only on agreement or on a
  ruling; a finished deal stays finished; a completed deal has paid.
* Disputes: a case is open exactly while its deal is frozen; nothing moves in
  between; a ruling is carried out as two operators decided it; a case can always be
  ruled on.
* Command boundary: one body per command id, the same answer for every repetition,
  and a decision whose answer was lost can still be found out about, but for three known
  ways of losing its id.
* Payment rails: one posting per confirmed token payment and one payment per
  reference, whatever the order and overlap of the provider's reports; what was
  decided of a payment stays decided; no report reaches anybody's balance.
* Outbox and rail queue: what is reported done was done; delivered is final; attempts
  are really spent before an event is given up; every event is settled in the end.
* Limits: no window exceeded by overlapping transactions; counters tell the truth.
* Commerce: one schedule in force, approved by two people unless it is the one the migration
  opens with; a reward is worth one discount; a price within its tariff; a referral that
  rests on a real deal.
* Operations: whatever two people must end was ended by two, on an approval that names
  it; nobody closes a case over a claim they have not seen.
* Identity: a change of authority ends every session that stays behind; a second
  factor was answered for the factor in force; one session per credential; a code is
  guessed at no more than twice the limit; the badge follows the decisions.
* Deal room: whoever reads page by page misses nothing that was there; nobody is served
  a file that was not judged.

`PROJECT.json` lists, under `hazards`, the places where a test would hardly reach,
each with the properties that would catch it going wrong or the reason why none does.

## 2. The modules

| Module | What it is |
|---|---|
| `ValueLedger` | balances, escrows, locks, fees, deposits, switches and holds |
| `EscrowPromise` | abstract: what the platform promises about the value of a deal |
| `DealSafe` | links, deals, claims, cases, proposals and value commands, EXTENDS `ValueLedger` |
| `PaymentRails` | payment intents, instructions and the ingestion of provider events, EXTENDS `ValueLedger` |
| `OutboxWorker`, `RailRequests` | the two queues and the passes that work on them |
| `CommandBoundary`, `CommandPromise` | `runCommand` with the page in front of it; abstract: what it promises its callers |
| `RiskLimits`, `OpsDesk` | windowed limits; pauses, holds and cases that two people end |
| `FeePolicies`, `Pricing`, `Referrals` | commerce |
| `SignIn`, `Sessions`, `Verification` | identity |
| `Transcript`, `Evidence` | the deal room |
| `RowLocks` | the row locks of the transactions on value, one by one |
| `ValueLedgerProofs`, `DealSafeProofs`, `PaymentRailsProofs`, `RowLocksProofs` | theorems about the module they are named after; the third also about `RailRequests` |
| `DeliveryProofs` | about `CommandBoundary` and `OutboxWorker` |
| `OperationsProofs` | about `OpsDesk`, `RiskLimits`, `Evidence` and `Transcript` |
| `CommerceProofs` | about `FeePolicies`, `Pricing` and `Referrals` |
| `IdentityProofs` | about `SignIn`, `Sessions` and `Verification` |
| `MC…` | instances for TLC |

`MCServices`, `MCRailServices` and `MCDealLocks` put modules that share no state side by
side: a variable `turn`, chosen in the first state, says which of them a behaviour is
about, and the others keep their initial values.  That is a disjoint union, not an
interleaving, so each module is checked exactly as it would be alone.

### ValueLedger

`balance[u]`, `escrow[d]`, `revenue`, `funded`, `wallet` are the accounts that the
five journals move (the last two are the counter-accounts of funding and deposits);
`lock[d]` is the `value_lock` row, with a `beneficiary` that stands for the account
of its settle entry; `deposit[d]` is the sum of the confirmed and not reversed rail deposits;
`paused` and `holds` are the control switches and the active holds.  Each action is a
function of `valueProtection.ts`, `controls.ts` or `observations.ts` as one
transaction.  `enforce` is read as `Admitted` (the gate lets it pass) and
`PlaceHold` (it refuses and the hold it wrote commits); which rule of the active
policy fires is a choice out of `Verdicts[point]`.

The fee is `collectFee`: zero, or the fee frozen in the snapshot of the quote.  A fee
the beneficiary cannot bear aborts the transaction (the CHECK on `account_balance`),
which the guard of `SettleLock` says.  `ReverseDeposit` allows a lock that is already
settled, because the read before it (`valueStillDisposable`) takes no lock.  The gate and
the posting are one step: a pause that commits between the gate's read and the commit of
a lock, which does not stop that lock, is the pause coming just after it.

### EscrowPromise

Per deal a stage (open, held, ended), the value held and the party.  `Take` moves an
open deal to held, `End` gives the whole value to one party, once.  `ValueLedger`
implements it under the mapping of `Promise`, which reads the value held off the
escrow account (less the deposits), not off the row, so the refinement says that row
and account tell the same story.

### DealSafe

One variable per table a command reads or writes: `link`, `usdtLeg` (the scenario
of the quote), `seats` (participants), `deal`, `overdue` (links and windows that have
run out), `claim`, `confirmed`, `dispute`, `proposals`, and `settling`, the value
commands between their unlocked read and their settlement.  An action is a whole
command body: `JoinDealLink` contains the lock with its gate, `ConfirmReceipt` the
release and what a refused release leaves behind, `ApproveResolution` both gates, the
settlement, the proposals, the case and the deal.  Guards on the caller are the seat
or the operator an action quantifies over.  `Exposed` names the commands that no screen
calls but `services/commands.ts` exports; with `Exposed = {}` the model is the product
as wired today.

### PaymentRails

`intent[i]` is the state of a `payment_intent` row and the reference that confirmed it;
its deal, rail, direction and amount never change and are the constant `Terms`.
`instructed` are the rows of `payment_instruction`, `journal` the JD-DEP-CONFIRM
entries, `claimed` the unique index on accepted confirmations, `incidents` the open
REORG_AFTER_DISPOSAL incidents.

The ingestion of an event is two steps.  `MatchEvent` finds the intent, locks its row and
reads, without a lock, whether another payment claims the reference and whether the
value of the deal is still locked; the second step (`ApplyFailed`, `ApplyPending`,
`ConfirmPayment`, `ApplyReorg`, `RaiseIncident`, `DismissEvent`) writes and commits.
`ingest[i]` is what was read meanwhile.  Whatever needs the row waits for the end of the
transaction (`RowFree`); everything else goes on, so a deal may be settled between the
look at its lock and the reversal of the deposit.  The model keeps that race: the reversal
then happens after the settlement, takes back the deposit and nothing else, and the books
stay balanced.  `ConfirmPayment` and `PostOnce` keep the order of the code, in which the
posting comes before the guarded UPDATE and would stand if the UPDATE found no row; that it
never does is `PostedIsConfirmed`, a consequence of the row lock.  The rest of the platform
is `LedgerMoves`, every other step of the ledger, and `CloseDeal`.

### OutboxWorker and RailRequests

`row[e]` is the delivery part of an `outbox_event` row, `lapsed` and `resting` stand
for the clock (leases past their end, backoffs not over), `step`, `batch`, `current`
are where each pass is, `applied` records the handler effects.  A pass claims a
batch in one statement, then handles it event by event outside any transaction; it
may lose its lease meanwhile, time out, or die.

A rail request has no owner: its lease is `due` being false for two seconds.  `leased[w]`
is what worker `w` still means to perform, `performed` what the provider carried out.
`Succeed` and `Fail` look only at PENDING, as the UPDATEs do, so a late one acts on a row
another worker has taken since; that is the overlap `RailOutcomeIsTrue` is about.

### CommandBoundary and CommandPromise

`command[i]` is the committed row of a command id, `effect[i]` how often the writes of its
body were committed; `call` are the requests at the server (sent, running, answered), of
which several may carry one id; `held`, `draft`, `awaiting` are the page (`useCommandId`,
`isDefinitiveOutcome`).  `Claim` waits on the unique index, `Replay` answers from the row, a
running body commits with its outcome or is rolled back; what a refused body wrote before it
returned commits with the refusal (`Wrote`: nothing if it refused at a guard, its writes if
it refused later, as the confirmation does whose release is refused); a call may be lost
before or after the commit and the page may stop waiting for it.  `Forms` are the pages
whose form works without JavaScript: such a page has its id rendered in and posts as whoever
is signed in. A deal page uses one handle for confirming and cancelling, so the draft under
an id can change, which is a conflict and not a replay.

`past[i]` is history: what happened to the id at its page (answers, a second sending, an
edit, a reload).  No guard reads it.  `UntoldDecisionIsHeld` is stated over it, so that an id
the page lets go of counts as lost unless its recorded answer is among what the page heard.

The promise: an id is decided at most once; the writes of an accepted decision commit
exactly once, those of a refused one at most once; whoever is told an outcome hears the
recorded one.

### RiskLimits, OpsDesk

`RiskLimits` is one person's counters per limit and window, the two commands that consume
them, and the clock.  A transaction reads `now()` at its start (`work`), so it may count in
a window that is over.  From its first consumption on it holds the counter's row.

`OpsDesk` has `standing` for pauses, holds and cases, `approvals` as rows, and `view`, what
each operator last read of a case: claims and resolutions are made against that, and the
lease may lapse in between.  The effect of a pause on value is `ValueLedger`'s.

### FeePolicies, Pricing, Referrals

An approval of a schedule reads, retires and activates in separate statements that
interleave as READ COMMITTED lets them: `approving[a].saw` are the rows its SELECT found,
`retired` the rows it has locked by updating them.  The corridor starts as the migration
leaves it (`0011_del07_commercial.sql:706-719`): the schedule `Opening` is ACTIVE, although
nobody proposed or approved it, and prices every quote until the first approval.  `Pricing`
has `CalculateFee` in full (basis points with rounding as in `lib/feeMath.ts`, floor,
ceiling, cap on discounts, who bears it) and a quote in two steps: what was looked up,
holding the row of a reward, and what is frozen.  `Referrals` walks the chain of referrers
one statement at a time, without a lock, and inserts at the end.

### SignIn, Sessions, Verification

`SignIn` is the code of one mailbox: two fixed-window counters, codes that live as long as a
window, presentations that are counted before and outside the transaction that looks at
them.  Guesses are counted per code by a ghost.  `Sessions` is one account: versions,
sessions, factors, and calls (`visit`) that resolve their session first and act later.
`Verification` has the cases and the badge that is a cache of them.

### Transcript, Evidence

A message draws its number, then commits or rolls back; a reader pages by number.  An
evidence row, the bytes under its key and the requests that carry them are separate, because
no transaction covers the storage: bytes of an upload that was cut off may arrive after
those of its retry.

### RowLocks

What each transaction locks, in order, as a script of row and mode (`Script`), computed from
what it found (`escrowed`, `stage`, `referred`, the order of the account ids in `rank`):
deal, case, intent, `value_lock`, counter and referral rows, the balances `post_entry`
sorts, and the locks foreign keys take.  A transaction acquires the next one or waits;
`Circle` is a set of transactions that wait for each other.

## 3. The runs

| Run | Instance | Shows |
|---|---|---|
| `ledger` (`MCServices`) | ledger: 2 people, 2 deals, amounts 1 and 2, funding up to 3, one deal with a fee, one switch, policies that may hold a lock or a release. Boundary: 2 pages, 2 callers, 1 id, 2 drafts, 2 calls. Limits: 3 deals, 2 transactions, 2 windows. Fees: 4 schedules of which the migration has put one in force, 2 operators, 2 approvals. Desk: 2 pauses, 1 hold, 1 case, 2 people, 2 approvals. Evidence: 1 object, 3 files, 2 requests, 2 capabilities. Pricing: 2 tariffs, 1 reward, 2 quotes. Sign-in: 2 codes, 2 presentations, 3 windows | `ServicesTypeOK`, `EscrowBacksLock`, `Conservation`, `PromiseKept`, `UntoldDecisionIsHeld`, `CommandPromiseKept`, `LimitsHold`, `OneApprovedSchedule`, `TwoPeopleEndIt`, `ClosedAsSeen`, `ServedIsWhatWasJudged`, `QuotesAreFair`, `GuessesAreBounded` |
| `deal_commands` (`MCDealSafe`) | 1 deal, 2 people, 2 operators, 2 proposals, every command, holds possible at every point | `CaseFreezesDeal`, `RulingCarriedOut`, `LiveProposalIsCurrent`, `TerminalIsFinal` |
| `deal_screens` (`MCDealLocks`) | 2 deals, 3 people, 2 references, only what the screens call; and 2 transactions over 2 deals lock by lock, with account ids in both orders | `DealLocksTypeOK`, `JoinIsWhole`, `DisputeIsResolvable`, `PaidOnlyOnAgreementOrRuling`, `FrozenMeansFrozen`, `CirclesAreKnown` |
| `rails` (`MCRailServices`) | rails: 1 deal, 1 person, 3 payments (token collection, token payout, rupee collection), 2 references, 3 reports. Queue: 3 requests, 2 workers, 2 attempts. Referrals: 3 people, 2 claims. Sessions: 3 sessions, 2 credentials, 2 calls, 2 factors, 2 versions. Verification: 3 cases, 2 people. Transcript: 3 messages, 1 reader, pages of 1 | `RailServicesTypeOK`, `PostedIsConfirmed`, `DepositsAreConfirmed`, `OneMovementOnePayment`, `OutcomeIsFinal`, `RailsKeepLedger`, `RailOutcomeIsTrue`, `ReferralsAreReal`, `NobodyOutlivesAChange`, `AnsweredTheFactorInForce`, `OneSessionPerCredential`, `BadgeFollowsApproval`, `PagesAreWhole` |
| `outbox_delivery` (`MCOutboxWorker`) | 2 passes with batches of 1, 2 events of which one has a handler, 2 attempts, 1 crash, 1 replay | `DeliveredWasApplied`, `DeliveredIsFinal`, `DeadLetterSpentItsAttempts`, `EventsSettle` |
| `completion` | 1 deal, screens | violated: a refused release leaves a COMPLETED deal with its USDT locked |
| `frozen` | 1 deal, with the settle commands | violated: value under an open case is settled |
| `cancelled` | 1 deal, screens | violated: a cancelled deal keeps its escrow |
| `lapsed` | 1 deal, screens | violated: an expired deal cannot be reported |
| `disposed` | as `rails`, 2 people | violated: a deposit stays in the escrow of a settled deal |
| `outbox_crash` | 1 pass, 2 events, 1 crash | violated: a crash on the last attempt stalls the outbox |
| `rail_queue` | 3 requests, 2 workers, 2 attempts | violated: a crash on the last attempt stalls the rail queue |

The seven violated properties are sentences of the repository's own comments, specification
or help page; `findings` in `PROJECT.json` quotes each with its line.  Every property of a
passing run has a mutant (`Mut…` in the modules): a plausible bug of the mapped code under
which TLC finds it violated.

**Bounds.** Amounts 1 and 2 with a fee of 1 tell apart a whole amount, a part of it, a fee,
and two deals that share a balance; funding up to 3 lets two locks compete for it.  Two
people suffice for one deal (its two seats), three for two deals, so that somebody sits in
both and somebody in one.  Two operators are the least for the two-person rule, and are
interchangeable.  Two proposals per case give a rejected one and a later one.  One case
follows another only when none is active, so proposals restart empty.  In the outbox two
passes are the least that overlap, two events the least where one blocks the other, a batch
of one leaves an event out whenever both are due (the event that is left out must still be
reached), two attempts have a first and a last (the schema's 8 only repeat the middle), and
one crash and one replay the least that interact with both.  In the rails three reports are
a confirmation, a contradiction of it and a report of another payment in between; two
references can be equal or different; two token payments compete for a reference and share
an escrow.  `settling` holds one call per deal: settlements of the same deal are serialised
by the row lock.

At the boundary one id is enough: nothing relates two ids but the page that keeps them, and
three calls of one id add nothing to two, of which one runs and one waits or replays.  Two
transactions are the least that overlap in limits, policies, quotes and claims; three deals,
sessions or people, or three schedules besides the opening one, let a third meet what the
two left behind, and three is
the least cycle of referrers that is not a pair.  Two windows have an edge between them;
sign-in has three, so that a code could outlive its second.  `MaxCount = 1` is a limit that
is reached at once; `PerTxn` below `Daily` keeps the order the code's limits have.  A
desk with two pauses of one scope has an earlier and a later one.  Three evidence files are a
clean one, an infected one and one that is refused for its size.  Row locks take two
transactions over two deals between the same two people, each supplying once, which is the
most two transactions can share; that more transactions over more deals add no circle is
proved (`CirclesAreKnownHolds`).

**Symmetry** is used over people, operators, references, credentials, quotes, pauses,
sessions and transactions where no property or definition names one of them, and in no run
with a liveness property.

**Deadlock** is not checked: deals end, funding is bounded, queues run dry, pools of ids are
finite.  The deadlocks of the database are `CirclesAreKnown`.

**Fairness** is assumed only in `OutboxWorker`.  `WF(Progress(w))`: the scheduler keeps
posting ticks, and a living pass waits for no other pass: its statements use SKIP
LOCKED and a handler is cut off after 15 seconds.  `WF(LeaseLapses)`,
`WF(BackoffPasses)`: time passes.  Crashes and replays are not fair, handlers may fail
every time.  Nothing is assumed of people, of providers, or of the sweeps, which nothing in
the repository calls.  `EventsSettle` is conditional on no event losing its last attempt to
a crash; that exception is exactly what `outbox_crash` shows to be real, and it is stated
over any event because one such row stalls the others.
## 4. What is proved

The theorems hold for every value of the constants that meets the named assumptions of the
modules: amounts are positive, fees and limits are natural numbers, the markers of absence
are not members of the sets they stand beside, and the sets whose members are counted or
added up are finite (`RowsAreFinite`, `IntentsAreFinite`, the messages of `Transcript`, the
transactions of `RowAssumption`): they are rows of a table, or run at one moment. Each
safety theorem rests on an inductive invariant that says more than the property.

**`ValueLedgerProofs`.** `LedgerInv` is the typing together with `EscrowBacksLock`: that an
escrow never goes negative follows from its row being backed, and that the row stays backed
needs the types (`LedgerSafety`).  `OneLockMoves`: a step moves at most one lock, in one of
three ways; from it follow `LockEndsOnceHolds` and the refinement `LedgerKeepsPromise`.
`ConservationHolds`: the books balance for any number of people and deals.  The sum of the
community modules is a recursive function over the subsets; that it moves with one summand
(`SumUpdate`) is proved from its definition by going to a smallest subset for which it does
not, because the induction theorems of the library cannot be instantiated.  With it,
`RevenueIsOfReleasesHolds`: the revenue is within the fees of the released locks, because a
step earns on one deal at most and only in releasing it.  `PoorerOnlyByOwnDealHolds`: a
balance goes down by a lock of its owner's value, or where the fee of a release is larger
than the payment it is withheld from (the ledger only asks that no balance goes negative).

**`DealSafeProofs`.** Every step of the deal system is a ledger step or leaves the ledger
alone (`DealImplementsLedger`): deal commands call the ledger's operators with arguments in
range, which needs the deal invariant.  Four invariants stand on one another.
`DealInv` adds types and `CaseFreezesDeal` to `LedgerInv` (`DealTypes`, `DealKeepsEscrow`,
`CaseAlwaysFreezes`).  `CaseInv` adds `RulingOf`, that a resolved case has one approved
proposal and that deal, lock and payee say what it says, and `LiveIsCurrent`
(`RulingIsCarriedOut`, `LiveProposalStaysCurrent`, `TerminalIsFinalHolds`, the last with
the lemma `FinishedStays`).  `ScreenInv` holds with `Exposed = {}`, the commands the screens
call: nothing is between two commits, claims differ, a lock is of its deal, and what was
paid was paid for (`JoinIsWholeHolds`, `DisputeStaysResolvable`, `PaidOnlyOnAgreement`).
`FreezeInv` gives `FrozenMeansFrozenHolds` also when cases are opened by the command that no
screen calls; with any other command exposed TLC refutes it (run `frozen`).
`EndedValueStays`: with `Exposed = {}` nothing moves a deal or its lock once the deal is
completed, cancelled or expired, so what the findings show left in escrow stays there.
`EndInv` adds to `ScreenInv` that a confirmation completes, and that only a confirmation or
a ruling does.  It gives what is true in the place of the two refuted properties:
`DealTellsItsLockHolds` names the one other place where the USDT of an ended deal can be
(a live lock in escrow), and `CompletionPaysUnlessGatedHolds` the one cause of a completion
that does not pay (the risk gate refuses; no race, ruling, fee or missing lock does it).
`PoorerOnlyByJoiningHolds`: on the screens only the join takes from the giving side, exactly
the amount of the deal, and only a fee above the price takes from the paid side.
`DealsConserve`, `DealsKeepPromise` and `DealsChargeOnlyTheirOwn` follow through the ledger,
whatever commands are exposed.

**`PaymentRailsProofs`.** The key part of `RailsInv` is `IngestFresh`: a payment under
ingestion is still in the state that was read when it was matched, because every writer of
the row waits for its lock. With `ClaimsAreUnique`, `SettledIsClaimed` and the property
itself it gives `PostedIsConfirmedHolds`, `OneMovementOnePaymentHolds` and
`OutcomeIsFinalHolds`; `RailsImplementLedger`, `RailsKeepEscrow`, `RailsConserve` and
`RailsKeepPromise` carry the ledger over. `DepositsAreConfirmedHolds`: a deposit is the sum
of the confirmed collections of its deal, however their reports are repeated, reordered or
taken back. `RailOutcomeIsTrueHolds` is about the queue of provider requests: what a row
says of the provider is so although a lease has no owner. `LostCallIsLostForEver` and
`StuckQueueIsStuckForEver` make the finding of `QueueIsNeverBlocked` general: a request
whose attempts are spent stays PENDING in every continuation, and once it is due while one
batch holds all requests not yet decided, those still to come included, no request is ever
given an attempt again, because the check on `attempts` refuses the whole lease.

**`RowLocksProofs`.** Every script is spelled out request by request, and each request given
a level: case and intent, deal, lock, counter, the escrow account being made, then the
accounts in the order of their ids.  The invariant is about what is owned: the owners of one
row have modes that agree, and what a transaction found under its row locks stays so until
it ends (`SeenStaysHolds`).  With it, a transaction of a circle that waits in none of the
ways `CirclesAreKnown` lists waits for one that itself waits at a higher level; the circle
is finite, so one of them is at the highest and nobody can hold it up
(`CirclesAreKnownHolds`).  The steps where a script goes down again (the fee after the
release, the deal after the ruling, the referrals) are where the known ways come from, or
take a lock that is already owned.

**`DeliveryProofs`.** `OutboxInv` relates rows and the passes that hold them
(`DeliveredWasAppliedHolds`, `DeadLetterSpentItsAttemptsHolds`, `DeliveredIsFinalHolds`).
`ServerInv` is about the server alone: answers that are on their way are recorded, one body
runs per id. `PageInv` joins it to what the page's handle keeps, and `HistoryInv` to what
happened before: an id a page was given is held, or given up in one of the three ways, or
its decision was heard (or somebody else's stands there), or nothing will ever be decided
under it. To keep that, an id sent once has one call, and an unedited page one draft.
They give `UntoldDecisionIsHeldHolds` and
`CommandPromiseHolds`, the refinement of `CommandPromise`.
`LostAttemptIsLostForEver` and `JamIsForEver` are about the finding of `CrashIsSurvivable`:
an event whose last attempt was lost is never delivered and never a dead letter, and if
fewer than `BatchLimit` older events are undelivered it stops the outbox for good. Rows
leave the set of undelivered ones and never come back (`DeliveredStays`), so such an event
stays at the head. These are safety facts (a state predicate that no step leaves), proved
although liveness is not.

**`OperationsProofs`.** `TwoPeopleEndItHolds` keeps approval, proposer and
executor apart in `EndingInv`; `ClosedAsSeenHolds` rests on a version that every claim of a
case moves.  `LimitsHoldAlways` needs that what is locked is no more than what is counted,
and that the reward counter is the cardinality of the grants on keys of their own.
`ServedIsWhatWasJudgedHolds`: one upload at a time fills an evidence row and only before its
verdict, so a READY row never changes and a capability that served is live no more.
`PagesAreWholeHolds`: a page is the part of the committed rows whose places are next, so
pages that start where the last one ended leave no row out and repeat none; a page that is
short has met the end.

**`CommerceProofs`.** `OneApprovedScheduleHolds`: an approval that activates a schedule has
retired every other one it found in force, and still holds their rows; the opening schedule
is never a draft, so nothing puts it in force again (`OpeningGivesWay`).  `QuotesAreFairHolds`
rests on `PriceWithinTerms`, the fee arithmetic for all amounts and rates: what floor
division, clamp and cap on discounts leave is inside the terms.
`ReferralsAreRealHolds`: a walk that no commit disturbed knows the set of people it has
passed, and every set the new referral would close contains them; so the walk must have met
the referee, gone round in an older loop, or run out of its `Depth` in a longer one.

**`IdentityProofs`.** `SessionInv` says of each session, and of each call that has read one,
which version and which factor it goes back to (`NobodyOutlivesAChangeHolds`,
`AnsweredTheFactorInForceHolds`, `OneSessionPerCredentialHolds`).  `BadgeFollowsApprovalHolds`
is inductive once the types are added.  `CodeInv`
(`GuessesAreBoundedHolds`): each guess at a code, made or under way, has its place in the
counter of one of two windows.

**Only model-checked.** `EventsSettle` and `CrashIsSurvivable` are liveness under fairness,
and `LapsedDealCanBeReported` speaks of ENABLED: neither is within the prover's reach.
`ServicesTypeOK`, `RailServicesTypeOK` and `DealLocksTypeOK` are the types of modules that
share no state, put side by side for a run; what they conjoin is proved module by module
(`LedgerSafety`, `DealTypes`, `RailsTypes`, `OutboxTypes` and the theorems named
`...TypesHold`).

## 5. What is not modelled

The map covers about an eighth of the implementation's lines.  Most of the others keep no
state of their own: React components and landing pages, projections that only read
(`ops.ts`, `dealPresenter`, readiness), formatting and copy, drills and end-to-end scripts,
adapters of outside services.  Left out of the components that are modelled:

* **Ledger.** Account-key hashing and the wording of journals.  Two overlapping calls of
  `post_entry` with one key: the second fails on the unique index instead of returning the
  first entry, and its transaction is rolled back.  A pause that commits between the gate's
  read and the commit of a lock does not stop that lock.  `reverseFee` has no caller.
* **Disputes.** An INR_TO_INR deal has no value to rule over, so its case cannot be resolved;
  the model keeps to what the code does.
* **Row locks.** Creation of accounts, refund rulings, proposals and waits on unique
  indexes. Nothing retries a transaction that PostgreSQL aborts (`withTransaction` only
  rolls back) although `docs/specs/TS-02.md:2482` leaves it to the caller; `service.ts:1680`
  ("Deadlock is impossible") is right about claims and `0008_del04_value_protection.sql:97`
  about one `post_entry`; the circles of `CirclesAreKnown` go through other rows.
* **Commands.** `DealRoom` uses one handle for confirm and cancel. `lib/commandId.ts:42-45`
  takes every answer but UNKNOWN for the decision on the command. Two answers to a repeated
  call are not: a conflict, when the form was changed after a call whose answer was lost,
  and an error with a name that comes before the look at the row (no session, no adapter).
  The page then lets the id go, and the decision an earlier call has recorded, or will, is
  told to nobody; with the reload these are the exceptions of `UntoldDecisionIsHeld`. The
  comment at `command.ts:376-380` ("No domain mutation accompanies it: every guard in every
  body runs before the first write") is not what the code does: the run `completion` shows
  a refused confirmation that commits COMPLETED, and a join refused for
  INSUFFICIENT_BALANCE commits what it consumed of the limits.
* **Rails.** Signatures, the comparison of terms, delivery ids and their replay, client
  evidence (a row nothing reads), and the risk gate's answer, which `DismissEvent` leaves open.
* **Limits.** The seeded per-transaction limit acts as a daily one and is below the daily
  one, which is therefore never reached.  A refused reward key that is evaluated again
  grants without counting.  `INSUFFICIENT_BALANCE` commits what was consumed.
  `evaluateRewardFor` does not look whether the deal is completed.  `withdrawRewardsFor` and
  `correctConsumption` have no caller.
* **Commerce.** `feePolicy.ts:11-27` has every schedule proposed by one operator and
  approved by another; the opening schedules of `0011_del07_commercial.sql:706-719` are in
  force without either ("Production requires a maker-checker activation that nobody has
  performed", says the migration, and they are not `production_enabled`), so
  `OneApprovedSchedule` excepts them until the first approval of their corridor. Campaigns
  and premium are the discount they give; reputation is not read back. A reward may be spent
  although the cap leaves it no effect, and `summary.discounts` lists uncapped parts.
  `insertQuoteIn` throws on a refusal, so `snapshotQuote`'s rejection rolls back.
  `wouldCycle` stops after 64 steps: what lies beyond is left to `Depth`; the comment above
  it calls the chain acyclic by construction, which two overlapping claims are not.  The
  `qualifyReferral` of `entitlements.ts` has no caller.
* **Identity.** TOTP arithmetic and its burnt step, the other rate rules (`confirmMfaEnrolment`
  has none), challenge binding, the linking of accounts, payment methods.  `rotateSessionIfDue`,
  `expireLapsedVerifications`, `pruneRateBuckets` and `linkTelegramIdentity` have no caller.
  Recovery is two transactions.  A code sent before "sign out everywhere" can still be
  redeemed.  A renewal loses the badge when the older approval expires.  Presentations that
  are refused go on counting, and calls counted before a code was written are not
  among its guesses.  The badge is also written by `telegram/auth.ts` and by the sandbox's
  `markVerified`.
* **Deal room.** Redaction and live chat.  A message that commits later with an earlier
  place can be passed over by a reader who is past it, against the comment that the cursor
  cannot drop one.  `fetchEvidence` and `dealRoom` have no caller in the pages.  A replayed
  EVIDENCE_UPLOAD_BEGIN answers without its capability and nothing issues another;
  `completeUpload` does not ask whether the presenter is the uploader; a link that is handed
  on is spent by whoever presents it.
* **Sweeps.** `expirePaymentIntents`, `runLifecycleSweep` and `expireLapsedVerifications` are
  called by nothing that runs by itself, so no liveness is claimed of what they end.
* **Database roles** and least privilege, notifications and the wording of audit rows.

## 6. Status

Every module planned is written and checked.  Every safety invariant, action property and
refinement that a passing run checks and that speaks of one module is proved; what stays
with TLC is at the end of section 4.  Of the seven properties the findings refute,
each has its true part proved: where the USDT of an ended deal is, when a completion pays,
under which commands a freeze holds, what an escrow keeps after a settlement
(`EscrowBacksLock`), that lost attempts are lost and stop their queue; only
`LapsedDealCanBeReported`, which is about what is enabled, has none but `EndedValueStays`.
