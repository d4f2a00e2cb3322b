---------------------------- MODULE PaymentRails ----------------------------
(***************************************************************************)
(* Money arriving from outside: payment intents, the instruction that says *)
(* where to pay, the events a provider or chain watcher reports, and what  *)
(* a confirmation and a reorganisation do to the ledger of ValueLedger.    *)
(*                                                                         *)
(* Ingesting an event is two steps.  The first matches it to its intent,   *)
(* whose row stays locked until the transaction ends, and takes the two    *)
(* reads no lock protects: whether another payment claims the reference,   *)
(* and whether the value of the deal is still locked.  The second writes.  *)
(* Between them other intents, the deal and the ledger move on.            *)
(*                                                                         *)
(* An event that agrees with no intent, in address, asset, network, amount *)
(* or beneficiary, or that fails verification, is recorded and refused; a  *)
(* redelivery replays the stored outcome of its command; client evidence   *)
(* writes a row that nothing reads.  These change nothing modelled.        *)
(***************************************************************************)
EXTENDS ValueLedger

CONSTANTS
    Intents,        \* payment_intent rows
    Terms,          \* Terms[i]: the deal, rail, direction and amount of i, immutable
    Refs,           \* transaction hashes and bank references
    NoRef,
    NoEvent,
    MaxDeliveries   \* bound: matched events

Rails      == {"INR", "USDT"}
Directions == {"COLLECT", "PAYOUT"}
Reports    == {"PENDING", "CONFIRMED", "FAILED", "REORGED"}

ASSUME RailsAssumption ==
    /\ Terms \in [Intents -> [deal : Deals, rail : Rails, direction : Directions,
                              amount : Amounts]]
    /\ NoRef \notin Refs
    /\ MaxDeliveries \in Nat

ASSUME IntentsAreFinite == IsFiniteSet(Intents)

VARIABLES
    intent,      \* intent[i]: state, and the reference of its confirmation
    instructed,  \* intents with a payment_instruction row
    journal,     \* intents with a JD-DEP-CONFIRM entry
    claimed,     \* payment_observation_confirmed_ref_uq: <<rail, reference, intent>>
    ingest,      \* ingest[i]: the ingestion that holds the row of i, and what it read
    closed,      \* deals in COMPLETED or CANCELLED
    incidents,   \* deals with an open REORG_AFTER_DISPOSAL
    deliveries   \* matched events so far

railVars  == <<intent, instructed, journal, claimed, ingest, closed, incidents, deliveries>>
railsVars == <<railVars, ledgerVars>>

IntentStates == {"NONE", "REQUESTED", "INSTRUCTED", "OBSERVED", "CONFIRMED", "FAILED",
                 "EXPIRED", "REVERSED"}
LiveStates   == {"REQUESTED", "INSTRUCTED", "OBSERVED"}
Settled      == {"CONFIRMED", "REVERSED"}

IntentRows == [state : IntentStates, ref : Refs \cup {NoRef}]
Events     == [report : Reports, ref : Refs \cup {NoRef}, state : IntentStates,
               disposable : BOOLEAN]

DealOf(i) == Terms[i].deal
Live(i)   == intent[i].state \in LiveStates
RowFree(i) == ingest[i] = NoEvent

SameDemand(i, j) ==
    /\ DealOf(i) = DealOf(j)
    /\ Terms[i].rail = Terms[j].rail
    /\ Terms[i].direction = Terms[j].direction

ClaimedElsewhere(i, r) == \E j \in Intents \ {i} : <<Terms[i].rail, r, j>> \in claimed
ClaimTaken(i, r)       == \E j \in Intents : <<Terms[i].rail, r, j>> \in claimed

RailsInit ==
    /\ LedgerInit
    /\ intent     = [i \in Intents |-> [state |-> "NONE", ref |-> NoRef]]
    /\ instructed = {}
    /\ journal    = {}
    /\ claimed    = {}
    /\ ingest     = [i \in Intents |-> NoEvent]
    /\ closed     = {}
    /\ incidents  = {}
    /\ deliveries = 0

-----------------------------------------------------------------------------
(* Intents and instructions.                                               *)

(* openIntent: one live demand of a deal, rail and direction, while the    *)
(* deal, whose row is locked, goes on.                                     *)
OpenIntent(i) ==
    /\ intent[i].state = "NONE"
    /\ DealOf(i) \notin closed
    /\ \A j \in Intents : SameDemand(i, j) => ~Live(j)
    /\ intent' = [intent EXCEPT ![i].state = "REQUESTED"]
    /\ UNCHANGED <<instructed, journal, claimed, ingest, closed, incidents, deliveries,
                   ledgerVars>>

(* issueInstruction, the first time: the payer learns where to pay, only   *)
(* while the lock is live.  A later call finds the row and returns it.     *)
(* The answer of the gate is not modelled: a refusal leaves all as it is.  *)
IssueInstruction(i) ==
    /\ RowFree(i)
    /\ intent[i].state = "REQUESTED"
    /\ lock[DealOf(i)].state = "LOCKED"
    /\ intent'     = [intent EXCEPT ![i].state = "INSTRUCTED"]
    /\ instructed' = instructed \cup {i}
    /\ UNCHANGED <<journal, claimed, ingest, closed, incidents, deliveries, ledgerVars>>

(* A sweep that does not wait for an ingestion holding the row.            *)
MutExpireUnderLock(S) ==
    /\ S # {}
    /\ \A i \in S : Live(i)
    /\ intent' = [i \in Intents |-> IF i \in S THEN [intent[i] EXCEPT !.state = "EXPIRED"]
                                    ELSE intent[i]]
    /\ UNCHANGED <<instructed, journal, claimed, ingest, closed, incidents, deliveries,
                   ledgerVars>>

(* expirePaymentIntents: the live intents whose window has passed.  When a *)
(* window passes is left open.                                             *)
ExpirePaymentIntents(S) ==
    /\ S # {}
    /\ \A i \in S : Live(i) /\ RowFree(i)
    /\ intent' = [i \in Intents |-> IF i \in S THEN [intent[i] EXCEPT !.state = "EXPIRED"]
                                    ELSE intent[i]]
    /\ UNCHANGED <<instructed, journal, claimed, ingest, closed, incidents, deliveries,
                   ledgerVars>>

-----------------------------------------------------------------------------
(* Ingesting an event.                                                     *)

(* ingestProviderEvent up to applyObservation: matchIntent finds the       *)
(* intent through the address or reference its instruction issued, and     *)
(* locks the row.  Only a confirmation makes use of its reference after    *)
(* that, and only a reorganisation looks at the lock.                      *)
MatchEvent(i, report, r) ==
    /\ deliveries < MaxDeliveries
    /\ i \in instructed
    /\ RowFree(i)
    /\ ~ClaimedElsewhere(i, r)
    /\ ingest' = [ingest EXCEPT ![i] =
                    [report |-> report, state |-> intent[i].state,
                     ref |-> IF report = "CONFIRMED" THEN r ELSE NoRef,
                     disposable |-> report = "REORGED" /\ lock[DealOf(i)].state = "LOCKED"]]
    /\ deliveries' = deliveries + 1
    /\ UNCHANGED <<intent, instructed, journal, claimed, closed, incidents, ledgerVars>>

(* The transaction of the ingestion on i ends.                             *)
EndIngest(i) ==
    /\ ingest' = [ingest EXCEPT ![i] = NoEvent]
    /\ UNCHANGED <<instructed, closed, deliveries>>

Reported(i, report) == ingest[i] # NoEvent /\ ingest[i].report = report

(* A FAILED report that is believed whatever came before it.               *)
MutFailSettled(i) ==
    /\ Reported(i, "FAILED")
    /\ intent' = [intent EXCEPT ![i].state = "FAILED"]
    /\ EndIngest(i)
    /\ UNCHANGED <<journal, claimed, incidents, ledgerVars>>

(* FAILED, before settlement; the UPDATE finds live rows only.             *)
ApplyFailed(i) ==
    /\ Reported(i, "FAILED")
    /\ ingest[i].state \notin Settled
    /\ intent' = [intent EXCEPT ![i].state = IF Live(i) THEN "FAILED" ELSE @]
    /\ EndIngest(i)
    /\ UNCHANGED <<journal, claimed, incidents, ledgerVars>>

(* A report that is not final taken for a settlement.                      *)
MutPendingSettles(i) ==
    /\ Reported(i, "PENDING")
    /\ ingest[i].state \in {"INSTRUCTED", "OBSERVED"}
    /\ intent' = [intent EXCEPT ![i].state = IF @ = "INSTRUCTED" THEN "OBSERVED" ELSE "CONFIRMED"]
    /\ EndIngest(i)
    /\ UNCHANGED <<journal, claimed, incidents, ledgerVars>>

(* PENDING, or fewer confirmations than the rail requires.                 *)
ApplyPending(i) ==
    /\ Reported(i, "PENDING")
    /\ ingest[i].state \in {"INSTRUCTED", "OBSERVED"}
    /\ intent' = [intent EXCEPT ![i].state = IF @ = "INSTRUCTED" THEN "OBSERVED" ELSE @]
    /\ EndIngest(i)
    /\ UNCHANGED <<journal, claimed, incidents, ledgerVars>>

(* post_entry with a key made of the intent: a second post is the first.   *)
PostOnce(i) ==
    IF Terms[i].rail = "USDT" /\ i \notin journal
    THEN /\ PostConfirmedValue(DealOf(i), Terms[i].amount)
         /\ journal' = journal \cup {i}
    ELSE UNCHANGED <<journal, ledgerVars>>

(* The early look at the references trusted, and no unique index.          *)
MutConfirmNoIndex(i) ==
    /\ Reported(i, "CONFIRMED")
    /\ ingest[i].state \in {"INSTRUCTED", "OBSERVED"}
    /\ claimed' = claimed \cup {<<Terms[i].rail, ingest[i].ref, i>>}
    /\ PostOnce(i)
    /\ intent' = [intent EXCEPT ![i] = IF @.state \in {"INSTRUCTED", "OBSERVED"}
                                       THEN [state |-> "CONFIRMED", ref |-> ingest[i].ref]
                                       ELSE @]
    /\ EndIngest(i)
    /\ UNCHANGED incidents

(* CONFIRMED and final: the observation, which the unique index admits     *)
(* once per reference, the posting, and last the guarded UPDATE.  The post *)
(* stands even if the UPDATE finds no row.                                 *)
ConfirmPayment(i) ==
    /\ Reported(i, "CONFIRMED")
    /\ ingest[i].state \in {"INSTRUCTED", "OBSERVED"}
    /\ ~ClaimTaken(i, ingest[i].ref)
    /\ claimed' = claimed \cup {<<Terms[i].rail, ingest[i].ref, i>>}
    /\ PostOnce(i)
    /\ intent' = [intent EXCEPT ![i] = IF @.state \in {"INSTRUCTED", "OBSERVED"}
                                       THEN [state |-> "CONFIRMED", ref |-> ingest[i].ref]
                                       ELSE @]
    /\ EndIngest(i)
    /\ UNCHANGED incidents

Reorganised(i) == Reported(i, "REORGED") /\ ingest[i].state = "CONFIRMED"

(* A reorganisation charged to somebody's balance.                         *)
MutReorgDebitsParty(i) ==
    /\ Reorganised(i)
    /\ \E u \in Users :
          /\ Terms[i].amount <= balance[u]
          /\ balance' = [balance EXCEPT ![u] = @ - Terms[i].amount]
    /\ wallet' = wallet - Terms[i].amount
    /\ intent' = [intent EXCEPT ![i].state = "REVERSED"]
    /\ EndIngest(i)
    /\ UNCHANGED <<journal, claimed, incidents, escrow, deposit, lock, revenue, funded, controlVars>>

(* A reorganisation that corrects the payment and not the ledger.          *)
MutReorgKeepsDeposit(i) ==
    /\ Reorganised(i)
    /\ ingest[i].disposable
    /\ intent' = [intent EXCEPT ![i].state = "REVERSED"]
    /\ EndIngest(i)
    /\ UNCHANGED <<journal, claimed, incidents, ledgerVars>>

(* REORGED while the value was still locked when it was looked at: the     *)
(* entry, if there is one, is reversed.                                    *)
ApplyReorg(i) ==
    /\ Reorganised(i)
    /\ ingest[i].disposable
    /\ IF i \in journal THEN ReverseDeposit(DealOf(i), Terms[i].amount)
       ELSE UNCHANGED ledgerVars
    /\ intent' = [intent EXCEPT ![i].state = "REVERSED"]
    /\ EndIngest(i)
    /\ UNCHANGED <<journal, claimed, incidents>>

(* REORGED after the lock has ended: an incident, and nothing moves.       *)
RaiseIncident(i) ==
    /\ Reorganised(i)
    /\ ~ingest[i].disposable
    /\ incidents' = incidents \cup {DealOf(i)}
    /\ EndIngest(i)
    /\ UNCHANGED <<intent, journal, claimed, ledgerVars>>

(* A duplicate or late report, a confirmation the gate holds back, or one  *)
(* whose reference was claimed meanwhile, so that the index aborts the     *)
(* transaction.                                                            *)
DismissEvent(i) ==
    /\ \/ Reported(i, "FAILED") /\ ingest[i].state \in Settled
       \/ Reported(i, "REORGED") /\ ingest[i].state # "CONFIRMED"
       \/ Reported(i, "PENDING") /\ ingest[i].state \notin {"INSTRUCTED", "OBSERVED"}
       \/ Reported(i, "CONFIRMED")
    /\ EndIngest(i)
    /\ UNCHANGED <<intent, journal, claimed, incidents, ledgerVars>>

-----------------------------------------------------------------------------
(* The rest of the platform: a deal ends, the ledger moves.                *)

CloseDeal(d) ==
    /\ d \notin closed
    /\ closed' = closed \cup {d}
    /\ UNCHANGED <<intent, instructed, journal, claimed, ingest, incidents, deliveries,
                   ledgerVars>>

LedgerMoves ==
    /\ \/ ControlNext
       \/ \E u \in Users, a \in Amounts : FundSandboxBalance(u, a)
       \/ \E d \in Deals, u \in Users, a \in Amounts : LockDealValue(d, u, a)
       \/ \E d \in Deals, b \in Users : ReleaseDealValue(d, b) \/ RefundDealValue(d, b)
       \/ \E d \in Deals : ReverseLock(d)
    /\ UNCHANGED railVars

IngestNext(i) ==
    \/ \E report \in Reports, r \in Refs : MatchEvent(i, report, r)
    \/ ApplyFailed(i)
    \/ ApplyPending(i)
    \/ ConfirmPayment(i)
    \/ ApplyReorg(i)
    \/ RaiseIncident(i)
    \/ DismissEvent(i)

RailsNext ==
    \/ \E i \in Intents : OpenIntent(i) \/ IssueInstruction(i) \/ IngestNext(i)
    \/ \E S \in SUBSET Intents : ExpirePaymentIntents(S)
    \/ \E d \in Deals : CloseDeal(d)
    \/ LedgerMoves

RailsSpec == RailsInit /\ [][RailsNext]_railsVars

-----------------------------------------------------------------------------
(* Types, with what the checks of payment_intent demand: a settled payment *)
(* names the observation that settled it, and none gets past REQUESTED     *)
(* without an instruction but by expiring.                                 *)
RailsTypeOK ==
    /\ intent     \in [Intents -> IntentRows]
    /\ instructed \subseteq Intents
    /\ journal    \subseteq Intents
    /\ claimed    \subseteq Rails \X Refs \X Intents
    /\ ingest     \in [Intents -> Events \cup {NoEvent}]
    /\ closed     \subseteq Deals
    /\ incidents  \subseteq Deals
    /\ deliveries \in 0..MaxDeliveries
    /\ \A i \in Intents :
          /\ intent[i].state \in Settled <=> intent[i].ref # NoRef
          /\ intent[i].state \notin {"NONE", "REQUESTED", "EXPIRED"} => i \in instructed
          /\ intent[i].state \in {"NONE", "REQUESTED"} => i \notin instructed

(* A transaction hash or bank reference is one movement of money, and it   *)
(* settles one payment: whatever a provider reports, and however the       *)
(* ingestions of two intents overlap, no two payments ever rest on the     *)
(* same reference.  The look at the other payments takes no lock, so it is *)
(* the unique index that carries this.                                     *)
OneMovementOnePayment ==
    \A i, j \in Intents :
        /\ i # j
        /\ Terms[i].rail = Terms[j].rail
        /\ intent[i].state \in Settled
        /\ intent[j].state \in Settled
        => intent[i].ref # intent[j].ref

(* An entry stands in the journal for exactly the USDT payments that were  *)
(* confirmed: no overlap of ingestion, expiry and failure posts value for  *)
(* a payment that is then recorded as anything else, posts twice, or       *)
(* confirms without posting; rupees are never posted.                      *)
PostedIsConfirmed ==
    journal = {i \in Intents : Terms[i].rail = "USDT" /\ intent[i].state \in Settled}

DemandAmount == [i \in Intents |-> Terms[i].amount]

Credited(d) ==
    {i \in Intents : DealOf(i) = d /\ Terms[i].rail = "USDT" /\ intent[i].state = "CONFIRMED"}

(* What the ledger calls the deposits of a deal is the sum of its confirmed*)
(* token payments that no reorganisation has withdrawn.                    *)
DepositsAreConfirmed ==
    \A d \in Deals : deposit[d] = SumFunctionOnSet(DemandAmount, Credited(d))

OutcomeKept(i) ==
    /\ intent[i].state \in {"FAILED", "EXPIRED", "REVERSED"} => intent'[i] = intent[i]
    /\ intent[i].state = "CONFIRMED" =>
          /\ intent'[i].state \in Settled
          /\ intent'[i].ref = intent[i].ref

(* What was decided of a payment stays decided.  Reports arrive late,      *)
(* twice and out of order: after a failure or expiry nothing revives the   *)
(* payment, and after a confirmation only a reorganisation undoes it.      *)
OutcomeIsFinal == [][\A i \in Intents : OutcomeKept(i)]_railsVars

(* Whatever a provider reports, the rails move value only as the ledger    *)
(* allows: a deposit into the escrow of its own deal, or that deposit      *)
(* back.  No report reaches a party balance, a lock or the revenue.        *)
RailsKeepLedger == LedgerSpec

(* observations.ts:433: "The deposit funded a deal escrow.  If that escrow *)
(* has since been RELEASED to the counterparty or REFUNDED, the value is   *)
(* in somebody's balance and it is theirs."                                *)
SettledMeansDisposed ==
    \A d \in Deals : lock[d].state \in Settlements => deposit[d] = 0
=============================================================================
