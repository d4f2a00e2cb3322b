------------------------------ MODULE DealSafe ------------------------------
(***************************************************************************)
(* A deal from its link to its end: the quote turned into an invitation,   *)
(* the join that locks the value, the payment claim and its confirmation,  *)
(* cancellation, the payment window, the dispute case with its proposals   *)
(* and rulings, all over the ledger of ValueLedger.                        *)
(*                                                                         *)
(* An action is one command of services/commands.ts: the body that         *)
(* runCommand runs in one transaction, with the deal row (or the link, the *)
(* proposal, the case) locked before it is read.  runCommand commits what  *)
(* a refused body has written, so a refusal that wrote something is an     *)
(* alternative of its action; one that wrote only audit rows is none.  The *)
(* value commands are two steps, because the freeze is read there without  *)
(* any lock on the deal.                                                   *)
(*                                                                         *)
(* Deposits do not occur here: ValueLedger covers them.                    *)
(***************************************************************************)
EXTENDS ValueLedger, Sequences

CONSTANTS
    Operators,     \* people with the permissions case.propose and case.approve
    Utrs,          \* bank transfer references a payer may quote
    NoUtr,
    NoOperator,
    DealAmount,    \* DealAmount[d]: the USDT of deal d
    MaxProposals,  \* bound: proposals of one case
    Exposed        \* the commands no screen calls that this instance offers

Surface == {"VALUE_LOCK", "VALUE_RELEASE", "VALUE_REFUND", "VALUE_REVERSE",
            "DISPUTE_CASE_OPEN"}

ASSUME DealAssumption ==
    /\ DealAmount \in [Deals -> Amounts]
    /\ MaxProposals \in Nat
    /\ NoUtr \notin Utrs
    /\ NoOperator \notin Operators
    /\ Exposed \subseteq Surface

VARIABLES
    link,       \* deal_link.state of the invitation to d
    usdtLeg,    \* deals whose quote has a USDT leg; the others are INR_TO_INR
    seats,      \* seats[d][r]: who sits on side r; before the join one is empty
    deal,       \* deal.state, "NONE" before the join
    overdue,    \* deals whose link, or whose payment window, has run out
    claim,      \* claim[d]: the reference of the payment_claim row
    confirmed,  \* deals with a settlement_confirmation row
    dispute,    \* dispute[d]: state and version of the dispute_case row
    proposals,  \* proposals[d]: its dispute_proposal rows, oldest first
    settling    \* value commands between the freeze check and the settlement

dealVars == <<link, usdtLeg, seats, deal, overdue, claim, confirmed, dispute, proposals, settling>>
dealSafeVars == <<link, usdtLeg, seats, deal, overdue, claim, confirmed, dispute, proposals,
                  settling, ledgerVars>>

Roles        == {"CRYPTO_SIDE", "FIAT_SIDE"}
LinkStates   == {"NONE", "OPEN", "CONSUMED", "CLOSED"}
DealStates   == {"NONE", "FIAT_PENDING", "FIAT_CLAIMED", "COMPLETED", "CANCELLED",
                 "EXPIRED", "DISPUTED"}
TerminalStates == {"COMPLETED", "CANCELLED", "EXPIRED"}
CaseStates   == {"NONE", "OPEN", "UNDER_REVIEW", "RESOLVED"}
Dispositions == {"RELEASE", "REFUND"}
ProposalStates == {"PROPOSED", "APPROVED", "REJECTED", "SUPERSEDED"}

Proposals == [by : Operators, disposition : Dispositions, version : Nat,
              state : ProposalStates, approver : Operators \cup {NoOperator}]

NoCase     == [state |-> "NONE", version |-> 0]
EmptySeats == [r \in Roles |-> NoUser]

OtherRole(r) == IF r = "CRYPTO_SIDE" THEN "FIAT_SIDE" ELSE "CRYPTO_SIDE"
CryptoSide(d) == seats[d]["CRYPTO_SIDE"]
FiatSide(d)   == seats[d]["FIAT_SIDE"]
Participants(d) == {seats[d][r] : r \in Roles} \ {NoUser}
Counterparty(d, u) == IF u = CryptoSide(d) THEN FiatSide(d) ELSE CryptoSide(d)

(* activeCaseForDeal                                                       *)
CaseActive(d) == dispute[d].state \in {"OPEN", "UNDER_REVIEW"}
LiveProposals(d) == {i \in DOMAIN proposals[d] : proposals[d][i].state = "PROPOSED"}

DealInit ==
    /\ LedgerInit
    /\ link      = [d \in Deals |-> "NONE"]
    /\ usdtLeg   = {}
    /\ seats     = [d \in Deals |-> EmptySeats]
    /\ deal      = [d \in Deals |-> "NONE"]
    /\ overdue   = {}
    /\ claim     = [d \in Deals |-> NoUtr]
    /\ confirmed = {}
    /\ dispute   = [d \in Deals |-> NoCase]
    /\ proposals = [d \in Deals |-> <<>>]
    /\ settling  = {}

-----------------------------------------------------------------------------
(* Links.                                                                  *)

(* createDealIntentIn: a quote, which fixes the scenario, and the link     *)
(* that consumes it; the creator takes a side.                             *)
CreateDealLink(d, u, r) ==
    /\ link[d] = "NONE"
    /\ usdtLeg' \in {usdtLeg, usdtLeg \cup {d}}
    /\ link'  = [link EXCEPT ![d] = "OPEN"]
    /\ seats' = [seats EXCEPT ![d][r] = u]
    /\ UNCHANGED <<deal, overdue, claim, confirmed, dispute, proposals, settling, ledgerVars>>

(* closeDealLinkIn: the creator withdraws an unconsumed link.              *)
CloseDealLink(d) ==
    /\ link[d] = "OPEN"
    /\ link' = [link EXCEPT ![d] = "CLOSED"]
    /\ UNCHANGED <<usdtLeg, seats, deal, overdue, claim, confirmed, dispute, proposals, settling,
                   ledgerVars>>

(* The clock: a link lapses, or the payment window of a deal does.         *)
WindowPasses(d) ==
    /\ d \notin overdue
    /\ link[d] = "OPEN" \/ deal[d] = "FIAT_PENDING"
    /\ overdue' = overdue \cup {d}
    /\ UNCHANGED <<link, usdtLeg, seats, deal, claim, confirmed, dispute, proposals, settling,
                   ledgerVars>>

(* Two ways a join could go wrong: the creator takes both sides, and a     *)
(* refused lock does not stop the deal.                                    *)
MutJoinOwnLink(d, u) ==
    /\ link[d] = "OPEN"
    /\ d \notin overdue
    /\ \E r \in Roles :
          /\ seats[d][r] = NoUser
          /\ seats' = [seats EXCEPT ![d][r] = u]
    /\ IF d \in usdtLeg THEN LockDealValue(d, seats'[d]["CRYPTO_SIDE"], DealAmount[d])
       ELSE UNCHANGED ledgerVars
    /\ link' = [link EXCEPT ![d] = "CONSUMED"]
    /\ deal' = [deal EXCEPT ![d] = "FIAT_PENDING"]
    /\ UNCHANGED <<usdtLeg, overdue, claim, confirmed, dispute, proposals, settling>>

MutJoinUnlocked(d, u) ==
    /\ link[d] = "OPEN"
    /\ d \notin overdue
    /\ u \notin Participants(d)
    /\ \E r \in Roles :
          /\ seats[d][r] = NoUser
          /\ seats' = [seats EXCEPT ![d][r] = u]
    /\ \/ LockDealValue(d, seats'[d]["CRYPTO_SIDE"], DealAmount[d])
       \/ balance[seats'[d]["CRYPTO_SIDE"]] < DealAmount[d] /\ UNCHANGED ledgerVars
    /\ link' = [link EXCEPT ![d] = "CONSUMED"]
    /\ deal' = [deal EXCEPT ![d] = "FIAT_PENDING"]
    /\ UNCHANGED <<usdtLeg, overdue, claim, confirmed, dispute, proposals, settling>>

(* joinDealLinkIn: lock first, then the deal.  A lock the risk engine      *)
(* refuses leaves the link open and no deal.                               *)
JoinDealLink(d, u) ==
    /\ link[d] = "OPEN"
    /\ d \notin overdue
    /\ u \notin Participants(d)
    /\ \E r \in Roles :
          /\ seats[d][r] = NoUser
          /\ LET seated == [seats[d] EXCEPT ![r] = u]
                 owner  == seated["CRYPTO_SIDE"]
                 Join   == /\ link'  = [link EXCEPT ![d] = "CONSUMED"]
                           /\ deal'  = [deal EXCEPT ![d] = "FIAT_PENDING"]
                           /\ seats' = [seats EXCEPT ![d] = seated]
             IN  \/ d \in usdtLeg /\ LockDealValue(d, owner, DealAmount[d]) /\ Join
                 \/ d \notin usdtLeg /\ UNCHANGED ledgerVars /\ Join
                 \/ /\ d \in usdtLeg
                    /\ PlaceHold(owner, "VALUE_LOCK")
                    /\ UNCHANGED <<link, deal, seats>>
    /\ UNCHANGED <<usdtLeg, overdue, claim, confirmed, dispute, proposals, settling>>

-----------------------------------------------------------------------------
(* The payment.                                                            *)

(* expireDealIfLapsed, run by runLifecycleSweep and at the head of the     *)
(* claim and the cancellation, which then refuse and commit it.            *)
ExpireDealIfLapsed(d) ==
    /\ deal[d] = "FIAT_PENDING"
    /\ d \in overdue
    /\ deal'    = [deal EXCEPT ![d] = "EXPIRED"]
    /\ overdue' = overdue \ {d}
    /\ UNCHANGED <<link, usdtLeg, seats, claim, confirmed, dispute, proposals, settling, ledgerVars>>

(* One transfer quoted on two deals.                                       *)
MutClaimReused(d, utr) ==
    /\ deal[d] = "FIAT_PENDING"
    /\ d \notin overdue
    /\ claim' = [claim EXCEPT ![d] = utr]
    /\ deal'  = [deal EXCEPT ![d] = "FIAT_CLAIMED"]
    /\ UNCHANGED <<link, usdtLeg, seats, overdue, confirmed, dispute, proposals, settling, ledgerVars>>

(* submitPaymentClaimIn, by the fiat side.  A reference already quoted on  *)
(* any deal is refused.                                                    *)
SubmitPaymentClaim(d, utr) ==
    /\ deal[d] = "FIAT_PENDING"
    /\ d \notin overdue
    /\ claim[d] = NoUtr
    /\ \A e \in Deals : claim[e] # utr
    /\ claim' = [claim EXCEPT ![d] = utr]
    /\ deal'  = [deal EXCEPT ![d] = "FIAT_CLAIMED"]
    /\ UNCHANGED <<link, usdtLeg, seats, overdue, confirmed, dispute, proposals, settling, ledgerVars>>

(* The lock was settled before, or the gate does not let it go.            *)
ReleaseRefused(d) ==
    \/ lock[d].state \notin {"NONE", "LOCKED"} /\ UNCHANGED ledgerVars
    \/ lock[d].state = "LOCKED" /\ Refused(d, "ESCROW_RELEASE")

(* A confirmation that looks at the claim row and not at the deal.         *)
MutConfirmDisputed(d) ==
    /\ claim[d] # NoUtr
    /\ deal[d] \notin TerminalStates
    /\ confirmed' = confirmed \cup {d}
    /\ deal' = [deal EXCEPT ![d] = "COMPLETED"]
    /\ \/ lock[d].state = "NONE" /\ UNCHANGED ledgerVars
       \/ ReleaseDealValue(d, FiatSide(d))
       \/ ReleaseRefused(d)
    /\ UNCHANGED <<link, usdtLeg, seats, overdue, claim, dispute, proposals, settling>>

(* confirmReceiptIn, by the crypto side.  The deal is completed before the *)
(* release is tried: a release that is refused is returned, not thrown,    *)
(* and runCommand commits the completion with it.  No lock row at all      *)
(* counts as released.                                                     *)
ConfirmReceipt(d) ==
    /\ deal[d] = "FIAT_CLAIMED"
    /\ confirmed' = confirmed \cup {d}
    /\ deal' = [deal EXCEPT ![d] = "COMPLETED"]
    /\ \/ lock[d].state = "NONE" /\ UNCHANGED ledgerVars
       \/ ReleaseDealValue(d, FiatSide(d))
       \/ ReleaseRefused(d)
    /\ UNCHANGED <<link, usdtLeg, seats, overdue, claim, dispute, proposals, settling>>

(* cancelDealIn, by either side.  The lock is not touched.                 *)
CancelDeal(d) ==
    /\ deal[d] = "FIAT_PENDING"
    /\ d \notin overdue
    /\ deal' = [deal EXCEPT ![d] = "CANCELLED"]
    /\ UNCHANGED <<link, usdtLeg, seats, overdue, claim, confirmed, dispute, proposals, settling,
                   ledgerVars>>

-----------------------------------------------------------------------------
(* Disputes.                                                               *)

(* Two ways openCase could go wrong: the deal is not frozen with the case, *)
(* and a finished deal is taken back.                                      *)
MutOpenCaseNoFreeze(d) ==
    /\ deal[d] \notin {"NONE", "COMPLETED", "CANCELLED"}
    /\ ~CaseActive(d)
    /\ dispute'   = [dispute EXCEPT ![d] = [state |-> "OPEN", version |-> 0]]
    /\ proposals' = [proposals EXCEPT ![d] = <<>>]
    /\ UNCHANGED <<link, usdtLeg, seats, deal, overdue, claim, confirmed, settling, ledgerVars>>

MutOpenCaseFinished(d) ==
    /\ deal[d] # "NONE"
    /\ ~CaseActive(d)
    /\ dispute'   = [dispute EXCEPT ![d] = [state |-> "OPEN", version |-> 0]]
    /\ proposals' = [proposals EXCEPT ![d] = <<>>]
    /\ deal'      = [deal EXCEPT ![d] = "DISPUTED"]
    /\ overdue'   = overdue \ {d}
    /\ UNCHANGED <<link, usdtLeg, seats, claim, confirmed, settling, ledgerVars>>

(* openCase: one active case per deal, and the deal is frozen with it.     *)
OpenCase(d) ==
    /\ deal[d] \notin {"NONE", "COMPLETED", "CANCELLED"}
    /\ ~CaseActive(d)
    /\ dispute'   = [dispute EXCEPT ![d] = [state |-> "OPEN", version |-> 0]]
    /\ proposals' = [proposals EXCEPT ![d] = <<>>]
    /\ deal'      = [deal EXCEPT ![d] = "DISPUTED"]
    /\ overdue'   = overdue \ {d}
    /\ UNCHANGED <<link, usdtLeg, seats, claim, confirmed, settling, ledgerVars>>

(* raiseDisputeIn, from the deal room, by either side.                     *)
RaiseDispute(d) ==
    /\ deal[d] \notin TerminalStates \cup {"DISPUTED"}
    /\ OpenCase(d)

(* openDisputeCaseCommand: openCase with no more questions.                *)
OpenDisputeCase(d) ==
    /\ "DISPUTE_CASE_OPEN" \in Exposed
    /\ OpenCase(d)

(* A second proposal beside a live one.                                    *)
MutProposeBeside(d, o, disposition) ==
    /\ CaseActive(d)
    /\ lock[d].state = "LOCKED"
    /\ Len(proposals[d]) < MaxProposals
    /\ proposals' = [proposals EXCEPT ![d] =
          Append(@, [by |-> o, disposition |-> disposition, version |-> dispute[d].version,
                     state |-> "PROPOSED", approver |-> NoOperator])]
    /\ dispute' = [dispute EXCEPT ![d] = [state |-> "UNDER_REVIEW", version |-> @.version + 1]]
    /\ UNCHANGED <<link, usdtLeg, seats, deal, overdue, claim, confirmed, settling, ledgerVars>>

(* proposeResolution, against the version the operator has read.           *)
ProposeResolution(d, o, disposition) ==
    /\ CaseActive(d)
    /\ lock[d].state = "LOCKED"
    /\ LiveProposals(d) = {}
    /\ Len(proposals[d]) < MaxProposals
    /\ proposals' = [proposals EXCEPT ![d] =
          Append(@, [by |-> o, disposition |-> disposition, version |-> dispute[d].version,
                     state |-> "PROPOSED", approver |-> NoOperator])]
    /\ dispute' = [dispute EXCEPT ![d] = [state |-> "UNDER_REVIEW", version |-> @.version + 1]]
    /\ UNCHANGED <<link, usdtLeg, seats, deal, overdue, claim, confirmed, settling, ledgerVars>>

(* The columns a decision writes on a proposal.                            *)
Decided(p, state, approver) ==
    [by |-> p.by, disposition |-> p.disposition, version |-> p.version,
     state |-> state, approver |-> approver]

(* rejectProposal: any operator, the proposer included.                    *)
RejectProposal(d, i) ==
    /\ i \in LiveProposals(d)
    /\ proposals' = [proposals EXCEPT ![d][i] = Decided(@, "REJECTED", NoOperator)]
    /\ dispute'   = [dispute EXCEPT ![d].version = @ + 1]
    /\ UNCHANGED <<link, usdtLeg, seats, deal, overdue, claim, confirmed, settling, ledgerVars>>

(* The value part of a ruling: the release goes to the seat that did not   *)
(* lock, the refund to the one that did.                                   *)
SettleAsRuled(d, disposition) ==
    IF disposition = "RELEASE"
    THEN ReleaseDealValue(d, Counterparty(d, lock[d].owner))
    ELSE RefundDealValue(d, lock[d].owner)

RulingPoint(disposition) ==
    IF disposition = "RELEASE" THEN "ESCROW_RELEASE" ELSE "ESCROW_REFUND"

(* A ruling that pays, and leaves the case open for the next one.          *)
MutApproveCaseOpen(d, i, o) ==
    /\ i \in LiveProposals(d)
    /\ proposals[d][i].by # o
    /\ CaseActive(d)
    /\ dispute[d].version = proposals[d][i].version + 1
    /\ Admitted(d, "DISPUTE_RESOLVE")
    /\ SettleAsRuled(d, proposals[d][i].disposition)
    /\ proposals' = [proposals EXCEPT ![d][i] = Decided(@, "APPROVED", o)]
    /\ dispute'   = [dispute EXCEPT ![d].version = @ + 1]
    /\ UNCHANGED <<link, usdtLeg, seats, deal, overdue, claim, confirmed, settling>>

(* approveResolution: a second operator, on the very version the proposal  *)
(* produced.  Value, proposal, case and deal move in one transaction; a    *)
(* gate that refuses, here or in settleLock, leaves at most a hold.        *)
ApproveResolution(d, i, o) ==
    /\ i \in LiveProposals(d)
    /\ proposals[d][i].by # o
    /\ CaseActive(d)
    /\ dispute[d].version = proposals[d][i].version + 1
    /\ LET ruling == proposals[d][i].disposition IN
       \/ /\ Admitted(d, "DISPUTE_RESOLVE")
          /\ SettleAsRuled(d, ruling)
          /\ proposals' = [proposals EXCEPT ![d] = [j \in DOMAIN proposals[d] |->
                IF j = i THEN Decided(proposals[d][j], "APPROVED", o)
                ELSE IF j \in LiveProposals(d)
                THEN Decided(proposals[d][j], "SUPERSEDED", NoOperator)
                ELSE proposals[d][j]]]
          /\ dispute' = [dispute EXCEPT ![d] = [state |-> "RESOLVED", version |-> @.version + 1]]
          /\ deal' = [deal EXCEPT ![d] = IF ruling = "RELEASE" THEN "COMPLETED" ELSE "CANCELLED"]
       \/ /\ \/ PlaceHold(d, "DISPUTE_RESOLVE")
             \/ /\ Admitted(d, "DISPUTE_RESOLVE")
                /\ lock[d].state = "LOCKED"
                /\ PlaceHold(d, RulingPoint(ruling))
          /\ UNCHANGED <<proposals, dispute, deal>>
    /\ UNCHANGED <<link, usdtLeg, seats, overdue, claim, confirmed, settling>>

-----------------------------------------------------------------------------
(* The value commands, which no screen calls.                              *)

(* lockValueCommand: a participant, whatever the state of the deal.        *)
LockValue(d, u, a) ==
    /\ "VALUE_LOCK" \in Exposed
    /\ u \in Participants(d)
    /\ deal[d] # "NONE"
    /\ \/ LockDealValue(d, u, a)
       \/ lock[d].state = "NONE" /\ PlaceHold(u, "VALUE_LOCK")
    /\ UNCHANGED dealVars

CommandOf(settlement) ==
    IF settlement = "RELEASED" THEN "VALUE_RELEASE" ELSE "VALUE_REFUND"

(* settleValueCommand up to assertNotFrozen, which reads the case without  *)
(* a lock.  Bound: one such command of a deal at a time.                   *)
StartSettleValue(d, settlement, b) ==
    /\ CommandOf(settlement) \in Exposed
    /\ deal[d] # "NONE"
    /\ ~CaseActive(d)
    /\ \A call \in settling : call.deal # d
    /\ settling' = settling \cup {[deal |-> d, settlement |-> settlement, beneficiary |-> b]}
    /\ UNCHANGED <<link, usdtLeg, seats, deal, overdue, claim, confirmed, dispute, proposals, ledgerVars>>

(* ... and from there: settled, put on hold, or refused and rolled back.   *)
FinishSettleValue(call) ==
    /\ call \in settling
    /\ settling' = settling \ {call}
    /\ \/ IF call.settlement = "RELEASED"
          THEN ReleaseDealValue(call.deal, call.beneficiary)
          ELSE RefundDealValue(call.deal, call.beneficiary)
       \/ /\ lock[call.deal].state = "LOCKED"
          /\ PlaceHold(call.deal, IF call.settlement = "RELEASED" THEN "ESCROW_RELEASE"
                                  ELSE "ESCROW_REFUND")
       \/ UNCHANGED ledgerVars
    /\ UNCHANGED <<link, usdtLeg, seats, deal, overdue, claim, confirmed, dispute, proposals>>

(* reverseLockCommand                                                      *)
ReverseValue(d) ==
    /\ "VALUE_REVERSE" \in Exposed
    /\ ReverseLock(d)
    /\ UNCHANGED dealVars

-----------------------------------------------------------------------------
LinkNext ==
    \E d \in Deals :
        \/ \E u \in Users, r \in Roles : CreateDealLink(d, u, r)
        \/ \E u \in Users : JoinDealLink(d, u)
        \/ CloseDealLink(d)
        \/ WindowPasses(d)

PaymentNext ==
    \E d \in Deals :
        \/ \E utr \in Utrs : SubmitPaymentClaim(d, utr)
        \/ ConfirmReceipt(d)
        \/ CancelDeal(d)
        \/ ExpireDealIfLapsed(d)

DisputeNext ==
    \E d \in Deals :
        \/ RaiseDispute(d)
        \/ OpenDisputeCase(d)
        \/ \E o \in Operators, disposition \in Dispositions : ProposeResolution(d, o, disposition)
        \/ \E i \in DOMAIN proposals[d] : RejectProposal(d, i)
        \/ \E i \in DOMAIN proposals[d], o \in Operators : ApproveResolution(d, i, o)

CommandNext ==
    \/ \E d \in Deals, u \in Users, a \in Amounts : LockValue(d, u, a)
    \/ \E d \in Deals, s \in Settlements, b \in Users : StartSettleValue(d, s, b)
    \/ \E call \in settling : FinishSettleValue(call)
    \/ \E d \in Deals : ReverseValue(d)

(* Funding, and the switches and holds operators turn.                     *)
SupportNext ==
    \/ \E u \in Users, a \in Amounts : FundSandboxBalance(u, a) /\ UNCHANGED dealVars
    \/ \E s \in Scopes : (Pause(s) \/ Resume(s)) /\ UNCHANGED dealVars
    \/ \E h \in holds : ReleaseHold(h) /\ UNCHANGED dealVars

DealNext == LinkNext \/ PaymentNext \/ DisputeNext \/ CommandNext \/ SupportNext

DealSpec == DealInit /\ [][DealNext]_dealSafeVars

-----------------------------------------------------------------------------
(* What the tables force of one deal: no deal without a consumed link, one *)
(* person on an open link, and on a joined deal two different ones.        *)
RowsAgree(d) ==
    /\ deal[d] # "NONE" <=> link[d] = "CONSUMED"
    /\ link[d] = "NONE" => seats[d] = EmptySeats
    /\ link[d] = "OPEN" =>
          \E r \in Roles : seats[d][r] \in Users /\ seats[d][OtherRole(r)] = NoUser
    /\ deal[d] # "NONE" => /\ CryptoSide(d) \in Users
                           /\ FiatSide(d) \in Users
                           /\ CryptoSide(d) # FiatSide(d)

(* The types of the deal tables, and that their rows agree.                *)
DealTypeOK ==
    /\ link \in [Deals -> LinkStates]
    /\ usdtLeg \subseteq Deals
    /\ seats \in [Deals -> [Roles -> Users \cup {NoUser}]]
    /\ deal \in [Deals -> DealStates]
    /\ overdue \subseteq Deals
    /\ claim \in [Deals -> Utrs \cup {NoUtr}]
    /\ confirmed \subseteq Deals
    /\ dispute \in [Deals -> [state : CaseStates, version : Nat]]
    /\ proposals \in [Deals -> Seq(Proposals)]
    /\ settling \subseteq [deal : Deals, settlement : Settlements, beneficiary : Users]
    /\ \A d \in Deals : RowsAgree(d)

(* A case is open exactly while its deal is DISPUTED.  Two tables written  *)
(* by different statements of different commands agree; a claim, a         *)
(* confirmation, a cancellation, the expiry sweep and the unguarded UPDATE *)
(* of a ruling would each tear them apart if it ignored the other.         *)
CaseFreezesDeal == \A d \in Deals : CaseActive(d) <=> deal[d] = "DISPUTED"

Approved(d) == {i \in DOMAIN proposals[d] : proposals[d][i].state = "APPROVED"}

RuledTo(d, disposition) ==
    IF disposition = "RELEASE"
    THEN /\ deal[d] = "COMPLETED"
         /\ lock[d].state = "RELEASED"
         /\ lock[d].beneficiary = Counterparty(d, lock[d].owner)
    ELSE /\ deal[d] = "CANCELLED"
         /\ lock[d].state = "REFUNDED"
         /\ lock[d].beneficiary = lock[d].owner

(* A resolved case was resolved by exactly one proposal that a second      *)
(* operator approved, and the deal, the lock and the person paid say what  *)
(* that proposal said, from then on.                                       *)
RulingCarriedOut ==
    \A d \in Deals :
        /\ dispute[d].state = "RESOLVED" <=> Approved(d) # {}
        /\ \A i, j \in Approved(d) : i = j
        /\ \A i \in Approved(d) :
              /\ proposals[d][i].approver \in Operators \ {proposals[d][i].by}
              /\ RuledTo(d, proposals[d][i].disposition)

(* A live proposal is never stale: its case is active and still on the     *)
(* version the proposal produced, so approveResolution never strands it    *)
(* with PROPOSAL_STALE while PROPOSAL_EXISTS keeps any other one out.      *)
LiveProposalIsCurrent ==
    \A d \in Deals : \A i \in LiveProposals(d) :
        /\ CaseActive(d)
        /\ dispute[d].version = proposals[d][i].version + 1
        /\ LiveProposals(d) = {i}

(* A deal that has been completed or cancelled stays so: no late claim,    *)
(* dispute, ruling, sweep or value command moves it or its records again.  *)
TerminalIsFinal ==
    [][\A d \in Deals : deal[d] \in {"COMPLETED", "CANCELLED"} =>
          /\ deal'[d] = deal[d]
          /\ dispute'[d] = dispute[d]
          /\ claim'[d] = claim[d]
          /\ (d \in confirmed') = (d \in confirmed)]_dealSafeVars

(* A join is whole or nothing.  From the screens, a deal with a USDT leg   *)
(* has a lock over its full amount, taken from its crypto side, as soon as *)
(* it exists; and there is no lock without its deal, whatever was refused. *)
JoinIsWhole ==
    \A d \in Deals :
        /\ lock[d].state # "NONE" <=> deal[d] # "NONE" /\ d \in usdtLeg
        /\ lock[d].state # "NONE" => /\ lock[d].owner = CryptoSide(d)
                                     /\ lock[d].amount = DealAmount[d]

(* From the screens, the USDT of a deal leaves escrow for the fiat side    *)
(* only if that side claimed a transfer no other deal claims and the       *)
(* crypto side confirmed it, or two operators ruled so; and back to the    *)
(* crypto side only if two operators ruled so.                             *)
PaidOnlyOnAgreementOrRuling ==
    \A d \in Deals :
        LET ruled(disposition) ==
                \E i \in Approved(d) : /\ proposals[d][i].disposition = disposition
                                       /\ proposals[d][i].approver # proposals[d][i].by
            agreed == /\ d \in confirmed
                      /\ claim[d] # NoUtr
                      /\ \A e \in Deals \ {d} : claim[e] # claim[d]
        IN  /\ lock[d].state = "RELEASED" =>
                  /\ lock[d].beneficiary = FiatSide(d)
                  /\ agreed \/ ruled("RELEASE")
            /\ lock[d].state = "REFUNDED" =>
                  /\ lock[d].beneficiary = CryptoSide(d)
                  /\ ruled("REFUND")

(* While a case stays open, the value and the state of its deal stay put.  *)
(* The comment on assertNotFrozen promises it of every release, refund,    *)
(* completion and cancellation path.                                       *)
FrozenMeansFrozen ==
    [][\A d \in Deals : CaseActive(d) /\ CaseActive(d)' =>
          lock'[d] = lock[d] /\ deal'[d] = deal[d]]_dealSafeVars

(* A completed deal with a USDT leg has paid its fiat side: confirmReceipt *)
(* says of itself that a refused release stops the completion.             *)
CompletionPaysCounterparty ==
    \A d \in usdtLeg : deal[d] = "COMPLETED" =>
        lock[d].state = "RELEASED" /\ lock[d].beneficiary = FiatSide(d)

(* From the screens, an open case over a USDT leg can be resolved: both    *)
(* dispositions need a live lock, and openCase says it refuses a case that *)
(* could never be resolved.  (On an INR_TO_INR deal there never is a lock, *)
(* so its case stays open for good.)                                       *)
DisputeIsResolvable ==
    \A d \in usdtLeg : CaseActive(d) => lock[d].state = "LOCKED"

(* A cancelled deal holds no one's value: TS-01.4 has the cancellation     *)
(* post the escrow back to the balance it came from.                       *)
CancelledHoldsNothing == \A d \in Deals : deal[d] = "CANCELLED" => escrow[d] = 0

(* A lapsed deal can be reported: the help page sends a payer whose money  *)
(* left after the window closed to "report a problem".                     *)
LapsedDealCanBeReported == \A d \in Deals : deal[d] = "EXPIRED" => ENABLED RaiseDispute(d)
=============================================================================
