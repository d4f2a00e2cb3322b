----------------------------- MODULE ValueLedger -----------------------------
(***************************************************************************)
(* The money side of a deal: party balances, one escrow account per deal,  *)
(* the value_lock row that indexes the escrow, the fee a release collects, *)
(* the deposits a payment rail credits to an escrow, and the risk switches *)
(* and holds every settlement has to pass.                                 *)
(*                                                                         *)
(* One asset is modelled (USDT, the only one the platform has in custody). *)
(* Each action is one committed database transaction: every function of    *)
(* server/ledger/valueProtection.ts locks the value_lock row and post_entry*)
(* locks the accounts it moves before it reads or writes them.  The one    *)
(* read that takes no lock is before ReverseDeposit.  A refused call that  *)
(* changes nothing is no action.                                           *)
(***************************************************************************)
EXTENDS Integers, FiniteSets, Functions

CONSTANTS
    Users,       \* people with a party balance
    Deals,       \* deal identifiers
    Amounts,     \* the amounts, in minor units, a caller may name
    Fee,         \* Fee[d]: the fee in the snapshot of the quote of deal d
    MaxFunding,  \* bound: what the sandbox funding source ever credits
    MaxDeposit,  \* bound: the unreversed deposits of one deal
    Scopes,      \* the control switches an operator may flip in this instance
    Verdicts,    \* Verdicts[p]: what the active risk policy of point p may decide
    NoUser

Points == {"VALUE_LOCK", "ESCROW_RELEASE", "ESCROW_REFUND", "DISPUTE_RESOLVE"}

ASSUME LedgerAssumption ==
    /\ Amounts \subseteq Nat \ {0}
    /\ Fee \in [Deals -> Nat]
    /\ MaxFunding \in Nat
    /\ MaxDeposit \in Nat
    /\ Scopes \subseteq {"CORRIDOR", "SETTLEMENT"}
    /\ Verdicts \in [Points -> SUBSET {"ALLOW", "HOLD", "REJECT"}]
    /\ NoUser \notin Users

(* However many people and deals there are, they are rows of a table.      *)
ASSUME RowsAreFinite == IsFiniteSet(Users) /\ IsFiniteSet(Deals)

VARIABLES
    balance,   \* balance[u]: the party balance account of u
    escrow,    \* escrow[d]: the escrow account of deal d
    deposit,   \* deposit[d]: the confirmed rail deposits for d not reversed
    lock,      \* lock[d]: the value_lock row of d
    revenue,   \* the fee_revenue account
    funded,    \* what the sandbox funding source has credited
    wallet,    \* what the custody deposit wallet has been debited
    paused,    \* control_switch: the scopes that are paused
    holds      \* risk_hold: the active holds, each a <<subject, point>>

accountVars == <<balance, escrow, deposit, lock, revenue, funded, wallet>>
controlVars == <<paused, holds>>
ledgerVars  == <<balance, escrow, deposit, lock, revenue, funded, wallet, paused, holds>>

LockStates    == {"NONE", "LOCKED", "RELEASED", "REFUNDED", "REVERSED"}
Settlements   == {"RELEASED", "REFUNDED"}

(* beneficiary stands for the account the settle entry credits.            *)
LockRows == [state : LockStates, owner : Users \cup {NoUser}, amount : Nat,
             beneficiary : Users \cup {NoUser}]
NoLock   == [state |-> "NONE", owner |-> NoUser, amount |-> 0, beneficiary |-> NoUser]

LockedAmount(d) == IF lock[d].state = "LOCKED" THEN lock[d].amount ELSE 0

LedgerInit ==
    /\ balance = [u \in Users |-> 0]
    /\ escrow  = [d \in Deals |-> 0]
    /\ deposit = [d \in Deals |-> 0]
    /\ lock    = [d \in Deals |-> NoLock]
    /\ revenue = 0
    /\ funded  = 0
    /\ wallet  = 0
    /\ paused  = {}
    /\ holds   = {}

-----------------------------------------------------------------------------
(* Risk controls: enforce() of server/risk/engine.ts.                      *)

(* A paused CORRIDOR switch without a target stops every point, SETTLEMENT *)
(* stops the points that move escrowed value.                              *)
PointScopes(point) ==
    IF point = "VALUE_LOCK" THEN {"CORRIDOR"} ELSE {"CORRIDOR", "SETTLEMENT"}

(* No switch and no hold stops this subject, so the policy is evaluated.   *)
Evaluated(subject, point) ==
    /\ paused \cap PointScopes(point) = {}
    /\ <<subject, point>> \notin holds

Admitted(subject, point) == Evaluated(subject, point) /\ "ALLOW" \in Verdicts[point]

(* A HOLD decision writes a hold, and because its caller returns the       *)
(* refusal instead of throwing, the hold commits with it.                  *)
PlaceHold(subject, point) ==
    /\ Evaluated(subject, point)
    /\ "HOLD" \in Verdicts[point]
    /\ holds' = holds \cup {<<subject, point>>}
    /\ UNCHANGED <<accountVars, paused>>

(* What a refusal leaves behind: nothing after a pause, a standing hold or *)
(* a REJECT, a hold after the first HOLD.                                  *)
Refused(subject, point) ==
    \/ /\ ~Evaluated(subject, point) \/ "REJECT" \in Verdicts[point]
       /\ UNCHANGED ledgerVars
    \/ PlaceHold(subject, point)

(* Who a point is asked about.  The escrow points are asked once the row   *)
(* is known to be LOCKED.                                                  *)
Subjects(point) ==
    IF point = "VALUE_LOCK" THEN Users
    ELSE IF point = "DISPUTE_RESOLVE" THEN Deals
    ELSE {d \in Deals : lock[d].state = "LOCKED"}

(* pause: one operator stops a scope at once.                              *)
Pause(scope) ==
    /\ scope \in Scopes \ paused
    /\ paused' = paused \cup {scope}
    /\ UNCHANGED <<accountVars, holds>>

(* resume and releaseHold: an operator carries out what another approved.  *)
Resume(scope) ==
    /\ scope \in paused
    /\ paused' = paused \ {scope}
    /\ UNCHANGED <<accountVars, holds>>

ReleaseHold(hold) ==
    /\ hold \in holds
    /\ holds' = holds \ {hold}
    /\ UNCHANGED <<accountVars, paused>>

-----------------------------------------------------------------------------
(* Value protection.                                                       *)

(* fundSandboxBalance: JD-SBX-FUND, the only way in for a party balance.   *)
FundSandboxBalance(u, a) ==
    /\ funded + a <= MaxFunding
    /\ balance' = [balance EXCEPT ![u] = @ + a]
    /\ funded'  = funded + a
    /\ UNCHANGED <<escrow, deposit, lock, revenue, wallet, controlVars>>

(* lockDealValue without its look at the available balance.                *)
MutLockOverdrawn(d, u, a) ==
    /\ lock[d].state = "NONE"
    /\ Admitted(u, "VALUE_LOCK")
    /\ balance' = [balance EXCEPT ![u] = @ - a]
    /\ escrow'  = [escrow EXCEPT ![d] = @ + a]
    /\ lock'    = [lock EXCEPT ![d] = [state |-> "LOCKED", owner |-> u, amount |-> a,
                                       beneficiary |-> NoUser]]
    /\ UNCHANGED <<deposit, revenue, funded, wallet, controlVars>>

(* lockDealValue: the first lock of a deal.  A second call finds the row   *)
(* and replays or is refused, whatever state the row is in.                *)
LockDealValue(d, u, a) ==
    /\ lock[d].state = "NONE"
    /\ Admitted(u, "VALUE_LOCK")
    /\ a <= balance[u]
    /\ balance' = [balance EXCEPT ![u] = @ - a]
    /\ escrow'  = [escrow EXCEPT ![d] = @ + a]
    /\ lock'    = [lock EXCEPT ![d] = [state |-> "LOCKED", owner |-> u, amount |-> a,
                                       beneficiary |-> NoUser]]
    /\ UNCHANGED <<deposit, revenue, funded, wallet, controlVars>>

(* Two ways settleLock could go wrong: the fee withheld from the           *)
(* beneficiary never leaves the escrow, and the CAS on LOCKED is missing.  *)
MutSettleFeeStays(d, b, settlement, point, fee) ==
    /\ lock[d].state = "LOCKED"
    /\ Admitted(d, point)
    /\ fee <= balance[b] + lock[d].amount
    /\ balance' = [balance EXCEPT ![b] = @ + lock[d].amount - fee]
    /\ escrow'  = [escrow EXCEPT ![d] = @ - lock[d].amount + fee]
    /\ lock'    = [lock EXCEPT ![d].state = settlement, ![d].beneficiary = b]
    /\ UNCHANGED <<deposit, revenue, funded, wallet, controlVars>>

MutSettleNoCas(d, b, settlement, point, fee) ==
    /\ lock[d].state # "NONE"
    /\ Admitted(d, point)
    /\ lock[d].amount <= escrow[d]
    /\ balance' = [balance EXCEPT ![b] = @ + lock[d].amount]
    /\ escrow'  = [escrow EXCEPT ![d] = @ - lock[d].amount]
    /\ lock'    = [lock EXCEPT ![d].state = settlement, ![d].beneficiary = b]
    /\ UNCHANGED <<deposit, revenue, funded, wallet, controlVars>>

(* settleLock: escrow to beneficiary, and the CAS on the row.  The fee of  *)
(* a release is taken from the beneficiary in the same transaction; if the *)
(* balance cannot bear it the check on account_balance aborts everything.  *)
SettleLock(d, b, settlement, point, fee) ==
    /\ lock[d].state = "LOCKED"
    /\ Admitted(d, point)
    /\ fee <= balance[b] + lock[d].amount
    /\ balance' = [balance EXCEPT ![b] = @ + lock[d].amount - fee]
    /\ escrow'  = [escrow EXCEPT ![d] = @ - lock[d].amount]
    /\ lock'    = [lock EXCEPT ![d].state = settlement, ![d].beneficiary = b]
    /\ revenue' = revenue + fee
    /\ UNCHANGED <<deposit, funded, wallet, controlVars>>

(* collectFee: the fee of the snapshot, or none where there is no snapshot *)
(* or the fee is in rupees.                                                *)
CollectedFee(d) == {0, Fee[d]}

ReleaseDealValue(d, b) ==
    \E fee \in CollectedFee(d) : SettleLock(d, b, "RELEASED", "ESCROW_RELEASE", fee)

RefundDealValue(d, b) == SettleLock(d, b, "REFUNDED", "ESCROW_REFUND", 0)

(* reverseLock: an operator undoes the lock entry.  No gate is asked.      *)
ReverseLock(d) ==
    /\ lock[d].state = "LOCKED"
    /\ balance' = [balance EXCEPT ![lock[d].owner] = @ + lock[d].amount]
    /\ escrow'  = [escrow EXCEPT ![d] = @ - lock[d].amount]
    /\ lock'    = [lock EXCEPT ![d].state = "REVERSED"]
    /\ UNCHANGED <<deposit, revenue, funded, wallet, controlVars>>

-----------------------------------------------------------------------------
(* Deposits a rail confirms (server/rails/observations.ts).  The ledger    *)
(* knows their sum; which payments make it up is PaymentRails' business,   *)
(* and so is which of them a reversal takes back.                          *)

(* postConfirmedValue: JD-DEP-CONFIRM, whatever the state of the lock.     *)
PostConfirmedValue(d, a) ==
    /\ deposit[d] + a <= MaxDeposit
    /\ deposit' = [deposit EXCEPT ![d] = @ + a]
    /\ escrow'  = [escrow EXCEPT ![d] = @ + a]
    /\ wallet'  = wallet + a
    /\ UNCHANGED <<balance, lock, revenue, funded, controlVars>>

(* A reversal that debits the escrow and forgets the wallet leg.           *)
MutReverseOneLeg(d, a) ==
    /\ a <= deposit[d]
    /\ lock[d].state # "NONE"
    /\ deposit' = [deposit EXCEPT ![d] = @ - a]
    /\ escrow'  = [escrow EXCEPT ![d] = @ - a]
    /\ UNCHANGED <<balance, lock, revenue, funded, wallet, controlVars>>

(* A REORGED event takes a deposit back if it has read the lock LOCKED.    *)
(* valueStillDisposable reads the row without locking it, so a settlement  *)
(* may have committed by the time reverse_entry posts.                     *)
ReverseDeposit(d, a) ==
    /\ a <= deposit[d]
    /\ lock[d].state # "NONE"
    /\ deposit' = [deposit EXCEPT ![d] = @ - a]
    /\ escrow'  = [escrow EXCEPT ![d] = @ - a]
    /\ wallet'  = wallet - a
    /\ UNCHANGED <<balance, lock, revenue, funded, controlVars>>

-----------------------------------------------------------------------------
ControlNext ==
    \/ \E s \in Scopes : Pause(s) \/ Resume(s)
    \/ \E p \in Points : \E s \in Subjects(p) : PlaceHold(s, p)
    \/ \E h \in holds : ReleaseHold(h)

ValueNext ==
    \/ \E u \in Users, a \in Amounts : FundSandboxBalance(u, a)
    \/ \E d \in Deals, u \in Users, a \in Amounts : LockDealValue(d, u, a)
    \/ \E d \in Deals, b \in Users : ReleaseDealValue(d, b) \/ RefundDealValue(d, b)
    \/ \E d \in Deals : ReverseLock(d)
    \/ \E d \in Deals, a \in Amounts : PostConfirmedValue(d, a) \/ ReverseDeposit(d, a)

LedgerNext == ControlNext \/ ValueNext

LedgerSpec == LedgerInit /\ [][LedgerNext]_ledgerVars

-----------------------------------------------------------------------------
(* Types: the row formats, and the check account_balance_credit_normal_not_*)
(* debit, which no legal sequence of calls ever trips.                     *)
LedgerTypeOK ==
    /\ balance \in [Users -> Nat]
    /\ escrow  \in [Deals -> Nat]
    /\ deposit \in [Deals -> Nat]
    /\ lock    \in [Deals -> LockRows]
    /\ \A d \in Deals : lock[d].state # "NONE" => lock[d].owner \in Users
    /\ revenue \in Nat
    /\ funded  \in Nat
    /\ wallet  \in Int
    /\ paused  \subseteq Scopes
    /\ holds   \subseteq (Users \cup Deals) \X Points

(* The escrow account of a deal holds the value its live lock names and    *)
(* its unreversed deposits, and nothing else.  The row and the account are  *)
(* written by different statements (the INSERT or CAS on value_lock and    *)
(* post_entry), and a settlement pays out of the account the amount the    *)
(* row names.                                                              *)
EscrowBacksLock ==
    \A d \in Deals : escrow[d] = LockedAmount(d) + deposit[d]

(* Value is neither made nor lost: what sits in balances, escrows and fee  *)
(* revenue is what the funding source and the custody wallet brought in,   *)
(* over every action, fee and reversal included (trg_entry_balanced).      *)
Conservation == SumFunction(balance) + SumFunction(escrow) + revenue = funded + wallet

LockKept(d) ==
    /\ lock[d].state \notin {"NONE", "LOCKED"} => lock'[d] = lock[d]
    /\ lock[d].state = "LOCKED" =>
          /\ lock'[d].state # "NONE"
          /\ lock'[d].owner = lock[d].owner
          /\ lock'[d].amount = lock[d].amount

(* A lock is taken once and ends once.  Whatever calls race on a deal, its *)
(* row leaves LOCKED only for one final state, keeps the owner and amount  *)
(* it was taken with, and pays nobody after that.                          *)
LockEndsOnce == [][\A d \in Deals : LockKept(d)]_ledgerVars

-----------------------------------------------------------------------------
(* The ledger keeps the promise of EscrowPromise.  What it calls held is   *)
(* read off the escrow account, not off the row: the balance less the      *)
(* deposits.                                                               *)
StageOf(d) ==
    CASE lock[d].state = "NONE"   -> "open"
      [] lock[d].state = "LOCKED" -> "held"
      [] OTHER                    -> "ended"

PartyOf(d) ==
    IF lock[d].state \in Settlements THEN lock[d].beneficiary ELSE lock[d].owner

Promise == INSTANCE EscrowPromise WITH
    stage <- [d \in Deals |-> StageOf(d)],
    held  <- [d \in Deals |-> escrow[d] - deposit[d]],
    party <- [d \in Deals |-> PartyOf(d)]

(* Every behaviour of the ledger is one of the promise: no interleaving of *)
(* locks, settlements, reversals and deposits takes the value of a deal    *)
(* twice, sends part of it, or sends it to two people.                     *)
PromiseKept == Promise!Spec
=============================================================================
