------------------------------ MODULE RowLocks ------------------------------
(* The row locks that the transactions on value take one after the other    *)
(* and keep until they commit: deal, case, payment intent, value_lock,      *)
(* limit counter and referral rows, and the account balances of the ledger. *)
(* What they write is ValueLedger and DealSafe; here only who waits for whom. *)
EXTENDS Naturals, Sequences, FiniteSets

CONSTANTS Transactions,
          Trades,      \* deals
          Supplier,    \* Supplier[d]: the crypto side, whose USDT is locked
          Payee,       \* Payee[d]: the fiat side, who is paid on release
          Ranks,       \* the orders the random account ids may come in
          Charged,     \* deals whose fee is in USDT and not zero
          NotBegun     \* a transaction that has not begun

VARIABLES rank,        \* the order of the account ids
          run,         \* of each transaction: kind, trade, how many locks it has
          referred,    \* people whose referral row is not qualified yet
          escrowed,    \* value_lock.state of each trade: none, live or settled
          stage        \* deal.state of each trade, reduced to what locks depend on

rowVars == <<rank, run, referred, escrowed, stage>>

Parties == {Supplier[d] : d \in Trades} \cup {Payee[d] : d \in Trades}
Party(u)  == <<"party", u>>
Escrow(d) == <<"escrow", d>>
Revenue == <<"revenue", "platform">>
Wallet  == <<"wallet", "custody">>
Expense == <<"expense", "platform">>
Accounts == {Party(u) : u \in Parties} \cup {Escrow(d) : d \in Trades}
            \cup {Revenue, Wallet, Expense}

(* Account ids differ, and nobody trades with himself.                      *)
ASSUME RowAssumption ==
  /\ IsFiniteSet(Transactions)
  /\ \A r \in Ranks : /\ r \in [Accounts -> Nat]
                      /\ \A a, b \in Accounts : r[a] = r[b] => a = b
  /\ \A d \in Trades : Supplier[d] # Payee[d]

(* PostgreSQL's row lock modes.  "make" is ensure_accounts' insert of the   *)
(* escrow account of a deal, which waits for whoever is inserting it too.   *)
(* The accounts of the parties and of the platform are there.               *)
ClashingModes == {{"update"}, {"noKey"}, {"update", "noKey"}, {"update", "share"},
                  {"update", "key"}, {"noKey", "share"}, {"make"}}
Want(mode, row) == [mode |-> mode, row |-> row]

-----------------------------------------------------------------------------
(* post_entry: the balances in ascending order of the account ids.          *)
Post(a, b) ==
  IF rank[a] < rank[b] THEN <<Want("update", a), Want("update", b)>>
  ELSE <<Want("update", b), Want("update", a)>>

LockRow(d) == Want("update", <<"lock", d>>)
DealRow(d) == Want("update", <<"deal", d>>)

(* lockDealValue: the counters of the owner's limits, both accounts, the    *)
(* owner's balance to see that it suffices, the entry, and the new row.     *)
Locking(d) ==
  LET owner == Party(Supplier[d]) IN
  <<Want("update", <<"counter", Supplier[d]>>)>>
    \o <<Want("make", Escrow(d)), Want("update", owner)>>
    \o Post(owner, Escrow(d)) \o <<LockRow(d)>>

(* A new row that refers to the deal: its foreign key locks the deal row.   *)
Refer(d) == Want("key", <<"deal", d>>)

(* collectFee: its row, and the posting if there is something to take.      *)
Collecting(d) ==
  <<Refer(d)>> \o (IF d \in Charged THEN Post(Party(Payee[d]), Revenue) ELSE <<>>)

(* settleLock with the lock row taken only when it is about to be written.  *)
MutSettlingLockLast(d, u) == Post(Escrow(d), Party(u)) \o <<LockRow(d)>>

(* settleLock.                                                              *)
Settling(d, u) == <<LockRow(d)>> \o Post(Escrow(d), Party(u))

Referral(u) == Want("noKey", <<"referral", u>>)

Releasing(d) == Settling(d, Payee[d]) \o Collecting(d)

(* Every lock that a transaction of this kind asks for, in order.  CONFIRM  *)
(* is confirmReceiptIn, RULE approveResolution with a release (a refund asks *)
(* for fewer), DEPOSIT a provider event that posts or, reorganised, reverses. *)
Script(kind, d) ==
  CASE kind = "FUND"        -> Post(Expense, Party(Supplier[d]))
    [] kind = "LOCK"        -> Locking(d)
    [] kind = "CLAIM"       -> <<DealRow(d), Want("update", <<"utr", "any">>)>>
    [] kind = "CONFIRM"     -> <<DealRow(d)>> \o Releasing(d)
                               \o <<Referral(Supplier[d]), Referral(Payee[d])>>
    [] kind = "RELEASE"     -> Releasing(d)
    [] kind = "REFUND"      -> Settling(d, Supplier[d])
    [] kind = "REVERSE"     -> <<LockRow(d)>> \o Post(Party(Supplier[d]), Escrow(d))
    [] kind = "OPEN_CASE"   -> <<DealRow(d)>>
    [] kind = "RULE"        -> <<Want("update", <<"case", d>>)>> \o Releasing(d)
                               \o <<Want("noKey", <<"deal", d>>)>>
    [] kind = "OPEN_INTENT" -> <<DealRow(d), Want("share", <<"lock", d>>)>>
    [] kind = "INSTRUCT"    -> <<Want("update", <<"intent", d>>), Want("share", <<"lock", d>>),
                                 Refer(d)>>
    [] kind = "DEPOSIT"     -> <<Want("update", <<"intent", d>>), Refer(d)>>
                               \o Post(Wallet, Escrow(d))
Kinds == {"FUND", "LOCK", "CLAIM", "CONFIRM", "RELEASE", "REFUND", "REVERSE", "OPEN_CASE",
          "RULE", "OPEN_INTENT", "INSTRUCT", "DEPOSIT"}
LockEnders == {"CONFIRM", "RELEASE", "REFUND", "REVERSE", "RULE"}

-----------------------------------------------------------------------------
RowInit ==
  /\ rank \in Ranks
  /\ run = [t \in Transactions |-> NotBegun]
  /\ referred = Parties
  /\ escrowed = [d \in Trades |-> "none"]
  /\ stage = [d \in Trades |-> "pending"]

(* The row a request is for, found as it is under the lock, lets the        *)
(* transaction go on.                                                       *)
Passes(kind, d, row) ==
  /\ row = <<"lock", d>> /\ kind \in LockEnders \cup {"INSTRUCT"} => escrowed[d] = "live"
  /\ row = <<"lock", d>> /\ kind = "LOCK" => escrowed[d] = "none"
  /\ row = <<"deal", d>> =>
       /\ kind = "CLAIM" => stage[d] = "pending"
       /\ kind = "CONFIRM" => stage[d] = "claimed"
       /\ kind = "OPEN_CASE" => stage[d] \in {"pending", "claimed"}
       /\ kind = "OPEN_INTENT" => stage[d] # "closed"
  /\ row = <<"case", d>> => stage[d] = "disputed"

(* What is known before the first lock: a deal that is locked by its join   *)
(* is new, and a provider only reports transfers it was asked for.          *)
MayBegin(kind, d) ==
  /\ kind = "LOCK" => escrowed[d] = "none"
  /\ kind = "DEPOSIT" => escrowed[d] # "none"

Begin(t, kind, d) ==
  /\ run[t] = NotBegun
  /\ MayBegin(kind, d)
  /\ run' = [run EXCEPT ![t] = [kind |-> kind, trade |-> d, has |-> 0]]
  /\ UNCHANGED <<rank, referred, escrowed, stage>>

Clash(m, n) == {m, n} \in ClashingModes

Locks(t) == Script(run[t].kind, run[t].trade)
Waits(t) == run[t] # NotBegun /\ run[t].has < Len(Locks(t))
Wanted(t) == Locks(t)[run[t].has + 1]
Owned(t) == IF run[t] = NotBegun THEN {} ELSE {Locks(t)[i] : i \in 1..run[t].has}

(* s keeps t from getting its next lock.  The UPDATE of a referral that is  *)
(* qualified finds no row to lock.                                          *)
Blocks(s, t) ==
  /\ s # t
  /\ Waits(t)
  /\ \E l \in Owned(s) :
       /\ l.row = Wanted(t).row
       /\ Clash(l.mode, Wanted(t).mode)
       /\ \A u \in Parties : l.row = <<"referral", u>> => u \in referred

Acquire(t) ==
  /\ Waits(t)
  /\ ~\E s \in Transactions : Blocks(s, t)
  /\ Passes(run[t].kind, run[t].trade, Wanted(t).row)
  /\ run' = [run EXCEPT ![t].has = @ + 1]
  /\ UNCHANGED <<rank, referred, escrowed, stage>>

(* Refused at any check, timed out, or picked by PostgreSQL to break a      *)
(* circle: nothing of it stays.                                             *)
Abort(t) ==
  /\ run[t] # NotBegun
  /\ run' = [run EXCEPT ![t] = NotBegun]
  /\ UNCHANGED <<rank, referred, escrowed, stage>>

Commit(t) ==
  /\ run[t] # NotBegun /\ ~Waits(t)
  /\ LET kind == run[t].kind
         d    == run[t].trade
     IN
     /\ referred' = IF kind = "CONFIRM" THEN referred \ {Supplier[d], Payee[d]} ELSE referred
     /\ escrowed' = [escrowed EXCEPT ![d] = IF kind = "LOCK" THEN "live"
                                            ELSE IF kind \in LockEnders THEN "settled" ELSE @]
     /\ stage' = [stage EXCEPT ![d] = IF kind = "CLAIM" THEN "claimed"
                                      ELSE IF kind = "OPEN_CASE" THEN "disputed"
                                      ELSE IF kind \in {"CONFIRM", "RULE"} THEN "closed" ELSE @]
  /\ run' = [run EXCEPT ![t] = NotBegun]
  /\ UNCHANGED rank

RowNext ==
  \E t \in Transactions :
    \/ \E kind \in Kinds, d \in Trades : Begin(t, kind, d)
    \/ Acquire(t)
    \/ Commit(t)
    \/ Abort(t)

RowSpec == RowInit /\ [][RowNext]_rowVars

-----------------------------------------------------------------------------
(* Types of the transactions and what they wait for.                        *)
RowTypeOK ==
  /\ rank \in Ranks
  /\ \A t \in Transactions :
       run[t] # NotBegun => run[t].kind \in Kinds /\ run[t].trade \in Trades /\ run[t].has \in 0..Len(Locks(t))
  /\ referred \subseteq Parties
  /\ escrowed \in [Trades -> {"none", "live", "settled"}]
  /\ stage \in [Trades -> {"pending", "claimed", "disputed", "closed"}]

(* All of C wait, and only for one another.                                 *)
Circle(C) == C # {} /\ \A t \in C : \E s \in C : Blocks(s, t)

(* A second lockDealValue of a deal, which found no row before the first    *)
(* one committed and is bound to fail: it takes the owner's balance before  *)
(* post_entry sorts.                                                        *)
LateLock(t) == run[t].kind = "LOCK" /\ escrowed[run[t].trade] # "none"

(* One has the deal row and waits for the value_lock row (confirmReceipt,   *)
(* openIntent), the other took the lock first and meets the deal through a  *)
(* foreign key or its last UPDATE (releaseValueCommand, approveResolution,  *)
(* issueInstruction).  A confirmation and a ruling exclude each other.      *)
DealAgainstLock(s, t) ==
  /\ Blocks(s, t) /\ Blocks(t, s)
  /\ <<run[s].kind, run[t].kind>> \in
       ({"CONFIRM", "OPEN_INTENT"} \X {"RELEASE", "RULE", "INSTRUCT"})
         \ {<<"CONFIRM", "RULE">>, <<"OPEN_INTENT", "INSTRUCT">>}
  /\ Wanted(s).row = <<"lock", run[t].trade>>
  /\ Wanted(t).row = <<"deal", run[s].trade>>

(* Confirmations of different deals qualify the same two people's referrals *)
(* in opposite order.                                                       *)
ReferralsCrossed(s, t) ==
  /\ run[s].kind = "CONFIRM" /\ run[t].kind = "CONFIRM"
  /\ \E u, v \in Parties :
       u # v /\ Wanted(s) = Referral(u) /\ Wanted(t) = Referral(v)

(* Transactions on value wait for one another in a circle in these three    *)
(* ways only.  Accounts alone make no circle, although a release moves      *)
(* value twice.                                                             *)
CirclesAreKnown ==
  \A C \in SUBSET Transactions : Circle(C) =>
    \/ \E t \in C : LateLock(t)
    \/ \E s, t \in C : DealAgainstLock(s, t) \/ ReferralsCrossed(s, t)
=============================================================================
