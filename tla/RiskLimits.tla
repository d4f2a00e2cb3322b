----------------------------- MODULE RiskLimits -----------------------------
(* The windowed limits of one person and the two commands that consume      *)
(* them: locking value, against two volume limits, and the evaluation of a  *)
(* deal for a reward, against the reward velocity.  A command reads its     *)
(* clock and its signals when it begins; from its first consumption to its  *)
(* commit it holds the row lock of the counter, so that part is one step.   *)
EXTENDS Integers, FiniteSets

CONSTANTS RewardDeals,  \* deals of one campaign that may earn a reward
          Workers,      \* transactions in progress
          Volumes,      \* amounts a lock asks for
          MaxCount,     \* reward.velocity, and the threshold of its signal
          PerTxn, Daily,\* deal.value.per_txn and deal.value.daily
          Day,          \* length of a window, in ticks of the clock
          LastTick,     \* bound on the clock
          Idle

ASSUME LimitAssumption ==
  /\ Volumes \subseteq Nat \ {0}
  /\ {MaxCount, PerTxn, Daily, LastTick} \subseteq Nat
  /\ Day \in Nat \ {0}
  /\ IsFiniteSet(RewardDeals)

VARIABLES clock,     \* now(), in ticks
          work,      \* what each transaction read when it began
          counter,   \* risk_counter: limit and window -> total
          consumed,  \* risk_consumption by reward key: window, or never
          undone,    \* reward keys that have a correcting row
          grant,     \* reward_grant by source deal: when, or never
          locked     \* value locked per window

limitVars == <<clock, work, counter, consumed, undone, grant, locked>>

Never == -1
Windows == 0..(LastTick \div Day)
Window(t) == t \div Day
Limits == {"reward", "perTxn", "daily"}
MaxOf == [reward |-> MaxCount, perTxn |-> PerTxn, daily |-> Daily]

Granted == {d \in RewardDeals : grant[d] # Never}

LimitInit ==
  /\ clock = 0
  /\ work = [w \in Workers |-> Idle]
  /\ counter = [l \in Limits |-> [v \in Windows |-> 0]]
  /\ consumed = [d \in RewardDeals |-> Never]
  /\ undone = {}
  /\ grant = [d \in RewardDeals |-> Never]
  /\ locked = [v \in Windows |-> 0]

Tick ==
  /\ clock < LastTick
  /\ clock' = clock + 1
  /\ UNCHANGED <<work, counter, consumed, undone, grant, locked>>

(* The total before this consumption compared with the maximum.             *)
MutOverBefore(limit, total) == total - 1 > MaxOf[limit]

(* verdict: the total that includes this consumption is over the maximum.   *)
Over(limit, total) == total > MaxOf[limit]

(* What a hard limit leaves behind: the increment, or nothing when it       *)
(* refuses, because the refusal takes it back.                              *)
Consume(count, limit, v, amount) ==
  IF Over(limit, count[limit][v] + amount) THEN count
  ELSE [count EXCEPT ![limit][v] = @ + amount]

-----------------------------------------------------------------------------
(* abuseSignalsFor and the risk gate.  Ten grants in the rolling day send   *)
(* the evaluation to a person, and nothing is consumed.                     *)
VelocityExceeded ==
  Cardinality({d \in Granted : grant[d] > clock - Day}) >= MaxCount

BeginReward(w, d) ==
  /\ work[w] = Idle
  /\ ~VelocityExceeded
  /\ work' = [work EXCEPT ![w] = [kind |-> "reward", deal |-> d, at |-> clock]]
  /\ UNCHANGED <<clock, counter, consumed, undone, grant, locked>>

(* A key that is there counts nothing and refuses nothing, a corrected one  *)
(* too; a fresh one is refused when the window is full.  The grant is       *)
(* inserted once per deal.                                                  *)
FinishReward(w) ==
  LET d == work[w].deal
      v == Window(work[w].at)
      fresh == consumed[d] = Never
      refused == fresh /\ Over("reward", counter["reward"][v] + 1)
  IN /\ work[w] # Idle
     /\ work[w].kind = "reward"
     /\ counter' = IF fresh THEN Consume(counter, "reward", v, 1) ELSE counter
     /\ consumed' = IF fresh THEN [consumed EXCEPT ![d] = v] ELSE consumed
     /\ undone' = IF refused THEN undone \cup {d} ELSE undone
     /\ grant' = IF ~refused /\ d \notin Granted THEN [grant EXCEPT ![d] = work[w].at] ELSE grant
     /\ work' = [work EXCEPT ![w] = Idle]
     /\ UNCHANGED <<clock, locked>>

(* lockDealValue: the risk gate lets the transaction pass.                  *)
BeginLock(w, a) ==
  /\ work[w] = Idle
  /\ work' = [work EXCEPT ![w] = [kind |-> "lock", amount |-> a, at |-> clock]]
  /\ UNCHANGED <<clock, counter, consumed, undone, grant, locked>>

(* Two limits one after the other under keys of this command, and only then *)
(* the balance.  Each of the three refusals commits what came before it.    *)
FinishLock(w, sufficient) ==
  LET a == work[w].amount
      v == Window(work[w].at)
      first == Consume(counter, "perTxn", v, a)
      passed == ~Over("perTxn", counter["perTxn"][v] + a)
      both == passed /\ ~Over("daily", counter["daily"][v] + a)
  IN /\ work[w] # Idle
     /\ work[w].kind = "lock"
     /\ counter' = IF passed THEN Consume(first, "daily", v, a) ELSE counter
     /\ locked' = IF both /\ sufficient THEN [locked EXCEPT ![v] = @ + a] ELSE locked
     /\ work' = [work EXCEPT ![w] = Idle]
     /\ UNCHANGED <<clock, consumed, undone, grant>>

(* The transaction fails and everything it did is rolled back.              *)
AbortWork(w) ==
  /\ work[w] # Idle
  /\ work' = [work EXCEPT ![w] = Idle]
  /\ UNCHANGED <<clock, counter, consumed, undone, grant, locked>>

LimitNext ==
  \/ Tick
  \/ \E w \in Workers :
       \/ \E d \in RewardDeals : BeginReward(w, d)
       \/ FinishReward(w)
       \/ \E a \in Volumes : BeginLock(w, a)
       \/ \E sufficient \in BOOLEAN : FinishLock(w, sufficient)
       \/ AbortWork(w)

LimitSpec == LimitInit /\ [][LimitNext]_limitVars

-----------------------------------------------------------------------------
(* Types of the counters, the consumption log and the grants.               *)
LimitTypeOK ==
  /\ clock \in 0..LastTick
  /\ work \in [Workers -> [kind : {"reward"}, deal : RewardDeals, at : 0..LastTick]
                          \cup [kind : {"lock"}, amount : Volumes, at : 0..LastTick] \cup {Idle}]
  /\ counter \in [Limits -> [Windows -> Nat]]
  /\ consumed \in [RewardDeals -> Windows \cup {Never}]
  /\ undone \subseteq RewardDeals
  /\ grant \in [RewardDeals -> 0..LastTick \cup {Never}]
  /\ locked \in [Windows -> Nat]

GrantedIn(v) == {d \in Granted : Window(grant[d]) = v}

(* No overlap of transactions passes a window's limit, and no counter lies: *)
(* apart from deals whose key a refusal used up earlier, at most MaxCount   *)
(* rewards are granted in a window and its counter says how many, so nobody *)
(* is refused for a reward they did not get; and what a person locks in one *)
(* stays within the smaller of the two volume limits, the one named per     *)
(* transaction (consumeLimit, evaluateRewardFor, lockDealValue).            *)
LimitsHold ==
  \A v \in Windows :
    /\ Cardinality(GrantedIn(v) \ undone) <= MaxCount
    /\ counter["reward"][v] = Cardinality(GrantedIn(v) \ undone)
    /\ locked[v] <= PerTxn
    /\ locked[v] <= Daily
=============================================================================
