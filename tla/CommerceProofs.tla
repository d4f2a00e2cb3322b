--------------------------- MODULE CommerceProofs ---------------------------
(***************************************************************************)
(* Proofs about FeePolicies, for any schedules, operators and number of    *)
(* approvals in progress, and about Pricing, for any amounts, terms and    *)
(* quotes.  The unique index lets a schedule into force only when the      *)
(* approval retires every other one; the row locks make sure that what it  *)
(* found ACTIVE still is, and that nobody else retires it.  The opening    *)
(* schedule is the one nobody approved: it is never a draft, so no         *)
(* approval brings it back.  About Referrals too, for any people, claims   *)
(* and deals.                                                              *)
(***************************************************************************)
EXTENDS FeePolicies, Pricing, Referrals, FiniteSetTheorems, TLAPS

Used(p) == schedule[p] \in {"ACTIVE", "RETIRED"}
Running(a) == approving[a].at # "idle"

InProgress == [at : {"checked", "retiring", "activating"}, policy : Schedules, by : Operators,
               saw : SUBSET Schedules, retired : SUBSET Schedules]

(* What an approval has checked, or found, is still so: it holds the rows. *)
StillHolds(a) ==
  Running(a) =>
    /\ schedule[approving[a].policy] = "DRAFT"
    /\ activation[approving[a].policy].state = "PROPOSED"
    /\ activation[approving[a].policy].by # approving[a].by
    /\ approving[a].retired \subseteq InForce

RowsHeldOnce == \A a, b \in Approvals : a # b => LockedBy(a) \cap LockedBy(b) = {}

UsedWasApproved ==
  \A p \in Schedules \ {Opening} :
    Used(p) => /\ activation[p].state = "APPROVED"
               /\ activation[p].approver \in Operators \ {activation[p].by}

OneInForce == \E p \in Schedules : InForce = {p}

(* The first schedule that comes after it retires the opening one.         *)
OpeningGivesWay ==
  /\ Used(Opening)
  /\ (\E p \in Schedules \ {Opening} : Used(p)) => schedule[Opening] = "RETIRED"

FeeInv ==
  /\ FeeTypeOK
  /\ \A a \in Approvals : StillHolds(a)
  /\ RowsHeldOnce
  /\ UsedWasApproved
  /\ OneInForce
  /\ OpeningGivesWay
  /\ \A p \in quoted : Used(p)

LEMMA ApprovalsTyped ==
  FeeTypeOK => \A a \in Approvals : Running(a) => approving[a] \in InProgress
  BY DEF FeeTypeOK, Running, InProgress, NotApproving

LEMMA FeeInitInv == FeeInit => FeeInv
<1> SUFFICES ASSUME FeeInit PROVE FeeInv
  OBVIOUS
<1> USE FeePolicyAssumption DEF FeeInit
<1>1. FeeTypeOK
  BY DEF FeeTypeOK, NoActivation
<1>2. \A a \in Approvals : ~Running(a) /\ LockedBy(a) = {}
  BY DEF Running, NotApproving, LockedBy
<1>3. Used(Opening) /\ \A p \in Schedules \ {Opening} : ~Used(p)
  BY DEF Used
<1>4. InForce = {Opening}
  BY DEF InForce
<1> QED
  BY <1>1, <1>2, <1>3, <1>4
     DEF FeeInv, StillHolds, RowsHeldOnce, UsedWasApproved, OneInForce, OpeningGivesWay

(* A step that leaves the approvals and what is in force alone.            *)
LEMMA SchedulesStay ==
  ASSUME FeeInv, FeeTypeOK', UNCHANGED approving,
         \A p \in Schedules : /\ Used(p) <=> Used(p)'
                              /\ Used(p) => schedule'[p] = schedule[p] /\ activation'[p] = activation[p],
         \A a \in Approvals : Running(a) =>
            LET p == approving[a].policy IN
            schedule'[p] = schedule[p] /\ activation'[p] = activation[p],
         \A p \in quoted' : Used(p)
  PROVE  FeeInv'
<1>1. InForce' = InForce
  BY DEF InForce, Used, FeeInv
<1>2. \A a \in Approvals : StillHolds(a)'
  BY <1>1 DEF FeeInv, StillHolds, Running
<1>3. RowsHeldOnce'
  BY DEF FeeInv, RowsHeldOnce, LockedBy
<1>4. UsedWasApproved' /\ OneInForce' /\ OpeningGivesWay'
  BY <1>1, FeePolicyAssumption DEF FeeInv, UsedWasApproved, OneInForce, OpeningGivesWay
<1>5. \A p \in quoted' : Used(p)'
  <2>1. quoted' \subseteq Schedules
    BY DEF FeeTypeOK
  <2> QED
    BY <2>1
<1> QED
  BY <1>2, <1>3, <1>4, <1>5 DEF FeeInv

LEMMA DraftInv ==
  ASSUME FeeInv, NEW p \in Schedules, DraftPolicy(p)
  PROVE  FeeInv'
<1>1. FeeTypeOK'
  BY DEF DraftPolicy, FeeInv, FeeTypeOK
<1>2. ~Used(p) /\ schedule[p] # "DRAFT"
  BY DEF DraftPolicy, Used
<1>3. ~Used(p)' /\ \A q \in Schedules \ {p} : schedule'[q] = schedule[q]
  BY DEF DraftPolicy, Used, FeeInv, FeeTypeOK
<1>4. \A a \in Approvals : Running(a) => approving[a].policy \in Schedules \ {p}
  BY <1>2, ApprovalsTyped DEF FeeInv, StillHolds, InProgress
<1>5. UNCHANGED <<activation, approving, quoted>>
  BY DEF DraftPolicy
<1>6. \A q \in Schedules : Used(q) <=> Used(q)'
  BY <1>2, <1>3 DEF Used
<1> QED
  BY <1>1, <1>2, <1>3, <1>4, <1>5, <1>6, SchedulesStay DEF FeeInv

(* A row that somebody holds cannot get a new proposal.                    *)
LEMMA ProposeInv ==
  ASSUME FeeInv, NEW p \in Schedules, NEW u \in Operators, ProposeActivation(p, u)
  PROVE  FeeInv'
<1>1. FeeTypeOK'
  BY DEF ProposeActivation, FeeInv, FeeTypeOK
<1>2. ~Used(p) /\ UNCHANGED <<schedule, approving, quoted>>
  BY DEF ProposeActivation, Used
<1>3. \A q \in Schedules \ {p} : activation'[q] = activation[q]
  BY DEF ProposeActivation, FeeInv, FeeTypeOK
<1>4. \A a \in Approvals : Running(a) => approving[a].policy \in Schedules \ {p}
  BY ApprovalsTyped DEF ProposeActivation, Locked, LockedBy, Running, FeeInv, InProgress
<1>5. \A q \in Schedules : Used(q) <=> Used(q)'
  BY <1>2 DEF Used
<1> QED
  BY <1>1, <1>2, <1>3, <1>4, <1>5, SchedulesStay DEF FeeInv

LEMMA QuoteInv ==
  ASSUME FeeInv, NEW p \in Schedules, PriceQuote(p)
  PROVE  FeeInv'
<1>1. FeeTypeOK'
  BY DEF PriceQuote, FeeInv, FeeTypeOK
<1>2. quoted' = quoted \cup {p} /\ Used(p) /\ UNCHANGED <<schedule, activation, approving>>
  BY DEF PriceQuote, InForce, Used
<1>3. \A q \in Schedules : Used(q) <=> Used(q)'
  BY <1>2 DEF Used
<1> QED
  BY <1>1, <1>2, <1>3, SchedulesStay DEF FeeInv

(* A step of one approval that changes no schedule: it goes on with rows   *)
(* nobody else holds, or it is over.                                       *)
LEMMA ApprovalMoves ==
  ASSUME FeeInv, NEW a \in Approvals, NEW t \in InProgress \cup {NotApproving},
         approving' = [approving EXCEPT ![a] = t],
         UNCHANGED <<schedule, activation, quoted>>,
         t # NotApproving =>
            /\ schedule[t.policy] = "DRAFT"
            /\ activation[t.policy].state = "PROPOSED"
            /\ activation[t.policy].by # t.by
            /\ t.retired \subseteq InForce
            /\ \A b \in Approvals \ {a} : ({t.policy} \cup t.retired) \cap LockedBy(b) = {}
  PROVE  FeeInv'
<1>1. approving \in [Approvals -> InProgress \cup {NotApproving}]
  BY DEF FeeInv, FeeTypeOK, InProgress
<1>2. approving'[a] = t /\ \A b \in Approvals \ {a} : approving'[b] = approving[b]
  BY <1>1
<1>3. approving' \in [Approvals -> InProgress \cup {NotApproving}]
  BY <1>1
<1>4. FeeTypeOK'
  BY <1>3 DEF FeeInv, FeeTypeOK, InProgress
<1>5. InForce' = InForce
  BY DEF InForce
<1>6. Running(a)' => t # NotApproving
  BY <1>2 DEF Running, NotApproving
<1>7. \A b \in Approvals : StillHolds(b)'
  <2>1. StillHolds(a)'
    BY <1>2, <1>5, <1>6 DEF StillHolds
  <2>2. \A b \in Approvals \ {a} : StillHolds(b)'
    BY <1>2, <1>5 DEF StillHolds, Running, FeeInv
  <2> QED
    BY <2>1, <2>2
<1>8. RowsHeldOnce'
  <2>1. \A b \in Approvals \ {a} : LockedBy(b)' = LockedBy(b)
    BY <1>2 DEF LockedBy
  <2>2. LockedBy(a)' = IF t.at = "idle" THEN {} ELSE {t.policy} \cup t.retired
    BY <1>2 DEF LockedBy
  <2>3. t.at # "idle" => t # NotApproving
    BY DEF NotApproving
  <2>4. \A b \in Approvals \ {a} : LockedBy(a)' \cap LockedBy(b) = {}
    BY <2>2, <2>3
  <2> QED
    BY <2>1, <2>4 DEF FeeInv, RowsHeldOnce
<1>9. UsedWasApproved' /\ OneInForce' /\ OpeningGivesWay' /\ \A p \in quoted' : Used(p)'
  BY <1>5 DEF FeeInv, UsedWasApproved, OneInForce, OpeningGivesWay, Used
<1> QED
  BY <1>4, <1>7, <1>8, <1>9 DEF FeeInv

LEMMA BeginInv ==
  ASSUME FeeInv, NEW a \in Approvals, NEW p \in Schedules, NEW u \in Operators,
         BeginApproval(a, p, u)
  PROVE  FeeInv'
<1> DEFINE t == Approval("checked", p, u, {}, {})
<1>1. t \in InProgress /\ t.policy = p /\ t.by = u /\ t.retired = {}
  BY DEF Approval, InProgress
<1>2. \A b \in Approvals : p \notin LockedBy(b)
  BY DEF BeginApproval, Locked
<1> HIDE DEF t
<1> QED
  BY <1>1, <1>2, ApprovalMoves DEF BeginApproval, MayApprove, t

LEMMA LookInv ==
  ASSUME FeeInv, NEW a \in Approvals, LookForActive(a)
  PROVE  FeeInv'
<1> DEFINE t == Approval("retiring", approving[a].policy, approving[a].by, InForce, {})
<1>1. Running(a) /\ approving[a] \in InProgress
  BY ApprovalsTyped DEF LookForActive, Running, FeeInv
<1>2. /\ t \in InProgress
      /\ t.policy = approving[a].policy /\ t.by = approving[a].by /\ t.retired = {}
  BY <1>1 DEF Approval, InProgress, InForce
<1>3. \A b \in Approvals \ {a} : approving[a].policy \notin LockedBy(b)
  BY <1>1 DEF FeeInv, RowsHeldOnce, LockedBy, Running
<1>4. approving' = [approving EXCEPT ![a] = t] /\ UNCHANGED <<schedule, activation, quoted>>
  BY DEF LookForActive
<1> HIDE DEF t
<1>5. /\ schedule[t.policy] = "DRAFT"
      /\ activation[t.policy].state = "PROPOSED"
      /\ activation[t.policy].by # t.by
  BY <1>1, <1>2 DEF FeeInv, StillHolds
<1>6. t.retired \subseteq InForce
      /\ \A b \in Approvals \ {a} : ({t.policy} \cup t.retired) \cap LockedBy(b) = {}
  BY <1>2, <1>3
<1> QED
  BY <1>2, <1>4, <1>5, <1>6, ApprovalMoves

(* The rows the retiring statement takes are nobody else's, and ACTIVE.    *)
LEMMA RetireInv ==
  ASSUME FeeInv, NEW a \in Approvals, RetireActive(a)
  PROVE  FeeInv'
<1> DEFINE found == approving[a].saw \cap InForce
           t == Approval("activating", approving[a].policy, approving[a].by,
                         approving[a].saw, found)
<1>1. Running(a) /\ approving[a] \in InProgress
  BY ApprovalsTyped DEF RetireActive, Running, FeeInv
<1>2. /\ t \in InProgress
      /\ t.policy = approving[a].policy /\ t.by = approving[a].by /\ t.retired = found
  BY <1>1 DEF Approval, InProgress, InForce
<1>3. \A b \in Approvals \ {a} : approving[a].policy \notin LockedBy(b)
  BY <1>1 DEF FeeInv, RowsHeldOnce, LockedBy, Running
<1>4. \A b \in Approvals : found \cap LockedBy(b) = {}
  BY DEF RetireActive, Locked
<1>5. approving' = [approving EXCEPT ![a] = t] /\ UNCHANGED <<schedule, activation, quoted>>
  BY DEF RetireActive
<1>6. found \subseteq InForce
  OBVIOUS
<1> HIDE DEF t, found
<1>7. /\ schedule[t.policy] = "DRAFT"
      /\ activation[t.policy].state = "PROPOSED"
      /\ activation[t.policy].by # t.by
  BY <1>1, <1>2 DEF FeeInv, StillHolds
<1>8. t.retired \subseteq InForce
      /\ \A b \in Approvals \ {a} : ({t.policy} \cup t.retired) \cap LockedBy(b) = {}
  BY <1>2, <1>3, <1>4, <1>6
<1> QED
  BY <1>2, <1>5, <1>7, <1>8, ApprovalMoves

LEMMA RollBackInv ==
  ASSUME FeeInv, NEW a \in Approvals, RollBackApproval(a)
  PROVE  FeeInv'
<1>1. approving' = [approving EXCEPT ![a] = NotApproving]
      /\ UNCHANGED <<schedule, activation, quoted>>
  BY DEF RollBackApproval
<1> QED
  BY <1>1, ApprovalMoves

(* The one step that changes what is in force: what was is retired, because*)
(* the index passed, and the approved schedule takes its place.            *)
LEMMA CommitInv ==
  ASSUME FeeInv, NEW a \in Approvals, CommitApproval(a)
  PROVE  FeeInv'
<1> DEFINE new == approving[a].policy
           old == approving[a].retired
           row == [state |-> "APPROVED", by |-> activation[new].by, approver |-> approving[a].by]
<1>1. Running(a) /\ approving[a] \in InProgress
  BY ApprovalsTyped DEF CommitApproval, Running, FeeInv
<1>2. /\ new \in Schedules /\ old \subseteq InForce /\ approving[a].by \in Operators
      /\ schedule[new] = "DRAFT"
      /\ activation[new].by \in (Operators \cup {NoOne}) \ {approving[a].by}
  BY <1>1 DEF InProgress, FeeInv, StillHolds, FeeTypeOK
<1>3. /\ InForce \subseteq old
      /\ schedule' = [p \in Schedules |-> IF p = new THEN "ACTIVE"
                                          ELSE IF p \in old THEN "RETIRED" ELSE schedule[p]]
      /\ activation' = [activation EXCEPT ![new] = row]
      /\ approving' = [approving EXCEPT ![a] = NotApproving]
      /\ quoted' = quoted
  BY DEF CommitApproval, CorridorIsFree
<1> HIDE DEF new, old, row
<1>4. FeeTypeOK'
  <2>1. row \in [state : {"none", "PROPOSED", "APPROVED"}, by : Operators \cup {NoOne},
                 approver : Operators \cup {NoOne}]
    BY <1>2 DEF row
  <2> QED
    BY <1>2, <1>3, <2>1 DEF FeeInv, FeeTypeOK
<1>5. InForce' = {new}
  BY <1>2, <1>3 DEF InForce
<1>6. \A p \in Schedules : Used(p)' <=> p = new \/ Used(p)
  BY <1>2, <1>3 DEF Used, InForce
<1>7. UsedWasApproved'
  <2>1. \A p \in Schedules \ {new} : activation'[p] = activation[p]
    BY <1>3 DEF FeeInv, FeeTypeOK
  <2>2. activation'[new] = row
    BY <1>2, <1>3 DEF FeeInv, FeeTypeOK
  <2>3. row.state = "APPROVED" /\ row.approver \in Operators \ {row.by}
    BY <1>2 DEF row
  <2> QED
    BY <1>6, <2>1, <2>2, <2>3 DEF FeeInv, UsedWasApproved
<1>8. OneInForce' /\ \A p \in quoted' : Used(p)'
  BY <1>2, <1>3, <1>5, <1>6 DEF FeeInv, OneInForce, FeeTypeOK
<1>9. OpeningGivesWay'
  <2>1. Used(Opening) /\ new # Opening
    BY <1>2 DEF FeeInv, OpeningGivesWay, Used
  <2>2. Opening \in old \/ schedule[Opening] = "RETIRED"
    BY <1>3, <2>1, FeePolicyAssumption DEF Used, InForce
  <2>3. schedule'[Opening] = "RETIRED"
    BY <1>3, <2>1, <2>2, FeePolicyAssumption
  <2> QED
    BY <2>3 DEF OpeningGivesWay, Used
<1>10. \A b \in Approvals \ {a} : approving'[b] = approving[b]
  BY <1>3 DEF FeeInv, FeeTypeOK
<1>11. approving'[a].at = "idle"
  BY <1>3 DEF NotApproving, FeeInv, FeeTypeOK
<1>12. RowsHeldOnce'
  BY <1>10, <1>11 DEF FeeInv, RowsHeldOnce, LockedBy
<1>13. ASSUME NEW b \in Approvals, Running(b)'
       PROVE  StillHolds(b)'
  <2>1. b # a /\ Running(b) /\ approving'[b] = approving[b]
    BY <1>10, <1>11, <1>13 DEF Running
  <2>2. approving[b].policy \in Schedules /\ approving[b].policy \notin {new} \cup old
    BY <1>1, <2>1, ApprovalsTyped
       DEF FeeInv, RowsHeldOnce, LockedBy, Running, InProgress, new, old
  <2>3. approving[b].retired = {}
    <3>1. approving[b].retired \subseteq InForce
      BY <2>1 DEF FeeInv, StillHolds
    <3>2. approving[b].retired \cap old = {}
      BY <1>1, <2>1 DEF FeeInv, RowsHeldOnce, LockedBy, Running, old
    <3> QED
      BY <1>3, <3>1, <3>2
  <2>4. /\ schedule'[approving[b].policy] = schedule[approving[b].policy]
        /\ activation'[approving[b].policy] = activation[approving[b].policy]
    BY <1>3, <2>2 DEF FeeInv, FeeTypeOK
  <2> QED
    BY <2>1, <2>3, <2>4 DEF FeeInv, StillHolds
<1>14. \A b \in Approvals : StillHolds(b)'
  BY <1>13 DEF StillHolds
<1> QED
  BY <1>4, <1>7, <1>8, <1>12, <1>14, <1>9 DEF FeeInv

LEMMA FeeStepInv == FeeInv /\ [FeeNext]_feeVars => FeeInv'
<1> SUFFICES ASSUME FeeInv, [FeeNext]_feeVars
             PROVE  FeeInv'
  OBVIOUS
<1>1. CASE UNCHANGED feeVars
  BY <1>1 DEF feeVars, FeeInv, FeeTypeOK, StillHolds, Running, InForce, RowsHeldOnce, LockedBy,
              UsedWasApproved, OneInForce, OpeningGivesWay, Used
<1>2. CASE FeeNext
  BY <1>2, DraftInv, ProposeInv, QuoteInv, BeginInv, LookInv, RetireInv, CommitInv, RollBackInv
     DEF FeeNext
<1> QED
  BY <1>1, <1>2

LEMMA FeeInvariant == FeeSpec => []FeeInv
  BY FeeInitInv, FeeStepInv, PTL DEF FeeSpec

(* The types of schedules, activations and approvals under way.             *)
THEOREM FeeTypesHold == FeeSpec => []FeeTypeOK
<1>1. FeeInv => FeeTypeOK
  BY DEF FeeInv
<1> QED
  BY <1>1, FeeInvariant, PTL

(* However many approvals of however many schedules interleave, and        *)
(* wherever a process dies, the corridor has exactly one schedule in       *)
(* force; once it is another than the opening one it is never again the    *)
(* opening one; and nothing but the opening schedule was ever priced with  *)
(* that two people did not agree on (approveActivation,                    *)
(* fee_policy_active_uq).                                                  *)
THEOREM OneApprovedScheduleHolds == FeeSpec => []OneApprovedSchedule
<1>1. FeeInv => OneApprovedSchedule
  <2> SUFFICES ASSUME FeeInv PROVE OneApprovedSchedule
    OBVIOUS
  <2> DEFINE retired == {p \in Schedules : schedule[p] = "RETIRED"}
             used == (quoted \cup InForce \cup retired) \ {Opening}
  <2>1. used \subseteq Schedules \ {Opening} /\ \A p \in used : Used(p)
    BY DEF FeeInv, FeeTypeOK, InForce, Used
  <2>2. Cardinality(InForce) = 1
    BY FS_Singleton DEF FeeInv, OneInForce
  <2>3. used # {} => Opening \in retired
    BY <2>1, FeePolicyAssumption DEF FeeInv, OpeningGivesWay
  <2>4. \A p \in used : /\ activation[p].state = "APPROVED"
                        /\ activation[p].approver \in Operators \ {activation[p].by}
    BY <2>1 DEF FeeInv, UsedWasApproved
  <2> QED
    BY <2>2, <2>3, <2>4 DEF OneApprovedSchedule
<1> QED
  BY <1>1, FeeInvariant, PTL

-----------------------------------------------------------------------------
(* The arithmetic of a price, for any amount and any terms.                *)

(* A share of an amount, rounded down, is no more than the amount.         *)
LEMMA BpsBounds ==
  ASSUME NEW x \in Nat, NEW b \in Nat, b <= Den
  PROVE  ApplyBps(x, b) \in Nat /\ ApplyBps(x, b) <= x
<1>1. Den \in Nat /\ Den > 0
  BY PricingAssumption
<1>2. CASE x = 0 \/ b = 0
  BY <1>2 DEF ApplyBps
<1>3. CASE x > 0 /\ b > 0
  <2> DEFINE n == x * b
             q == n \div Den
  <2>1. n \in Nat /\ n <= Den * x
    BY <1>1, SMTT(20)
  <2>2. q \in Nat /\ Den * q <= n
    <3> HIDE DEF n
    <3> QED
      BY <1>1, <2>1, SMTT(20)
  <2>3. ApplyBps(x, b) = q
    BY <1>3 DEF ApplyBps
  <2> HIDE DEF n, q
  <2>4. q <= x
    <3> SUFFICES ASSUME x + 1 <= q PROVE FALSE
      BY <2>2
    <3>1. Den * (x + 1) <= Den * q /\ Den * (x + 1) = Den * x + Den
      BY <1>1, <2>2, SMTT(20)
    <3>2. Den * q \in Nat /\ Den * x \in Nat
      BY <1>1, <2>2, SMTT(20)
    <3> QED
      BY <1>1, <2>1, <2>2, <3>1, <3>2
  <2> QED
    BY <2>2, <2>3, <2>4
<1> QED
  BY <1>2, <1>3

(* A band keeps what it is given in it, in order.                          *)
LEMMA ClampBounds ==
  ASSUME NEW low \in Nat, NEW high \in Nat, low <= high, NEW x \in Int, NEW y \in Int, x <= y
  PROVE  /\ Clamp(x, low, high) \in low..high
         /\ Clamp(x, low, high) <= Clamp(y, low, high)
         /\ Clamp(x, low, high) >= Lesser(high, x)
  BY DEF Clamp, Lesser

(* The fee keeps to its band and to the cap on discounts, and a discount   *)
(* never makes it larger.                                                  *)
LEMMA FinalFeeBounds ==
  ASSUME NEW base \in Nat, NEW t \in Tariffs, NEW r \in Nat
  PROVE  /\ FinalFee(base, t, r) \in t.min..t.max
         /\ FinalFee(base, t, r) \in Nat
         /\ FinalFee(base, t, r) >= Lesser(t.max, base - ApplyBps(base, t.cap))
         /\ FinalFee(base, t, r) <= FinalFee(base, t, 0)
<1>1. t.min \in Nat /\ t.max \in Nat /\ t.min <= t.max /\ t.cap \in Nat /\ t.cap <= Den
  BY PricingAssumption DEF TariffRows
<1> DEFINE allowed == ApplyBps(base, t.cap)
           left(n) == base - Lesser(n, allowed)
           kept(n) == IF left(n) > 0 THEN left(n) ELSE 0
<1>2. allowed \in Nat /\ allowed <= base
  BY <1>1, BpsBounds
<1>3. FinalFee(base, t, r) = Clamp(kept(r), t.min, t.max)
      /\ FinalFee(base, t, 0) = Clamp(kept(0), t.min, t.max)
  BY DEF FinalFee
<1> HIDE DEF allowed
<1>4. kept(r) \in Int /\ kept(0) \in Int /\ kept(r) <= kept(0) /\ kept(r) >= base - allowed
  BY <1>2 DEF Lesser
<1> HIDE DEF kept
<1>5. /\ Clamp(kept(r), t.min, t.max) \in t.min..t.max
      /\ Clamp(kept(r), t.min, t.max) <= Clamp(kept(0), t.min, t.max)
      /\ Clamp(kept(r), t.min, t.max) >= Lesser(t.max, kept(r))
  BY <1>1, <1>4, ClampBounds
<1>6. Lesser(t.max, kept(r)) >= Lesser(t.max, base - allowed)
  BY <1>1, <1>2, <1>4 DEF Lesser
<1>7. FinalFee(base, t, r) >= Lesser(t.max, base - allowed)
  <2>1. Lesser(t.max, kept(r)) \in Int /\ Lesser(t.max, base - allowed) \in Int
    BY <1>1, <1>2, <1>4 DEF Lesser
  <2> QED
    BY <1>1, <1>3, <1>5, <1>6, <2>1
<1>8. FinalFee(base, t, r) \in t.min..t.max /\ FinalFee(base, t, r) \in Nat
  BY <1>1, <1>3, <1>5
<1> QED
  BY <1>3, <1>5, <1>7, <1>8 DEF allowed

EntitlementRows == [premium : 0..Den, referral : 0..Den, reward : 0..Den, rewardMax : Nat]

(* Every price that is acceptable is within the terms of its tariff.       *)
LEMMA PriceWithinTerms ==
  ASSUME NEW amount \in Sums, NEW t \in Tariffs, NEW e \in EntitlementRows,
         Acceptable(amount, CalculateFee(amount, t, e)),
         NEW x, x.amount = amount, x.tariff = t, x.price = CalculateFee(amount, t, e)
  PROVE  CalculateFee(amount, t, e) \in Prices /\ WithinTerms(x)
<1> DEFINE base == BaseFee(amount, t)
           d == Discounts(base, e)
           allowed == ApplyBps(base, t.cap)
           fee == FinalFee(base, t, Requested(d))
           c == CalculateFee(amount, t, e)
           plain == CalculateFee(amount, t, NoEntitlement)
<1>1. Den \in Nat /\ amount \in Nat /\ t \in TariffRows /\ t.bps \in Nat /\ t.bps <= Den
      /\ t.fixed \in Nat /\ t.cap \in Nat /\ t.cap <= Den /\ t.min \in Nat /\ t.max \in Nat
  BY PricingAssumption DEF TariffRows
<1>2. base \in Nat
  <2>1. ApplyBps(amount, t.bps) \in Nat
    BY <1>1, BpsBounds
  <2> QED
    BY <1>1, <2>1 DEF BaseFee
<1>3. allowed \in Nat /\ allowed <= base
  <2> HIDE DEF base
  <2> QED
    BY <1>1, <1>2, BpsBounds
<1>4. d \in [premium : Nat, referral : Nat, reward : Nat] /\ Requested(d) \in Nat
  <2> HIDE DEF base
  <2>1. e.premium \in 0..Den /\ e.referral \in 0..Den /\ e.reward \in 0..Den /\ e.rewardMax \in Nat
    BY DEF EntitlementRows
  <2>2. /\ ApplyBps(base, e.premium) \in Nat /\ ApplyBps(base, e.referral) \in Nat
        /\ ApplyBps(base, e.reward) \in Nat
    <3>1. \A b \in {e.premium, e.referral, e.reward} : b \in Nat /\ b <= Den
      BY <1>1, <2>1
    <3> QED
      BY <1>2, <3>1, BpsBounds
  <2> QED
    BY <2>1, <2>2 DEF Discounts, Requested, Lesser
<1>5. /\ fee \in t.min..t.max /\ fee \in Nat /\ fee >= Lesser(t.max, base - allowed)
      /\ fee <= FinalFee(base, t, 0)
  <2> HIDE DEF base, d
  <2> QED
    BY <1>2, <1>4, FinalFeeBounds
<1>6. Requested(d) - Lesser(Requested(d), allowed) \in Nat
      /\ Requested(d) <= base + (Requested(d) - Lesser(Requested(d), allowed))
  <2> HIDE DEF base, d, allowed
  <2> QED
    BY <1>2, <1>3, <1>4 DEF Lesser
<1>7. /\ c.base = base /\ c.discounts = d /\ c.fee = fee
      /\ c.capped = Requested(d) - Lesser(Requested(d), allowed)
      /\ c.payerSends = (IF t.bearer = "PAYER" THEN amount + fee ELSE amount)
      /\ c.payeeReceives = (IF t.bearer = "PAYER" THEN amount ELSE amount - fee)
      /\ c = [base |-> c.base, discounts |-> c.discounts, fee |-> c.fee, capped |-> c.capped,
              payerSends |-> c.payerSends, payeeReceives |-> c.payeeReceives]
  BY DEF CalculateFee
<1>8. plain.fee = FinalFee(base, t, 0)
  <2>1. plain.fee = FinalFee(base, t, Requested(Discounts(base, NoEntitlement)))
    BY DEF CalculateFee
  <2>2. Requested(Discounts(base, NoEntitlement)) = 0
    BY DEF Requested, Discounts, NoEntitlement, ApplyBps, Lesser
  <2> QED
    BY <2>1, <2>2
<1>9. c.payerSends > 0 /\ c.payeeReceives > 0
  BY DEF Acceptable
<1> HIDE DEF base, d, allowed, fee, c, plain
<1>10. c.payerSends - c.payeeReceives = c.fee /\ c.payerSends \in Nat /\ c.payeeReceives \in Nat
  BY <1>1, <1>5, <1>7, <1>9
<1>11. c \in Prices
  BY <1>2, <1>4, <1>5, <1>6, <1>7, <1>10 DEF Prices
<1>12. WithinTerms(x)
  <2>1. /\ c.fee \in t.min..t.max /\ c.fee >= Lesser(t.max, c.base - allowed)
        /\ c.fee <= plain.fee /\ Requested(c.discounts) <= c.base + c.capped
    BY <1>5, <1>6, <1>7, <1>8
  <2>2. allowed = ApplyBps(c.base, t.cap)
    BY <1>7 DEF allowed
  <2> QED
    BY <1>9, <1>10, <2>1, <2>2 DEF WithinTerms, c, plain
<1> QED
  BY <1>11, <1>12 DEF c

-----------------------------------------------------------------------------
Carriers(g) == {q \in Quotes : frozen[q] # Naught /\ frozen[q].reward = g}

(* A price that was looked up is within its terms and names a reward of    *)
(* its own customer.                                                       *)
PricedRight(x) ==
  x # Naught => /\ x \in Priced
                /\ WithinTerms(x)
                /\ x.reward # Naught => x.customer = OwnerOf[x.reward]

(* A reward is gone exactly when the one quote that carries it is there.   *)
RewardRight(g) ==
  /\ (reward[g].state = "REDEEMED") <=> (Carriers(g) # {})
  /\ \A q, r \in Carriers(g) : q = r

PricingInv ==
  /\ PricingTypeOK
  /\ \A t \in Quotings : PricedRight(pricing[t])
  /\ \A q \in Quotes : PricedRight(frozen[q])
  /\ \A g \in Rewards : RewardRight(g)

LEMMA PricingInitInv == PricingInit => PricingInv
<1> SUFFICES ASSUME PricingInit PROVE PricingInv
  OBVIOUS
<1>1. PricingTypeOK
  BY PricingAssumption DEF PricingInit, PricingTypeOK
<1>2. \A g \in Rewards : Carriers(g) = {} /\ reward[g].state = "GRANTED"
  BY DEF PricingInit, Carriers
<1>3. /\ \A t \in Quotings : PricedRight(pricing[t])
      /\ \A q \in Quotes : PricedRight(frozen[q])
  BY DEF PricingInit, PricedRight
<1>4. \A g \in Rewards : RewardRight(g)
  BY <1>2 DEF RewardRight
<1> QED
  BY <1>1, <1>3, <1>4 DEF PricingInv

(* What people are entitled to changes, and no price that was given.       *)
LEMMA EntitlementsChangeInv ==
  ASSUME PricingInv,
         \/ \E u \in Customers : ReferralQualifies(u)
                                 \/ \E b \in PremiumRates : ChangePremium(u, b)
         \/ \E g \in Rewards : LapseReward(g)
         \/ \E t \in Quotings : AbandonQuote(t)
  PROVE  PricingInv'
<1>1. frozen' = frozen /\ pricing' \in [Quotings -> Priced \cup {Naught}]
      /\ \A t \in Quotings : pricing'[t] = pricing[t] \/ pricing'[t] = Naught
  BY DEF PricingInv, PricingTypeOK, ReferralQualifies, ChangePremium, LapseReward, AbandonQuote
<1>2. premium' \in [Customers -> 0..Den] /\ referred' \subseteq Customers
  BY PricingAssumption
     DEF PricingInv, PricingTypeOK, ReferralQualifies, ChangePremium, LapseReward, AbandonQuote
<1>3. reward' \in [Rewards -> [state : {"GRANTED", "REDEEMED"}, lapsed : BOOLEAN]]
      /\ \A g \in Rewards : reward'[g].state = reward[g].state
  <2> DEFINE Row == [state : {"GRANTED", "REDEEMED"}, lapsed : BOOLEAN]
             old(g) == [reward[g] EXCEPT !.lapsed = TRUE]
  <2>1. reward \in [Rewards -> Row]
    BY DEF PricingInv, PricingTypeOK
  <2>2. \A g \in Rewards : old(g) \in Row /\ old(g).state = reward[g].state
    BY <2>1
  <2>3. reward' = reward \/ \E g \in Rewards : reward' = [reward EXCEPT ![g] = old(g)]
    BY <2>1 DEF ReferralQualifies, ChangePremium, LapseReward, AbandonQuote
  <2> HIDE DEF Row, old
  <2>4. reward' \in [Rewards -> Row] /\ \A g \in Rewards : reward'[g].state = reward[g].state
    BY <2>1, <2>2, <2>3
  <2> QED
    BY <2>4 DEF Row
<1>4. PricingTypeOK'
  BY <1>1, <1>2, <1>3 DEF PricingInv, PricingTypeOK
<1>5. \A g \in Rewards : RewardRight(g)'
  BY <1>1, <1>3 DEF PricingInv, RewardRight, Carriers
<1>6. /\ \A t \in Quotings : PricedRight(pricing'[t])
      /\ \A q \in Quotes : PricedRight(frozen'[q])
  BY <1>1 DEF PricingInv, PricedRight
<1> QED
  BY <1>4, <1>5, <1>6 DEF PricingInv, PricedRight

LEMMA BeginQuoteInv ==
  ASSUME PricingInv, NEW t \in Quotings, NEW u \in Customers, NEW amount \in Sums,
         NEW tariff \in Tariffs, NEW named \in Rewards \cup {Naught},
         BeginQuote(t, u, amount, tariff, named)
  PROVE  PricingInv'
<1> DEFINE g == IF named # Naught /\ Spendable(named, u) THEN named ELSE Naught
           e == EntitlementsFor(u, g)
           c == CalculateFee(amount, tariff, e)
           x == [customer |-> u, amount |-> amount, tariff |-> tariff, reward |-> g, price |-> c]
<1>1. pricing' = [pricing EXCEPT ![t] = x] /\ Acceptable(amount, c)
      /\ UNCHANGED <<reward, premium, referred, frozen>>
  BY DEF BeginQuote
<1>2. g \in Rewards \cup {Naught} /\ (g # Naught => OwnerOf[g] = u)
  BY DEF Spendable
<1> HIDE DEF g
<1>3. e \in EntitlementRows
  <2>1. premium[u] \in 0..Den /\ Den \in Nat /\ ReferralRate \in 0..Den
    BY PricingAssumption DEF PricingInv, PricingTypeOK
  <2>2. g # Naught => Benefit[g].bps \in 0..Den /\ Benefit[g].max \in Nat
    BY <1>2, PricingAssumption
  <2> QED
    BY <2>1, <2>2 DEF EntitlementsFor, EntitlementRows
<1> HIDE DEF e
<1>4. x.amount = amount /\ x.tariff = tariff /\ x.price = c /\ x.reward = g /\ x.customer = u
  OBVIOUS
<1>5. c \in Prices /\ WithinTerms(x)
  BY <1>1, <1>3, <1>4, PriceWithinTerms
<1> HIDE DEF c
<1>6. x \in Priced
  BY <1>2, <1>5 DEF Priced
<1> HIDE DEF x
<1>7. PricedRight(x)
  BY <1>2, <1>4, <1>5, <1>6 DEF PricedRight
<1>8. PricingTypeOK'
  BY <1>1, <1>6 DEF PricingInv, PricingTypeOK
<1>9. \A s \in Quotings : PricedRight(pricing'[s])
  BY <1>1, <1>7 DEF PricingInv, PricingTypeOK
<1>10. \A r \in Rewards : RewardRight(r)'
  BY <1>1 DEF PricingInv, RewardRight, Carriers
<1> QED
  BY <1>1, <1>8, <1>9, <1>10 DEF PricingInv, PricedRight

LEMMA FreezeQuoteInv ==
  ASSUME PricingInv, NEW t \in Quotings, NEW q \in Quotes, FreezeQuote(t, q)
  PROVE  PricingInv'
<1> DEFINE x == pricing[t]
           g == x.reward
<1>1. x # Naught /\ PricedRight(x) /\ frozen[q] = Naught
      /\ frozen' = [frozen EXCEPT ![q] = x] /\ pricing' = [pricing EXCEPT ![t] = Naught]
      /\ UNCHANGED <<premium, referred>>
  BY DEF FreezeQuote, PricingInv
<1>2. x \in Priced /\ g \in Rewards \cup {Naught}
  BY <1>1 DEF PricedRight, Priced
<1>3. /\ reward' \in [Rewards -> [state : {"GRANTED", "REDEEMED"}, lapsed : BOOLEAN]]
      /\ \A r \in Rewards \ {g} : reward'[r] = reward[r]
      /\ g # Naught => reward[g].state = "GRANTED" /\ reward'[g].state = "REDEEMED"
  BY <1>2 DEF FreezeQuote, PricingInv, PricingTypeOK
<1> HIDE DEF x
<1>4. frozen' \in [Quotes -> Priced \cup {Naught}] /\ frozen'[q] = x
      /\ \A p \in Quotes \ {q} : frozen'[p] = frozen[p]
  BY <1>1, <1>2 DEF PricingInv, PricingTypeOK
<1>5. PricingTypeOK'
  BY <1>1, <1>3, <1>4 DEF PricingInv, PricingTypeOK
<1>6. ASSUME NEW r \in Rewards PROVE RewardRight(r)'
  <2>1. CASE r = g
    <3>1. Carriers(r)' = {q}
      <4>1. Carriers(r) = {}
        BY <1>3, <2>1, PricingAssumption DEF PricingInv, RewardRight
      <4> QED
        BY <1>1, <1>4, <2>1, <4>1 DEF Carriers
    <3> QED
      BY <1>3, <2>1, <3>1, PricingAssumption DEF RewardRight
  <2>2. CASE r # g
    <3>1. Carriers(r)' = Carriers(r)
      BY <1>1, <1>4, <2>2 DEF Carriers
    <3> QED
      BY <1>3, <2>2, <3>1 DEF PricingInv, RewardRight
  <2> QED
    BY <2>1, <2>2
<1>7. /\ \A s \in Quotings : PricedRight(pricing'[s])
      /\ \A p \in Quotes : PricedRight(frozen'[p])
  BY <1>1, <1>4 DEF PricingInv, PricingTypeOK, PricedRight
<1> QED
  BY <1>5, <1>6, <1>7 DEF PricingInv, PricedRight

LEMMA PricingStepInv == PricingInv /\ [PricingNext]_pricingVars => PricingInv'
<1> SUFFICES ASSUME PricingInv, [PricingNext]_pricingVars PROVE PricingInv'
  OBVIOUS
<1>1. CASE UNCHANGED pricingVars
  BY <1>1 DEF pricingVars, PricingInv, PricingTypeOK, RewardRight, Carriers
<1>2. CASE PricingNext
  BY <1>2, EntitlementsChangeInv, BeginQuoteInv, FreezeQuoteInv DEF PricingNext
<1> QED
  BY <1>1, <1>2

LEMMA PricingInvariant == PricingSpec => []PricingInv
  BY PricingInitInv, PricingStepInv, PTL DEF PricingSpec

(* The types of quotes, prices and rewards.                                 *)
THEOREM PricingTypesHold == PricingSpec => []PricingTypeOK
<1>1. PricingInv => PricingTypeOK
  BY DEF PricingInv
<1> QED
  BY <1>1, PricingInvariant, PTL

(* QuotesAreFair holds in every reachable state, for any tariffs, amounts, *)
(* rates and caps: the fee keeps to its terms by PriceWithinTerms, and two *)
(* quotes never carry one reward (calculateFee, snapshotQuote).            *)
THEOREM QuotesAreFairHolds == PricingSpec => []QuotesAreFair
<1>1. ASSUME PricingInv PROVE QuotesAreFair
  <2>1. \A q \in Quotes : frozen[q] # Naught => WithinTerms(frozen[q])
    BY <1>1 DEF PricingInv, PricedRight
  <2>2. ASSUME NEW g \in Rewards
        PROVE  /\ (reward[g].state = "REDEEMED") <=> (Carriers(g) # {})
               /\ \A q, r \in Carriers(g) : q = r /\ frozen[q].customer = OwnerOf[g]
    BY <1>1, PricingAssumption DEF PricingInv, RewardRight, PricedRight, Carriers
  <2> QED
    BY <2>1, <2>2 DEF QuotesAreFair, Carriers
<1> QED
  BY <1>1, PricingInvariant, PTL

-----------------------------------------------------------------------------
(***************************************************************************)
(* Referrals.  While no other claim commits, a walk stands on a chain that *)
(* does not move: it knows a set of people it has passed, each of whom     *)
(* leads on inside it or to its cursor, and every closed set that holds    *)
(* the referrer holds all of them.                                         *)
(***************************************************************************)
Chain == [p \in People |-> ReferrerOf(p)]

(* What a set of people has to be for the new referral to close it.        *)
ClosedBut(S, p, chain) == \A q \in S \ {p} : chain[q] \in S

PassedBy(w, V, chain) ==
  /\ w.referee \notin V
  /\ w.referrer \in V \cup {w.cursor}
  /\ \A q \in V : chain[q] \in V \cup {w.cursor}
  /\ w.cursor \in V \/ Cardinality(V) = w.steps
  /\ \A S \in SUBSET People :
       w.referrer \in S /\ ClosedBut(S, w.referee, chain) => V \subseteq S /\ w.cursor \in S

WalkRight(w, chain) == w.late \/ \E V \in SUBSET People : PassedBy(w, V, chain)

ReferralInv ==
  /\ ReferralTypeOK
  /\ \A c \in Claims : claim[c] # None => WalkRight(claim[c], Chain)
  /\ CycleNeedsOverlap
  /\ QualifiedOnRealActivity

LEMMA ReferralInitInv == ReferralInit => ReferralInv
<1> SUFFICES ASSUME ReferralInit PROVE ReferralInv
  OBVIOUS
<1>1. ReferralTypeOK
  BY DEF ReferralInit, ReferralTypeOK, Fates
<1>2. Attributed = {}
  BY DEF ReferralInit, Attributed
<1>3. CycleNeedsOverlap /\ QualifiedOnRealActivity
  BY <1>2 DEF CycleNeedsOverlap, Cyclic, QualifiedOnRealActivity
<1>4. \A c \in Claims : claim[c] = None
  BY DEF ReferralInit
<1> QED
  BY <1>1, <1>3, <1>4 DEF ReferralInv

LEMMA ReferralTypes ==
  ASSUME ReferralTypeOK
  PROVE  /\ Attributed \subseteq People
         /\ \A p \in People : Chain[p] = ReferrerOf(p)
         /\ \A p \in Attributed : Chain[p] = attribution[p].referrer /\ Chain[p] \in People
         /\ \A p \in People : Chain[p] \in People => p \in Attributed
  BY ReferralAssumption DEF ReferralTypeOK, Referred, Attributed, ReferrerOf, Chain

(* Who refers whom stands still, and with it the cycles.                   *)
SameChain == Attributed' = Attributed /\ Chain' = Chain

LEMMA CyclesStand ==
  ASSUME ReferralTypeOK, ReferralTypeOK', CycleNeedsOverlap, SameChain, overlapped' = overlapped
  PROVE  CycleNeedsOverlap'
<1>1. \A p \in Attributed : ReferrerOf(p)' = ReferrerOf(p)
  BY ReferralTypes DEF SameChain, Chain
<1>2. \A S \in SUBSET Attributed : Cyclic(S)' <=> Cyclic(S)
  BY <1>1 DEF Cyclic
<1> QED
  BY <1>2 DEF CycleNeedsOverlap, SameChain

(* A claim is taken up, goes on or is dropped while nobody commits.        *)
LEMMA WalkingInv ==
  ASSUME ReferralInv, NEW c \in Claims, NEW w \in Walks \cup {None},
         claim' = [claim EXCEPT ![c] = w], UNCHANGED <<attribution, closing, overlapped>>,
         w = None \/ WalkRight(w, Chain)
  PROVE  ReferralInv'
<1>1. ReferralTypeOK
  BY DEF ReferralInv
<1>2. ReferralTypeOK'
  BY <1>1 DEF ReferralTypeOK
<1>3. SameChain
  BY DEF SameChain, Chain, Attributed, ReferrerOf
<1>4. ASSUME NEW d \in Claims, claim'[d] # None PROVE WalkRight(claim'[d], Chain')
  <2>1. claim'[d] = IF d = c THEN w ELSE claim[d]
    BY <1>1 DEF ReferralTypeOK
  <2> QED
    BY <1>3, <1>4, <2>1 DEF ReferralInv, SameChain
<1>5. CycleNeedsOverlap'
  BY <1>1, <1>2, <1>3, CyclesStand DEF ReferralInv
<1>6. QualifiedOnRealActivity'
  BY DEF ReferralInv, QualifiedOnRealActivity, Attributed, ReferrerOf, Eligible
<1> QED
  BY <1>2, <1>4, <1>5, <1>6 DEF ReferralInv

(* A claim begins at the referrer, with nobody passed.                     *)
LEMMA BeginClaimInv ==
  ASSUME ReferralInv, NEW c \in Claims, NEW p \in People, NEW r \in People, BeginClaim(c, p, r)
  PROVE  ReferralInv'
<1> DEFINE w == [referee |-> p, referrer |-> r, cursor |-> r, steps |-> 0, late |-> FALSE]
<1>1. w \in Walks /\ w.referee = p /\ w.referrer = r /\ w.cursor = r /\ w.steps = 0
  BY ReferralAssumption DEF Walks
<1>2. claim' = [claim EXCEPT ![c] = w] /\ UNCHANGED <<attribution, closing, overlapped>>
  BY DEF BeginClaim
<1> HIDE DEF w
<1>3. PassedBy(w, {}, Chain)
  BY <1>1, FS_EmptySet DEF PassedBy
<1>4. WalkRight(w, Chain)
  BY <1>3 DEF WalkRight
<1> QED
  BY <1>1, <1>2, <1>4, WalkingInv

(* A turn of the loop passes the cursor, unless it was passed before: then *)
(* the walk goes round in a cycle that was there already.                  *)
LEMMA WalkStepInv ==
  ASSUME ReferralInv, NEW c \in Claims, WalkStep(c)
  PROVE  ReferralInv'
<1>1. ReferralTypeOK
  BY DEF ReferralInv
<1>2. PICK w \in Walks : w = claim[c]
  BY <1>1 DEF ReferralTypeOK, WalkStep
<1>3. /\ w # None /\ w.cursor # None /\ w.steps # Depth
      /\ UNCHANGED <<attribution, closing, overlapped>>
  BY <1>2 DEF WalkStep, WalkOver
<1>4. w.cursor \in People /\ w.steps \in Nat /\ w.steps + 1 \in 0..Depth
  BY <1>3, ReferralAssumption DEF Walks
<1>5. CASE w.cursor = w.referee
  <2>1. claim' = [claim EXCEPT ![c] = None]
    BY <1>2, <1>5 DEF WalkStep
  <2> QED
    BY <1>3, <2>1, WalkingInv
<1>6. CASE w.cursor # w.referee
  <2>1. PICK x \in People : x = w.cursor
    BY <1>4
  <2>2. PICK y \in People \cup {None} : y = ReferrerOf(x)
    BY <1>1 DEF ReferrerOf, ReferralTypeOK, Referred, Attributed
  <2>3. y = Chain[x]
    BY <1>1, <2>2, ReferralTypes
  <2> DEFINE v == [w EXCEPT !.cursor = y, !.steps = @ + 1]
  <2>4. claim' = [claim EXCEPT ![c] = v]
    BY <1>2, <1>6, <2>1, <2>2 DEF WalkStep
  <2>5. /\ v \in Walks /\ v.referee = w.referee /\ v.referrer = w.referrer /\ v.cursor = y
        /\ v.steps = w.steps + 1 /\ v.late = w.late
    BY <1>4 DEF Walks
  <2> HIDE DEF v
  <2>6. WalkRight(w, Chain)
    BY <1>2, <1>3 DEF ReferralInv
  <2>7. ASSUME NEW V \in SUBSET People, PassedBy(w, V, Chain) PROVE PassedBy(v, V \cup {x}, Chain)
    <3>1. IsFiniteSet(V)
      BY ReferralAssumption, FS_Subset
    <3>2. y \in V \cup {x} \/ Cardinality(V \cup {x}) = v.steps
      <4>1. CASE x \in V
        BY <2>1, <2>3, <2>7, <4>1 DEF PassedBy
      <4>2. CASE x \notin V
        <5>1. Cardinality(V) = w.steps
          BY <2>1, <2>7, <4>2 DEF PassedBy
        <5>2. Cardinality(V \cup {x}) = Cardinality(V) + 1
          BY <3>1, <4>2, FS_AddElement
        <5> QED
          BY <2>5, <5>1, <5>2
      <4> QED
        BY <4>1, <4>2
    <3>3. ASSUME NEW S \in SUBSET People, w.referrer \in S, ClosedBut(S, w.referee, Chain)
          PROVE  V \cup {x} \subseteq S /\ y \in S
      <4>1. V \subseteq S /\ x \in S
        BY <2>1, <2>7, <3>3 DEF PassedBy
      <4> QED
        BY <1>6, <2>1, <2>3, <3>3, <4>1 DEF ClosedBut
    <3>4. x # w.referee /\ w.referee \notin V
      BY <1>6, <2>1, <2>7 DEF PassedBy
    <3>5. /\ v.referrer \in V \cup {x} \cup {v.cursor}
          /\ \A q \in V \cup {x} : Chain[q] \in V \cup {x} \cup {v.cursor}
      BY <2>1, <2>3, <2>5, <2>7 DEF PassedBy
    <3> QED
      BY <2>5, <3>2, <3>3, <3>4, <3>5 DEF PassedBy
  <2>8. WalkRight(v, Chain)
    <3>1. CASE w.late
      BY <2>5, <3>1 DEF WalkRight
    <3>2. CASE ~w.late
      <4>1. PICK V \in SUBSET People : PassedBy(w, V, Chain)
        BY <2>6, <3>2 DEF WalkRight
      <4>2. V \cup {x} \in SUBSET People /\ PassedBy(v, V \cup {x}, Chain)
        BY <2>7, <4>1
      <4> QED
        BY <4>2 DEF WalkRight
    <3> QED
      BY <3>1, <3>2
  <2> QED
    BY <1>3, <2>4, <2>5, <2>8, WalkingInv
<1> QED
  BY <1>5, <1>6

(* The new referral closes a loop only behind the back of its walk: a walk *)
(* that saw the whole chain was led past every member of the loop, and     *)
(* either it reached the referee, or went round in an older loop, or ran   *)
(* out of steps in a longer one.                                           *)
LEMMA ClosingNeedsOverlap ==
  ASSUME ReferralInv, NEW w \in Walks, WalkRight(w, Chain), WalkOver(w), ~w.late,
         w.referee \notin Attributed,
         NEW S \in SUBSET (Attributed \cup {w.referee}), w.referee \in S, w.referrer \in S,
         ClosedBut(S, w.referee, Chain), Cardinality(S) <= Depth
  PROVE  S \cap overlapped # {}
<1>1. ReferralTypeOK
  BY DEF ReferralInv
<1>2. S \subseteq People /\ IsFiniteSet(S)
  <2>1. S \subseteq People
    BY <1>1, ReferralTypes DEF Walks
  <2> QED
    BY <2>1, ReferralAssumption, FS_Subset
<1>3. PICK V \in SUBSET People : PassedBy(w, V, Chain)
  BY DEF WalkRight
<1>4. V \subseteq S /\ w.cursor \in S /\ w.referee \notin V
  BY <1>2, <1>3 DEF PassedBy
<1>5. w.steps = Depth
  BY <1>2, <1>4, ReferralAssumption DEF WalkOver
<1>6. IsFiniteSet(V) /\ Cardinality(V) \in Nat /\ Cardinality(S) \in Nat
  BY <1>2, <1>4, FS_Subset, FS_CardinalityType
<1>7. Cardinality(V) <= Cardinality(S)
  BY <1>2, <1>4, FS_Subset
<1>8. CASE w.cursor \in V
  <2>1. V \subseteq Attributed /\ \A q \in V : Chain[q] \in V
    BY <1>1, <1>3, <1>8, ReferralTypes DEF PassedBy
  <2>2. Cyclic(V)
    BY <1>1, <1>8, <2>1, ReferralTypes DEF Cyclic
  <2>3. V \cap overlapped # {}
    BY <1>6, <1>7, <2>1, <2>2, ReferralAssumption DEF ReferralInv, CycleNeedsOverlap
  <2> QED
    BY <1>4, <2>3
<1>9. CASE w.cursor \notin V
  <2>1. Cardinality(V) = Depth
    BY <1>3, <1>5, <1>9 DEF PassedBy
  <2>2. V \subseteq S \ {w.referee} /\ IsFiniteSet(S \ {w.referee})
        /\ Cardinality(S \ {w.referee}) = Cardinality(S) - 1
    BY <1>2, <1>4, FS_RemoveElement
  <2>3. Cardinality(V) <= Cardinality(S \ {w.referee})
    BY <2>2, FS_Subset
  <2> QED
    BY <1>6, <2>1, <2>2, <2>3, ReferralAssumption
<1> QED
  BY <1>8, <1>9

LEMMA AttributeInv ==
  ASSUME ReferralInv, NEW c \in Claims, Attribute(c)
  PROVE  ReferralInv'
<1>1. ReferralTypeOK
  BY DEF ReferralInv
<1>2. PICK w \in Walks : w = claim[c] /\ w # None
  BY <1>1 DEF ReferralTypeOK, Attribute
<1>3. WalkRight(w, Chain) /\ WalkOver(w)
  BY <1>2 DEF ReferralInv, Attribute
<1>4. PICK p \in People : p = w.referee
  BY <1>2 DEF Walks
<1>5. PICK r \in People : r = w.referrer
  BY <1>2 DEF Walks
<1>6. CASE p \in Attributed
  <2>1. UNCHANGED <<attribution, closing, overlapped>>
    BY <1>2, <1>4, <1>6 DEF Attribute
  <2>2. claim' = [claim EXCEPT ![c] = None]
    BY <1>1, <1>2, <1>4, <1>6 DEF Attribute, ReferralTypeOK
  <2> QED
    BY <2>1, <2>2, WalkingInv
<1>7. CASE p \notin Attributed
  <2> DEFINE row == [referrer |-> r, state |-> "ATTRIBUTED", deal |-> None]
  <2>1. /\ attribution' = [attribution EXCEPT ![p] = row]
        /\ overlapped' = IF w.late THEN overlapped \cup {p} ELSE overlapped
        /\ claim' = [d \in Claims |-> IF d = c THEN None
                                      ELSE IF claim[d] # None THEN [claim[d] EXCEPT !.late = TRUE]
                                      ELSE claim[d]]
        /\ closing' = closing
    BY <1>2, <1>4, <1>5, <1>7 DEF Attribute
  <2>3. /\ row \in Referred
        /\ row.referrer = r /\ row.state = "ATTRIBUTED" /\ row.deal = None
    BY DEF Referred
  <2> HIDE DEF row
  <2>2. /\ attribution'[p] = row /\ row # None
        /\ \A q \in People \ {p} : attribution'[q] = attribution[q]
    BY <1>1, <2>1, <2>3, ReferralAssumption DEF ReferralTypeOK
  <2>4. ASSUME NEW d \in Claims
        PROVE  /\ claim'[d] \in Walks \cup {None}
               /\ claim'[d] # None => claim'[d].late
    <3>1. CASE d = c \/ claim[d] = None
      BY <2>1, <3>1
    <3>2. CASE d # c /\ claim[d] # None
      <4>1. claim[d] \in Walks /\ claim'[d] = [claim[d] EXCEPT !.late = TRUE]
        BY <1>1, <2>1, <3>2 DEF ReferralTypeOK
      <4> QED
        BY <4>1 DEF Walks
    <3> QED
      BY <3>1, <3>2
  <2>5. ReferralTypeOK'
    <3>1. claim' \in [Claims -> Walks \cup {None}]
      BY <2>1, <2>4
    <3>2. overlapped' \subseteq People
      BY <1>1, <2>1 DEF ReferralTypeOK
    <3>3. attribution' \in [People -> Referred \cup {None}]
      BY <1>1, <2>1, <2>3 DEF ReferralTypeOK
    <3> QED
      BY <1>1, <2>1, <3>1, <3>2, <3>3 DEF ReferralTypeOK
  <2>6. \A d \in Claims : claim'[d] # None => WalkRight(claim'[d], Chain')
    BY <2>4 DEF WalkRight
  <2>7. Attributed' = Attributed \cup {p}
    BY <2>2 DEF Attributed
  <2>8. ReferrerOf(p)' = r /\ \A q \in Attributed : ReferrerOf(q)' = ReferrerOf(q)
    BY <1>1, <1>7, <2>2, <2>3, <2>7, ReferralTypes DEF ReferrerOf
  <2>9. CycleNeedsOverlap'
    <3> SUFFICES ASSUME NEW S \in SUBSET (Attributed \cup {p}), Cyclic(S)', Cardinality(S) <= Depth
                 PROVE  S \cap overlapped' # {}
      BY <2>7 DEF CycleNeedsOverlap
    <3>1. CASE p \notin S
      <4>1. S \subseteq Attributed /\ Cyclic(S)
        BY <2>8, <3>1 DEF Cyclic
      <4>2. S \cap overlapped # {}
        BY <4>1 DEF ReferralInv, CycleNeedsOverlap
      <4> QED
        BY <2>1, <4>2
    <3>2. CASE p \in S /\ w.late
      BY <2>1, <3>2
    <3>3. CASE p \in S /\ ~w.late
      <4>1. r \in S /\ \A q \in S \ {p} : Chain[q] \in S
        BY <1>1, <2>8, <3>3, ReferralTypes DEF Cyclic
      <4>2. S \cap overlapped # {}
        BY <1>2, <1>3, <1>4, <1>5, <1>7, <3>3, <4>1, ClosingNeedsOverlap DEF ClosedBut
      <4> QED
        BY <2>1, <4>2
    <3> QED
      BY <3>1, <3>2, <3>3
  <2>10. QualifiedOnRealActivity'
    <3> SUFFICES ASSUME NEW q \in Attributed', attribution'[q].state = "QUALIFIED"
                 PROVE  LET d == attribution'[q].deal IN
                        /\ d \in ReferralDeals
                        /\ closing'[d].fate = "sound"
                        /\ q \in closing'[d].seats
                        /\ ReferrerOf(q)' \notin closing'[d].seats
                        /\ \A s \in Attributed' \ {q} : attribution'[s].deal # d
      BY DEF QualifiedOnRealActivity, Eligible
    <3>1. q \in Attributed /\ attribution'[q] = attribution[q]
      BY <1>1, <2>2, <2>3, <2>7, ReferralTypes
    <3>2. PICK d \in ReferralDeals : d = attribution[q].deal
      BY <3>1 DEF ReferralInv, QualifiedOnRealActivity
    <3>3. \A s \in Attributed' \ {q} : attribution'[s].deal # d
      <4>1. d # None
        BY ReferralAssumption
      <4> QED
        BY <1>1, <2>2, <2>3, <2>7, <3>1, <3>2, <4>1, ReferralTypes
           DEF ReferralInv, QualifiedOnRealActivity
    <3> QED
      <4>1. /\ closing[d].fate = "sound" /\ q \in closing[d].seats
            /\ ReferrerOf(q) \notin closing[d].seats
        BY <3>1, <3>2 DEF ReferralInv, QualifiedOnRealActivity, Eligible
      <4>2. ReferrerOf(q)' = ReferrerOf(q) /\ closing' = closing /\ attribution'[q].deal = d
        BY <2>1, <2>8, <3>1, <3>2
      <4> QED
        BY <3>2, <3>3, <4>1, <4>2
  <2> QED
    BY <2>5, <2>6, <2>9, <2>10 DEF ReferralInv
<1> QED
  BY <1>6, <1>7

(* A deal a referral qualified on is sound and never ends again.           *)
LEMMA DealEndsInv ==
  ASSUME ReferralInv, NEW d \in ReferralDeals, NEW S \in SUBSET People,
         NEW f \in Fates \ {"open"}, DealEnds(d, S, f)
  PROVE  ReferralInv'
<1>1. ReferralTypeOK
  BY DEF ReferralInv
<1>2. /\ closing' = [closing EXCEPT ![d] = [seats |-> S, fate |-> f]]
      /\ UNCHANGED <<attribution, claim, overlapped>>
      /\ closing[d].fate # "sound"
  BY DEF DealEnds
<1>3. ReferralTypeOK'
  BY <1>1, <1>2 DEF ReferralTypeOK
<1>4. SameChain
  BY <1>2 DEF SameChain, Chain, Attributed, ReferrerOf
<1>5. \A e \in ReferralDeals : closing[e].fate = "sound" => closing'[e] = closing[e]
  BY <1>1, <1>2 DEF ReferralTypeOK
<1>6. CycleNeedsOverlap'
  BY <1>1, <1>2, <1>3, <1>4, CyclesStand DEF ReferralInv
<1>7. QualifiedOnRealActivity'
  BY <1>2, <1>5 DEF ReferralInv, QualifiedOnRealActivity, Eligible, Attributed, ReferrerOf
<1> QED
  BY <1>2, <1>3, <1>4, <1>6, <1>7 DEF ReferralInv, SameChain

LEMMA QualifyInv ==
  ASSUME ReferralInv, NEW p \in People, NEW d \in ReferralDeals, QualifyReferral(p, d)
  PROVE  ReferralInv'
<1>1. ReferralTypeOK
  BY DEF ReferralInv
<1>2. p \in Attributed /\ p \in closing[d].seats /\ Eligible(d)
      /\ UNCHANGED <<claim, closing, overlapped>>
  BY DEF QualifyReferral
<1>3. attribution[p] \in Referred
  BY <1>1, <1>2 DEF ReferralTypeOK, Attributed
<1>4. PICK row \in Referred :
        /\ row.state \in {"QUALIFIED", "DISQUALIFIED"}
        /\ attribution' = [attribution EXCEPT ![p] = row]
        /\ row.referrer = attribution[p].referrer
        /\ row.state = "QUALIFIED" =>
             row.deal = d /\ TakenBy(d) = {} /\ ~SelfDealing(p, d)
        /\ row.state = "DISQUALIFIED" => row.deal = attribution[p].deal
  <2>1. CASE attribution' = [attribution EXCEPT ![p].state = "DISQUALIFIED"]
    <3> DEFINE row == [attribution[p] EXCEPT !.state = "DISQUALIFIED"]
    <3>1. /\ row \in Referred
          /\ row.referrer = attribution[p].referrer /\ row.state = "DISQUALIFIED"
          /\ row.deal = attribution[p].deal
      BY <1>3 DEF Referred
    <3>2. attribution' = [attribution EXCEPT ![p] = row]
      BY <2>1
    <3> HIDE DEF row
    <3> QED
      BY <3>1, <3>2
  <2>2. CASE /\ attribution' = [attribution EXCEPT ![p].state = "QUALIFIED", ![p].deal = d]
             /\ TakenBy(d) = {} /\ ~SelfDealing(p, d)
    <3> DEFINE row == [[attribution[p] EXCEPT !.state = "QUALIFIED"] EXCEPT !.deal = d]
    <3>1. /\ row \in Referred
          /\ row.referrer = attribution[p].referrer /\ row.state = "QUALIFIED"
          /\ row.deal = d
      BY <1>3 DEF Referred
    <3>2. attribution' = [attribution EXCEPT ![p] = row]
      BY <1>1, <2>2 DEF ReferralTypeOK
    <3> HIDE DEF row
    <3> QED
      BY <2>2, <3>1, <3>2
  <2> QED
    BY <2>1, <2>2 DEF QualifyReferral
<1>5. /\ attribution'[p] = row /\ row # None
      /\ \A q \in People \ {p} : attribution'[q] = attribution[q]
  <2>1. row # None
    BY ReferralAssumption
  <2> QED
    BY <1>1, <1>4, <2>1 DEF ReferralTypeOK
<1>6. ReferralTypeOK'
  BY <1>1, <1>2, <1>4 DEF ReferralTypeOK
<1>7. Attributed' = Attributed
  BY <1>2, <1>5 DEF Attributed
<1>8. \A q \in People : ReferrerOf(q)' = ReferrerOf(q)
  BY <1>2, <1>4, <1>5, <1>7 DEF ReferrerOf
<1>9. SameChain
  BY <1>7, <1>8 DEF SameChain, Chain
<1>10. CycleNeedsOverlap'
  BY <1>1, <1>2, <1>6, <1>9, CyclesStand DEF ReferralInv
<1>11. QualifiedOnRealActivity'
  <2> SUFFICES ASSUME NEW q \in Attributed, attribution'[q].state = "QUALIFIED"
               PROVE  LET e == attribution'[q].deal IN
                      /\ e \in ReferralDeals
                      /\ Eligible(e)
                      /\ q \in closing[e].seats
                      /\ ReferrerOf(q) \notin closing[e].seats
                      /\ \A s \in Attributed \ {q} : attribution'[s].deal # e
    BY <1>1, <1>2, <1>7, <1>8, ReferralTypes DEF QualifiedOnRealActivity, Eligible
  <2>1. Attributed \subseteq People
    BY <1>1, ReferralTypes
  <2>2. CASE q = p
    <3>1. row.state = "QUALIFIED" /\ attribution'[q].deal = d
          /\ TakenBy(d) = {} /\ ~SelfDealing(p, d)
      BY <1>4, <1>5, <2>2
    <3> QED
      BY <1>2, <1>5, <2>1, <2>2, <3>1 DEF TakenBy, SelfDealing
  <2>3. CASE q # p
    <3>1. attribution'[q] = attribution[q]
      BY <1>5, <2>1, <2>3
    <3>2. PICK e \in ReferralDeals : e = attribution[q].deal
      BY <3>1 DEF ReferralInv, QualifiedOnRealActivity
    <3>3. attribution'[p].deal # e
      <4>1. attribution[p].deal # e
        BY <1>2, <2>3, <3>1, <3>2 DEF ReferralInv, QualifiedOnRealActivity
      <4>2. row.state = "QUALIFIED" => e # d
        BY <1>4, <3>2 DEF TakenBy
      <4> QED
        BY <1>4, <1>5, <4>1, <4>2
    <3>4. \A s \in Attributed \ {q} : attribution'[s].deal # e
      BY <1>5, <2>1, <3>1, <3>2, <3>3 DEF ReferralInv, QualifiedOnRealActivity
    <3> QED
      BY <3>1, <3>2, <3>4 DEF ReferralInv, QualifiedOnRealActivity
  <2> QED
    BY <2>2, <2>3
<1> QED
  BY <1>2, <1>6, <1>9, <1>10, <1>11 DEF ReferralInv, SameChain

LEMMA ReferralStepInv == ReferralInv /\ [ReferralNext]_referralVars => ReferralInv'
<1> SUFFICES ASSUME ReferralInv, [ReferralNext]_referralVars PROVE ReferralInv'
  OBVIOUS
<1>1. CASE UNCHANGED referralVars
  BY <1>1 DEF referralVars, ReferralInv, ReferralTypeOK, Chain, ReferrerOf, Attributed,
              CycleNeedsOverlap, Cyclic, QualifiedOnRealActivity, Eligible
<1>2. ASSUME NEW c \in Claims, NEW p \in People, NEW r \in People, BeginClaim(c, p, r)
      PROVE  ReferralInv'
  BY <1>2, BeginClaimInv
<1>3. ASSUME NEW c \in Claims, WalkStep(c) PROVE ReferralInv'
  BY <1>3, WalkStepInv
<1>4. ASSUME NEW c \in Claims, Attribute(c) PROVE ReferralInv'
  BY <1>4, AttributeInv
<1>5. ASSUME NEW d \in ReferralDeals, NEW S \in SUBSET People, NEW f \in Fates \ {"open"},
             DealEnds(d, S, f)
      PROVE  ReferralInv'
  BY <1>5, DealEndsInv
<1>6. ASSUME NEW d \in ReferralDeals, NEW p \in People, QualifyReferral(p, d)
      PROVE  ReferralInv'
  BY <1>6, QualifyInv
<1> QED
  BY <1>1, <1>2, <1>3, <1>4, <1>5, <1>6 DEF ReferralNext

LEMMA ReferralInvariant == ReferralSpec => []ReferralInv
  BY ReferralInitInv, ReferralStepInv, PTL DEF ReferralSpec

(* The types of referrals, claims and the deals they stand on.              *)
THEOREM ReferralTypesHold == ReferralSpec => []ReferralTypeOK
<1>1. ReferralInv => ReferralTypeOK
  BY DEF ReferralInv
<1> QED
  BY <1>1, ReferralInvariant, PTL

(* ReferralsAreReal in every reachable state, for any finite number of     *)
(* people and any number of claims and deals: a loop of referrers no       *)
(* longer than a walk needs two overlapping claims, and a qualified        *)
(* referral stands on a sound deal of its own with a third person          *)
(* (wouldCycle, attributeReferral, qualifyReferral).                       *)
THEOREM ReferralsAreRealHolds == ReferralSpec => []ReferralsAreReal
<1>1. ReferralInv => ReferralsAreReal
  BY DEF ReferralInv, ReferralsAreReal
<1> QED
  BY <1>1, ReferralInvariant, PTL
=============================================================================
