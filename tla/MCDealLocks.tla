----------------------------- MODULE MCDealLocks -----------------------------
(* Deals as the screens can drive them, and, in behaviours of their own,    *)
(* the row locks of two overlapping transactions on two deals between the   *)
(* same two people, who sell to each other.                                 *)
EXTENDS MCDealSafe, RowLocks

CONSTANTS t1, t2, v1, v2

VARIABLE turn   \* what this behaviour is about

MCSupplier == d1 :> v1 @@ d2 :> v2
MCPayee    == d1 :> v2 @@ d2 :> v1

(* Account ids in one order, and the other way round.                       *)
MCAscending ==
  Party(v1) :> 1 @@ Party(v2) :> 2 @@ Escrow(d1) :> 3 @@ Escrow(d2) :> 4
  @@ Revenue :> 5 @@ Wallet :> 6 @@ Expense :> 7
MCRanks == {MCAscending, [a \in DOMAIN MCAscending |-> 8 - MCAscending[a]]}

DealLocksInit ==
  /\ turn \in {"deals", "locks"}
  /\ turn # "locks" => rank = MCAscending
  /\ DealInit /\ RowInit

DealLocksNext ==
  /\ UNCHANGED turn
  /\ \/ turn = "deals" /\ DealNext /\ UNCHANGED rowVars
     \/ turn = "locks" /\ RowNext /\ UNCHANGED dealSafeVars

DealLocksSpec == DealLocksInit /\ [][DealLocksNext]_<<turn, dealSafeVars, rowVars>>

(* Types of both.                                                           *)
DealLocksTypeOK == DealTypeOK /\ RowTypeOK

DealLocksSymmetry == People \cup Permutations({t1, t2})
=============================================================================
