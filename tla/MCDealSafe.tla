----------------------------- MODULE MCDealSafe -----------------------------
(* Small instances of DealSafe: one deal with every command, and two deals *)
(* with what the screens can call.                                         *)
EXTENDS DealSafe, Functions, TLC

CONSTANTS u1, u2, u3, d1, d2, o1, o2

MCUsers     == {u1, u2}
ThreeUsers  == {u1, u2, u3}
MCOperators == {o1, o2}
OneDeal     == {d1}
TwoDeals    == {d1, d2}
OneAmount   == d1 :> 2
TwoAmounts  == d1 :> 1 @@ d2 :> 1
OneFee      == [d \in Deals |-> 1]
NoFee       == [d \in Deals |-> 0]

(* Every policy may hold; or only the one asked before a join.             *)
MayHold     == [p \in Points |-> {"ALLOW", "HOLD"}]
MayHoldJoin == [p \in Points |->
                   IF p = "VALUE_LOCK" THEN {"ALLOW", "HOLD"} ELSE {"ALLOW"}]

People == Permutations(Users) \cup Permutations(Operators)
=============================================================================
