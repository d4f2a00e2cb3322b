---------------------------- MODULE MCValueLedger ----------------------------
(* A small instance of ValueLedger: two people, two deals, two amounts.    *)
EXTENDS ValueLedger, TLC

CONSTANTS u1, u2, d1, d2

MCUsers == {u1, u2}
MCDeals == {d1, d2}
MCFee   == d1 :> 1 @@ d2 :> 0

(* The policies may hold a person before a lock and a deal before a release.*)
MCVerdicts ==
    [p \in Points |-> IF p \in {"VALUE_LOCK", "ESCROW_RELEASE"} THEN {"ALLOW", "HOLD"}
                      ELSE {"ALLOW"}]

UserSymmetry == Permutations(MCUsers)
=============================================================================
