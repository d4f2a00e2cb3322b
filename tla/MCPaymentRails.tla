--------------------------- MODULE MCPaymentRails ---------------------------
(* Small instances of PaymentRails: one deal, one or two people, two token *)
(* payments that may be live at once, and a rupee payment.                 *)
EXTENDS PaymentRails, TLC

CONSTANTS u1, u2, d1, i1, i2, i3, h1, h2

OneUser   == {u1}
TwoUsers  == {u1, u2}
MCDeals   == {d1}
MCIntents == {i1, i2, i3}
MCRefs    == {h1, h2}
MCFee     == [d \in Deals |-> 0]
MayOnlyAllow == [p \in Points |-> {"ALLOW"}]

Term(rail, direction) == [deal |-> d1, rail |-> rail, direction |-> direction, amount |-> 1]
MCTerms ==
    i1 :> Term("USDT", "COLLECT") @@ i2 :> Term("USDT", "PAYOUT")
    @@ i3 :> Term("INR", "COLLECT")

RailSymmetry == Permutations(Users) \cup Permutations(MCRefs)
=============================================================================
