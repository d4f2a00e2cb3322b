------------------------------ MODULE Pricing -------------------------------
(* The price of a quote: the fee of a versioned tariff, the discounts a     *)
(* customer is entitled to at that moment, and the reward they choose to    *)
(* spend.  A quote is priced and frozen in one transaction, which holds the *)
(* row of the reward from the moment it is looked up.                       *)
EXTENDS Integers

CONSTANTS Customers,
          Rewards,      \* reward grants
          OwnerOf,      \* reward -> customer
          Benefit,      \* reward -> its discount and its largest benefit
          Tariffs,      \* terms of fee policies
          Sums,         \* amounts quoted
          PremiumRates, \* discounts of premium grants
          ReferralRate, \* REFERRAL_DISCOUNT_BPS
          Den,          \* BPS_DEN
          Quotings,     \* transactions that price a quote
          Quotes,       \* quote rows, a bounded pool
          Naught

(* The CHECKs of fee_policy, premium_grant and reward_campaign.             *)
TariffRows == [bps : Nat, fixed : Nat, min : Nat, max : Nat, cap : Nat,
               bearer : {"PAYER", "PAYEE"}]

ASSUME PricingAssumption ==
  /\ Den \in Nat \ {0}
  /\ Sums \subseteq Nat
  /\ Tariffs \subseteq TariffRows
  /\ \A t \in Tariffs : t.bps <= Den /\ t.cap <= Den /\ t.min <= t.max
  /\ PremiumRates \subseteq 0..Den
  /\ ReferralRate \in 0..Den
  /\ OwnerOf \in [Rewards -> Customers]
  /\ Benefit \in [Rewards -> [bps : 0..Den, max : Nat]]
  /\ Naught \notin Rewards

VARIABLES reward,    \* reward_grant.state, and whether it has run out
          premium,   \* the best live premium discount of each customer
          referred,  \* customers with a QUALIFIED referral
          pricing,   \* what each transaction looked up
          frozen     \* quote_fee_snapshot

pricingVars == <<reward, premium, referred, pricing, frozen>>

-----------------------------------------------------------------------------
(* calculateFee.                                                            *)

(* Truncating, in minor units.                                              *)
ApplyBps(amount, bps) == IF amount <= 0 \/ bps <= 0 THEN 0 ELSE (amount * bps) \div Den

Lesser(x, y) == IF x < y THEN x ELSE y
Clamp(x, low, high) == IF x < low THEN low ELSE IF x > high THEN high ELSE x

BaseFee(amount, t) == ApplyBps(amount, t.bps) + t.fixed

(* Each discount is taken off the base, none off what another has left.     *)
Discounts(base, e) ==
  [premium |-> ApplyBps(base, e.premium), referral |-> ApplyBps(base, e.referral),
   reward |-> Lesser(ApplyBps(base, e.reward), e.rewardMax)]

Requested(x) == x.premium + x.referral + x.reward

(* The band holds before the discount and is not looked at again.           *)
MutFinalFeeBandFirst(base, t, requested) ==
  LET allowed == ApplyBps(base, t.cap)
      left == Clamp(base, t.min, t.max) - Lesser(requested, allowed)
  IN IF left > 0 THEN left ELSE 0

(* The tariff caps the total, and its band holds after the discount.        *)
FinalFee(base, t, requested) ==
  LET allowed == ApplyBps(base, t.cap)
      left == base - Lesser(requested, allowed)
  IN Clamp(IF left > 0 THEN left ELSE 0, t.min, t.max)

CalculateFee(amount, t, e) ==
  LET base == BaseFee(amount, t)
      x == Discounts(base, e)
      fee == FinalFee(base, t, Requested(x))
      onPayer == t.bearer = "PAYER"
  IN [base |-> base, discounts |-> x, fee |-> fee,
      capped |-> Requested(x) - Lesser(Requested(x), ApplyBps(base, t.cap)),
      payerSends |-> IF onPayer THEN amount + fee ELSE amount,
      payeeReceives |-> IF onPayer THEN amount ELSE amount - fee]

(* AMOUNT_INVALID and NET_NOT_POSITIVE.                                     *)
Acceptable(amount, c) == amount > 0 /\ c.payerSends > 0 /\ c.payeeReceives > 0

NoEntitlement == [premium |-> 0, referral |-> 0, reward |-> 0, rewardMax |-> 0]

-----------------------------------------------------------------------------
PricingInit ==
  /\ reward = [g \in Rewards |-> [state |-> "GRANTED", lapsed |-> FALSE]]
  /\ premium = [u \in Customers |-> 0]
  /\ referred = {}
  /\ pricing = [t \in Quotings |-> Naught]
  /\ frozen = [q \in Quotes |-> Naught]

(* Grants, revocations and expiries leave the largest live discount, or 0.  *)
ChangePremium(u, bps) ==
  /\ premium[u] # bps
  /\ premium' = [premium EXCEPT ![u] = bps]
  /\ UNCHANGED <<reward, referred, pricing, frozen>>

ReferralQualifies(u) ==
  /\ u \notin referred
  /\ referred' = referred \cup {u}
  /\ UNCHANGED <<reward, premium, pricing, frozen>>

LapseReward(g) ==
  /\ ~reward[g].lapsed
  /\ reward' = [reward EXCEPT ![g].lapsed = TRUE]
  /\ UNCHANGED <<premium, referred, pricing, frozen>>

(* FOR UPDATE of the reward, if it is GRANTED, unexpired and the customer's.*)
Spendable(g, u) == reward[g].state = "GRANTED" /\ ~reward[g].lapsed /\ OwnerOf[g] = u
Held(g) == \E t \in Quotings : pricing[t] # Naught /\ pricing[t].reward = g

EntitlementsFor(u, g) ==
  [premium |-> premium[u],
   referral |-> IF u \in referred THEN ReferralRate ELSE 0,
   reward |-> IF g = Naught THEN 0 ELSE Benefit[g].bps,
   rewardMax |-> IF g = Naught THEN 0 ELSE Benefit[g].max]

(* priceQuote: the customer names a reward or none; one that is not theirs  *)
(* to spend is passed over.  A price that is not acceptable ends here.      *)
BeginQuote(t, u, amount, tariff, named) ==
  LET g == IF named # Naught /\ Spendable(named, u) THEN named ELSE Naught
      c == CalculateFee(amount, tariff, EntitlementsFor(u, g))
  IN /\ pricing[t] = Naught
     /\ named # Naught => ~Held(named)
     /\ Acceptable(amount, c)
     /\ pricing' = [pricing EXCEPT ![t] = [customer |-> u, amount |-> amount, tariff |-> tariff,
                                           reward |-> g, price |-> c]]
     /\ UNCHANGED <<reward, premium, referred, frozen>>

(* snapshotQuote: the snapshot, the redemption and COMMIT.  A redemption    *)
(* that finds the reward gone throws everything away.                       *)
FreezeQuote(t, q) ==
  LET x == pricing[t] IN
  /\ x # Naught
  /\ frozen[q] = Naught
  /\ x.reward # Naught => reward[x.reward].state = "GRANTED"
  /\ frozen' = [frozen EXCEPT ![q] = x]
  /\ reward' = IF x.reward = Naught THEN reward
               ELSE [reward EXCEPT ![x.reward].state = "REDEEMED"]
  /\ pricing' = [pricing EXCEPT ![t] = Naught]
  /\ UNCHANGED <<premium, referred>>

AbandonQuote(t) ==
  /\ pricing[t] # Naught
  /\ pricing' = [pricing EXCEPT ![t] = Naught]
  /\ UNCHANGED <<reward, premium, referred, frozen>>

PricingNext ==
  \/ \E u \in Customers : \/ \E b \in PremiumRates : ChangePremium(u, b)
                          \/ ReferralQualifies(u)
  \/ \E g \in Rewards : LapseReward(g)
  \/ \E t \in Quotings :
       \/ \E u \in Customers, amount \in Sums, tariff \in Tariffs, g \in Rewards \cup {Naught} :
            BeginQuote(t, u, amount, tariff, g)
       \/ \E q \in Quotes : FreezeQuote(t, q)
       \/ AbandonQuote(t)

PricingSpec == PricingInit /\ [][PricingNext]_pricingVars

-----------------------------------------------------------------------------
Prices == [base : Nat, discounts : [premium : Nat, referral : Nat, reward : Nat],
           fee : Nat, capped : Nat, payerSends : Nat, payeeReceives : Nat]
Priced == [customer : Customers, amount : Sums, tariff : Tariffs,
           reward : Rewards \cup {Naught}, price : Prices]

(* Types of the rewards, the entitlements and the frozen prices.            *)
PricingTypeOK ==
  /\ reward \in [Rewards -> [state : {"GRANTED", "REDEEMED"}, lapsed : BOOLEAN]]
  /\ premium \in [Customers -> 0..Den]
  /\ referred \subseteq Customers
  /\ pricing \in [Quotings -> Priced \cup {Naught}]
  /\ frozen \in [Quotes -> Priced \cup {Naught}]

(* A price within the terms of its tariff, for any discounts together: what *)
(* the payer sends and the payee does not receive is exactly the fee, the   *)
(* fee keeps to the band of the tariff and to its cap on discounts, is not  *)
(* more than a stranger would pay, and passes the CHECKs of the snapshot.   *)
WithinTerms(x) ==
  LET c == x.price
      t == x.tariff
  IN /\ c.payerSends - c.payeeReceives = c.fee
     /\ c.payeeReceives > 0
     /\ c.fee \in t.min..t.max
     /\ c.fee >= Lesser(t.max, c.base - ApplyBps(c.base, t.cap))
     /\ c.fee <= CalculateFee(x.amount, t, NoEntitlement).fee
     /\ Requested(c.discounts) <= c.base + c.capped

(* Every frozen quote is within the terms of its tariff, and a reward is    *)
(* worth a discount once: it is REDEEMED exactly when one quote, of its     *)
(* owner, carries it, however two quotes for it overlap (entitlementsFor,   *)
(* calculateFee, snapshotQuote).                                            *)
QuotesAreFair ==
  /\ \A q \in Quotes : frozen[q] # Naught => WithinTerms(frozen[q])
  /\ \A g \in Rewards :
       LET carriers == {q \in Quotes : frozen[q] # Naught /\ frozen[q].reward = g} IN
       /\ (reward[g].state = "REDEEMED") <=> (carriers # {})
       /\ \A q, r \in carriers : q = r /\ frozen[q].customer = OwnerOf[g]
=============================================================================
