----------------------------- MODULE Referrals ------------------------------
(* Who brought whom.  A claim walks the referrer's chain upward, one         *)
(* statement at a time and without a lock, and then inserts the attribution *)
(* that the UNIQUE referee decides; a completed deal later qualifies it.    *)
EXTENDS Naturals, FiniteSets

CONSTANTS People, ReferralDeals, Claims, Depth, None

(* Rows of referral_attribution.                                            *)
Referred == [referrer : People, state : {"ATTRIBUTED", "QUALIFIED", "DISQUALIFIED"},
             deal : ReferralDeals \cup {None}]

ASSUME ReferralAssumption ==
  /\ None \notin People \cup ReferralDeals \cup Referred
  /\ IsFiniteSet(People)
  /\ Depth \in Nat

VARIABLES attribution,  \* referee -> referral_attribution row, or None
          claim,        \* the claims in progress
          closing,      \* deal -> the seats it ended with and how it stands
          overlapped    \* ghost: referees attributed while another claim committed

referralVars == <<attribution, claim, closing, overlapped>>

Attributed == {p \in People : attribution[p] # None}
ReferrerOf(p) == IF p \in Attributed THEN attribution[p].referrer ELSE None
Walks == [referee : People, referrer : People, cursor : People \cup {None},
          steps : 0..Depth, late : BOOLEAN]

(* Released without a dispute between verified people, or what keeps the    *)
(* deal from that: not over, refunded, disputed, or somebody unverified.    *)
Fates == {"open", "refunded", "disputed", "unverified", "sound"}

ReferralInit ==
  /\ attribution = [p \in People |-> None]
  /\ claim = [c \in Claims |-> None]
  /\ closing = [d \in ReferralDeals |-> [seats |-> {}, fate |-> "open"]]
  /\ overlapped = {}

-----------------------------------------------------------------------------
(* The code names its owner; nobody refers themselves.                      *)
BeginClaim(c, p, r) ==
  /\ claim[c] = None
  /\ p # r
  /\ claim' = [claim EXCEPT ![c] = [referee |-> p, referrer |-> r, cursor |-> r,
                                    steps |-> 0, late |-> FALSE]]
  /\ UNCHANGED <<attribution, closing, overlapped>>

WalkOver(w) == w.cursor = None \/ w.steps = Depth

(* The walk goes on past the referee.                                       *)
MutWalkPast(c) ==
  LET w == claim[c] IN
  /\ w # None
  /\ ~WalkOver(w)
  /\ claim' = [claim EXCEPT ![c].cursor = ReferrerOf(w.cursor), ![c].steps = @ + 1]
  /\ UNCHANGED <<attribution, closing, overlapped>>

(* One turn of the loop: REFERRAL_CYCLE, or one statement that sees what is *)
(* committed by now.                                                        *)
WalkStep(c) ==
  LET w == claim[c] IN
  /\ w # None
  /\ ~WalkOver(w)
  /\ claim' = [claim EXCEPT ![c] =
       IF w.cursor = w.referee THEN None
       ELSE [w EXCEPT !.cursor = ReferrerOf(w.cursor), !.steps = @ + 1]]
  /\ UNCHANGED <<attribution, closing, overlapped>>

(* INSERT ... ON CONFLICT (referee_id) DO NOTHING and COMMIT.  The loser of *)
(* two claims for one account is refused and leaves everything as it is.    *)
Attribute(c) ==
  LET w == claim[c]
      wins == w.referee \notin Attributed
  IN /\ w # None
     /\ WalkOver(w)
     /\ attribution' = IF wins THEN [attribution EXCEPT ![w.referee] =
                                 [referrer |-> w.referrer, state |-> "ATTRIBUTED", deal |-> None]]
                       ELSE attribution
     /\ overlapped' = IF wins /\ w.late THEN overlapped \cup {w.referee} ELSE overlapped
     /\ claim' = [d \in Claims |->
                    IF d = c THEN None
                    ELSE IF wins /\ claim[d] # None THEN [claim[d] EXCEPT !.late = TRUE]
                    ELSE claim[d]]
     /\ UNCHANGED closing

-----------------------------------------------------------------------------
(* The deal between two people ends; they may be verified afterwards.       *)
DealEnds(d, seats, fate) ==
  /\ Cardinality(seats) = 2
  /\ \/ closing[d].fate = "open"
     \/ closing[d] = [seats |-> seats, fate |-> "unverified"] /\ fate = "sound"
  /\ closing' = [closing EXCEPT ![d] = [seats |-> seats, fate |-> fate]]
  /\ UNCHANGED <<attribution, claim, overlapped>>

(* COMPLETED with its value RELEASED, no case, both seats verified.         *)
Eligible(d) == closing[d].fate = "sound"

(* A referral qualifies on this deal; the unique index on the deal makes    *)
(* the statement of a second one throw.                                     *)
TakenBy(d) == {p \in Attributed : attribution[p].deal = d}

SelfDealing(p, d) == ReferrerOf(p) \in closing[d].seats

(* qualifyReferral takes whichever ATTRIBUTED seat the query returns first. *)
QualifyReferral(p, d) ==
  /\ Eligible(d)
  /\ p \in closing[d].seats \cap Attributed
  /\ attribution[p].state = "ATTRIBUTED"
  /\ \/ /\ SelfDealing(p, d)
        /\ attribution' = [attribution EXCEPT ![p].state = "DISQUALIFIED"]
     \/ /\ ~SelfDealing(p, d)
        /\ TakenBy(d) = {}
        /\ attribution' = [attribution EXCEPT ![p].state = "QUALIFIED", ![p].deal = d]
  /\ UNCHANGED <<claim, closing, overlapped>>

ReferralNext ==
  \/ \E c \in Claims : \/ \E p, r \in People : BeginClaim(c, p, r)
                       \/ WalkStep(c)
                       \/ Attribute(c)
  \/ \E d \in ReferralDeals : \/ \E S \in SUBSET People, f \in Fates \ {"open"} : DealEnds(d, S, f)
                              \/ \E p \in People : QualifyReferral(p, d)

ReferralSpec == ReferralInit /\ [][ReferralNext]_referralVars

-----------------------------------------------------------------------------
(* Types of the attributions, the claims in progress and the deals.         *)
ReferralTypeOK ==
  /\ attribution \in [People -> Referred \cup {None}]
  /\ claim \in [Claims -> Walks \cup {None}]
  /\ closing \in [ReferralDeals -> [seats : SUBSET People, fate : Fates]]
  /\ overlapped \subseteq People

(* A set that the chain of referrers never leaves.                          *)
Cyclic(S) == S # {} /\ \A p \in S : ReferrerOf(p) \in S

(* A cycle of referrers that a walk can see to its end arises only from     *)
(* claims that overlapped: every closed loop of at most Depth people holds  *)
(* somebody whose walk was under way while another claim committed.  One    *)
(* claim at a time never closes one, whatever the order.                    *)
CycleNeedsOverlap ==
  \A S \in SUBSET Attributed :
    Cyclic(S) /\ Cardinality(S) <= Depth => S \cap overlapped # {}

(* A qualified referral stands on a released, undisputed deal of its own in *)
(* which the referee sat with somebody other than the referrer              *)
(* (qualifyReferral).                                                       *)
QualifiedOnRealActivity ==
  \A p \in Attributed : attribution[p].state = "QUALIFIED" =>
    LET d == attribution[p].deal IN
    /\ d \in ReferralDeals
    /\ Eligible(d)
    /\ p \in closing[d].seats
    /\ ReferrerOf(p) \notin closing[d].seats
    /\ \A q \in Attributed \ {p} : attribution[q].deal # d

(* What a referral discount rests on: a chain of referrers that closes only *)
(* when two claims overlapped, or further than a walk goes, and a deal that *)
(* was really done with a third person (wouldCycle, attributeReferral,      *)
(* qualifyReferral).                                                        *)
ReferralsAreReal == CycleNeedsOverlap /\ QualifiedOnRealActivity
=============================================================================
