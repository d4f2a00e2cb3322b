---------------------------- MODULE Verification ----------------------------
(* Identity verification: a person submits a case, somebody else with the   *)
(* reviewer's role decides it, an approval is good for a year, and the      *)
(* badge other services read (is_verified) is a cache of the decision.      *)
EXTENDS Naturals, FiniteSets

CONSTANTS VerificationCases, Members, NoMember

ASSUME VerificationAssumption == NoMember \notin Members

VARIABLES filed,   \* the verification_case rows
          badge    \* people shown as verified

verificationVars == <<filed, badge>>

OpenFor(u) == {x \in VerificationCases : filed[x].subject = u /\ filed[x].state = "SUBMITTED"}
NotFiled == [state |-> "none", subject |-> NoMember, decider |-> NoMember, lapsed |-> FALSE]

VerificationInit ==
  /\ filed = [x \in VerificationCases |-> NotFiled]
  /\ badge = {}

(* A second submission, at once or later, joins the case that is open.      *)
SubmitVerification(x, u) ==
  /\ filed[x] = NotFiled
  /\ OpenFor(u) = {}
  /\ filed' = [filed EXCEPT ![x].state = "SUBMITTED", ![x].subject = u]
  /\ UNCHANGED badge

(* A reviewer decides their own case.                                       *)
MutDecideOwn(x, r, decision) ==
  /\ filed[x].state = "SUBMITTED"
  /\ filed' = [filed EXCEPT ![x].state = decision, ![x].decider = r]
  /\ badge' = IF decision = "APPROVED" THEN badge \cup {filed[x].subject} ELSE badge

DecideVerification(x, r, decision) ==
  /\ filed[x].state = "SUBMITTED"
  /\ r # filed[x].subject
  /\ filed' = [filed EXCEPT ![x].state = decision, ![x].decider = r]
  /\ badge' = IF decision = "APPROVED" THEN badge \cup {filed[x].subject} ELSE badge

(* A year passes since an approval.                                         *)
LapseValidity(x) ==
  /\ filed[x].state = "APPROVED"
  /\ ~filed[x].lapsed
  /\ filed' = [filed EXCEPT ![x].lapsed = TRUE]
  /\ UNCHANGED badge

(* Every approval that lapsed at once, and the badge of each, whatever else *)
(* was approved for the same person meanwhile.                              *)
ExpireLapsedVerifications ==
  LET gone == {x \in VerificationCases : filed[x].state = "APPROVED" /\ filed[x].lapsed} IN
  /\ gone # {}
  /\ filed' = [x \in VerificationCases |->
                 IF x \in gone THEN [filed[x] EXCEPT !.state = "EXPIRED"] ELSE filed[x]]
  /\ badge' = badge \ {filed[x].subject : x \in gone}

VerificationNext ==
  \/ \E x \in VerificationCases :
       \/ LapseValidity(x)
       \/ \E u \in Members :
            \/ SubmitVerification(x, u)
            \/ \E decision \in {"APPROVED", "REJECTED"} : DecideVerification(x, u, decision)
  \/ ExpireLapsedVerifications

VerificationSpec == VerificationInit /\ [][VerificationNext]_verificationVars

-----------------------------------------------------------------------------
(* Types of the cases and the badges.                                       *)
VerificationTypeOK ==
  /\ filed \in [VerificationCases ->
                  [state : {"none", "SUBMITTED", "APPROVED", "REJECTED", "EXPIRED"},
                   subject : Members \cup {NoMember}, decider : Members \cup {NoMember},
                   lapsed : BOOLEAN]]
  /\ badge \subseteq Members

ApprovalsOf(u) == {x \in VerificationCases : filed[x].subject = u /\ filed[x].state = "APPROVED"}

(* The badge follows the decisions through renewals, refusals and expiry:   *)
(* who wears it has an unexpired approval by somebody else and no two open  *)
(* cases, and who has an approval without it lost it to the expiry of       *)
(* another case of theirs (decideVerification, expireLapsedVerifications).  *)
BadgeFollowsApproval ==
  \A u \in Members :
    /\ Cardinality(OpenFor(u)) <= 1
    /\ u \in badge => ApprovalsOf(u) # {}
    /\ \A x \in ApprovalsOf(u) :
         /\ filed[x].decider \in Members \ {u}
         /\ \/ u \in badge
            \/ \E y \in VerificationCases : filed[y].subject = u /\ filed[y].state = "EXPIRED"
=============================================================================
