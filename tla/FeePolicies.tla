---------------------------- MODULE FeePolicies -----------------------------
(* The fee schedules of one corridor: drafted, proposed by one operator,    *)
(* approved by another, who retires the schedule in force and activates the *)
(* new one in one transaction.  The corridor starts on the opening schedule *)
(* the migration inserts in force, which nobody proposed or approved.  The  *)
(* statements of two approvals interleave as READ COMMITTED lets them, and  *)
(* a quote is priced at any moment.                                         *)
EXTENDS FiniteSets

CONSTANTS Schedules, Operators, Approvals, NoOne,
          Opening,   \* the schedule the migration seeds
          Enabled    \* what the deployment may price with

ASSUME FeePolicyAssumption ==
  Opening \in Schedules /\ Enabled \subseteq Schedules /\ NoOne \notin Operators

VARIABLES schedule,    \* fee_policy.state, "none" before the draft
          activation,  \* the live or the approved activation of each schedule
          approving,   \* the approvals in progress
          quoted       \* the schedules some quote is frozen on

feeVars == <<schedule, activation, approving, quoted>>

NotApproving == [at |-> "idle"]
Approval(at, p, u, saw, retired) ==
  [at |-> at, policy |-> p, by |-> u, saw |-> saw, retired |-> retired]
NoActivation == [state |-> "none", by |-> NoOne, approver |-> NoOne]
InForce == {p \in Schedules : schedule[p] = "ACTIVE"}

(* Rows that a transaction in progress has locked FOR UPDATE or updated.    *)
LockedBy(a) == IF approving[a].at = "idle" THEN {}
               ELSE {approving[a].policy} \cup approving[a].retired
Locked(p) == \E a \in Approvals : p \in LockedBy(a)

(* The migration inserts the opening schedule ACTIVE, without an activation.*)
FeeInit ==
  /\ schedule = [p \in Schedules |-> IF p = Opening THEN "ACTIVE" ELSE "none"]
  /\ activation = [p \in Schedules |-> NoActivation]
  /\ approving = [a \in Approvals |-> NotApproving]
  /\ quoted = {}

DraftPolicy(p) ==
  /\ schedule[p] = "none"
  /\ schedule' = [schedule EXCEPT ![p] = "DRAFT"]
  /\ UNCHANGED <<activation, approving, quoted>>

(* FOR UPDATE on the schedule makes two proposals of one schedule wait.     *)
ProposeActivation(p, u) ==
  /\ schedule[p] = "DRAFT"
  /\ ~Locked(p)
  /\ activation[p].state # "PROPOSED"
  /\ activation' = [activation EXCEPT ![p] = [state |-> "PROPOSED", by |-> u, approver |-> NoOne]]
  /\ UNCHANGED <<schedule, approving, quoted>>

-----------------------------------------------------------------------------
(* approveActivation, statement by statement.                               *)

(* The activation and the schedule are locked and checked.                  *)
MayApprove(p, u) ==
  /\ activation[p].state = "PROPOSED"
  /\ activation[p].by # u
  /\ schedule[p] = "DRAFT"

BeginApproval(a, p, u) ==
  /\ approving[a] = NotApproving
  /\ ~Locked(p)
  /\ MayApprove(p, u)
  /\ approving' = [approving EXCEPT ![a] = Approval("checked", p, u, {}, {})]
  /\ UNCHANGED <<schedule, activation, quoted>>

(* UPDATE ... WHERE state = 'ACTIVE' starts: its snapshot is fixed now.     *)
LookForActive(a) ==
  /\ approving[a].at = "checked"
  /\ approving' = [approving EXCEPT ![a] = Approval("retiring", @.policy, @.by, InForce, {})]
  /\ UNCHANGED <<schedule, activation, quoted>>

(* It waits for the rows it saw, and passes over one that is not ACTIVE any *)
(* more when the wait is over.                                              *)
RetireActive(a) ==
  /\ approving[a].at = "retiring"
  /\ \A p \in approving[a].saw : ~Locked(p)
  /\ approving' = [approving EXCEPT ![a] =
                     Approval("activating", @.policy, @.by, @.saw, @.saw \cap InForce)]
  /\ UNCHANGED <<schedule, activation, quoted>>

(* No unique index on the active schedule.                                  *)
MutCorridorUnguarded(a) == TRUE

(* fee_policy_active_uq, as the activating statement meets it.              *)
CorridorIsFree(a) == InForce \subseteq approving[a].retired

(* Both remaining statements and COMMIT.                                    *)
CommitApproval(a) ==
  LET t == approving[a] IN
  /\ t.at = "activating"
  /\ CorridorIsFree(a)
  /\ schedule' = [p \in Schedules |-> IF p = t.policy THEN "ACTIVE"
                                      ELSE IF p \in t.retired THEN "RETIRED"
                                      ELSE schedule[p]]
  /\ activation' = [activation EXCEPT ![t.policy] =
                      [state |-> "APPROVED", by |-> @.by, approver |-> t.by]]
  /\ approving' = [approving EXCEPT ![a] = NotApproving]
  /\ UNCHANGED quoted

(* The index refused the second active schedule, or the process died.       *)
RollBackApproval(a) ==
  /\ approving[a] # NotApproving
  /\ approving' = [approving EXCEPT ![a] = NotApproving]
  /\ UNCHANGED <<schedule, activation, quoted>>

(* A quote takes the schedule in force, if the deployment may price with it.*)
PriceQuote(p) ==
  /\ p \in InForce \cap Enabled
  /\ quoted' = quoted \cup {p}
  /\ UNCHANGED <<schedule, activation, approving>>

FeeNext ==
  \/ \E p \in Schedules : \/ DraftPolicy(p)
                          \/ \E u \in Operators : ProposeActivation(p, u)
                          \/ PriceQuote(p)
  \/ \E a \in Approvals : \/ \E p \in Schedules, u \in Operators : BeginApproval(a, p, u)
                          \/ LookForActive(a)
                          \/ RetireActive(a)
                          \/ CommitApproval(a)
                          \/ RollBackApproval(a)

FeeSpec == FeeInit /\ [][FeeNext]_feeVars

-----------------------------------------------------------------------------
(* Types of the schedules, the activations and the approvals in progress.   *)
FeeTypeOK ==
  /\ schedule \in [Schedules -> {"none", "DRAFT", "ACTIVE", "RETIRED"}]
  /\ activation \in [Schedules -> [state : {"none", "PROPOSED", "APPROVED"},
                                   by : Operators \cup {NoOne},
                                   approver : Operators \cup {NoOne}]]
  /\ approving \in [Approvals -> [at : {"checked", "retiring", "activating"},
                                  policy : Schedules, by : Operators,
                                  saw : SUBSET Schedules, retired : SUBSET Schedules]
                                 \cup {NotApproving}]
  /\ quoted \subseteq Schedules

(* However two approvals interleave, a corridor has one price: always       *)
(* exactly one schedule in force.  The opening schedule prices only until   *)
(* the first approval goes through and never comes back, and every other    *)
(* schedule that is or was in force or that a quote was frozen on was       *)
(* approved by somebody other than its proposer (approveActivation).        *)
OneApprovedSchedule ==
  LET retired == {p \in Schedules : schedule[p] = "RETIRED"}
      used == (quoted \cup InForce \cup retired) \ {Opening}
  IN /\ Cardinality(InForce) = 1
     /\ used # {} => Opening \in retired
     /\ \A p \in used : /\ activation[p].state = "APPROVED"
                        /\ activation[p].approver \in Operators \ {activation[p].by}
=============================================================================
