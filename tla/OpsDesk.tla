------------------------------ MODULE OpsDesk -------------------------------
(* The operators' desk: emergency pauses and risk holds that one person or  *)
(* none starts and two people end, cases that are claimed on a lease and    *)
(* resolved by version, and the two-person approvals behind all three.      *)
EXTENDS Naturals, FiniteSets

CONSTANTS Pauses,       \* control switches of one scope, in the order of use
          Holds, Cases, \* risk holds; operations cases
          Staff,        \* accounts with the roles of operator and reviewer
          MaxApprovals, \* bound on the approvals ever proposed
          MaxVersion,   \* bound on the version of a case
          Nobody

Things == Pauses \cup Holds \cup Cases
ApprovalRows == [target : Things, by : Staff, approver : Staff \cup {Nobody}]

ASSUME DeskAssumption ==
  /\ Nobody \notin Staff \cup ApprovalRows
  /\ {MaxApprovals, MaxVersion} \subseteq Nat
  /\ Pauses \cap Holds = {} /\ Pauses \cap Cases = {} /\ Holds \cap Cases = {}

VARIABLES standing,   \* of each pause, hold or case: absent, live or ended
          approvals,  \* ops_approval rows: target, proposer, approver or Nobody
          ended,      \* who ended it and the approval they named
          desk,       \* of each case: version, assignee, whether the lease ran out
          view        \* the case as each operator last read it

deskVars == <<standing, approvals, ended, desk, view>>

IsLive(x) == standing[x] = "live"
NotEnded == [by |-> Nobody, with |-> Nobody]
Unclaimed == [version |-> 0, assignee |-> Nobody, lapsed |-> FALSE]
Unread == [version |-> MaxVersion + 1, assignee |-> Nobody]
Reading(c) == [version |-> desk[c].version, assignee |-> desk[c].assignee]

DeskInit ==
  /\ standing = [x \in Things |-> "absent"]
  /\ approvals = {}
  /\ ended = [x \in Things |-> NotEnded]
  /\ desk = [c \in Cases |-> Unclaimed]
  /\ view = [u \in Staff |-> [c \in Cases |-> Unread]]

-----------------------------------------------------------------------------
(* Starting is the safe direction.  Pausing what is paused returns the      *)
(* switch that is there (control_switch_live_uq).                           *)
PauseControl(x) ==
  /\ standing[x] = "absent"
  /\ ~\E y \in Pauses : IsLive(y)
  /\ standing' = [standing EXCEPT ![x] = "live"]
  /\ UNCHANGED <<approvals, ended, desk, view>>

(* The risk engine holds a subject, or an alert opens a case.               *)
Raise(x) ==
  /\ standing[x] = "absent"
  /\ standing' = [standing EXCEPT ![x] = "live"]
  /\ UNCHANGED <<approvals, ended, desk, view>>

(* A target is named by the id it got when it was started; one proposal at  *)
(* a time is open for it, and it may have been ended meanwhile.             *)
Propose(x, u) ==
  /\ standing[x] # "absent"
  /\ Cardinality(approvals) < MaxApprovals
  /\ ~\E r \in approvals : r.target = x /\ r.approver = Nobody
  /\ approvals' = approvals \cup {[target |-> x, by |-> u, approver |-> Nobody]}
  /\ UNCHANGED <<standing, ended, desk, view>>

Approve(r, u) ==
  /\ r.approver = Nobody
  /\ u # r.by
  /\ approvals' = (approvals \ {r}) \cup {[r EXCEPT !.approver = u]}
  /\ UNCHANGED <<standing, ended, desk, view>>

(* An approval taken for whatever target the caller names.                  *)
MutApprovedForAny(r, x) == r.target \in Things /\ r.approver # Nobody

(* approvedPayload: APPROVED and naming this very target.                   *)
ApprovedFor(r, x) == r.target = x /\ r.approver # Nobody

(* resume and releaseHold: executed by somebody other than the approver.    *)
End(x, r, u) ==
  /\ ApprovedFor(r, x)
  /\ r.approver # u
  /\ IsLive(x)
  /\ standing' = [standing EXCEPT ![x] = "ended"]
  /\ ended' = [ended EXCEPT ![x] = [by |-> u, with |-> r]]
  /\ UNCHANGED <<approvals, desk, view>>

-----------------------------------------------------------------------------
ReadCase(c, u) ==
  /\ standing[c] # "absent"
  /\ view' = [view EXCEPT ![u][c] = Reading(c)]
  /\ UNCHANGED <<standing, approvals, ended, desk>>

LapseLease(c) ==
  /\ desk[c].assignee # Nobody
  /\ desk' = [desk EXCEPT ![c].lapsed = TRUE]
  /\ UNCHANGED <<standing, approvals, ended, view>>

(* claimCase: free, mine, or its lease ran out; the version is optional.    *)
Claimable(c, u) == desk[c].assignee \in {Nobody, u} \/ desk[c].lapsed

(* A claim that leaves the version of the case as it is.                    *)
MutClaimSameVersion(c, u) ==
  /\ IsLive(c)
  /\ Claimable(c, u)
  /\ desk[c].version < MaxVersion
  /\ desk' = [desk EXCEPT ![c].assignee = u, ![c].lapsed = FALSE]
  /\ UNCHANGED <<standing, approvals, ended, view>>

ClaimCase(c, u) ==
  /\ IsLive(c)
  /\ Claimable(c, u)
  /\ desk[c].version < MaxVersion
  /\ desk' = [desk EXCEPT ![c] = [version |-> @.version + 1, assignee |-> u, lapsed |-> FALSE]]
  /\ UNCHANGED <<standing, approvals, ended, view>>

(* resolveCase: by version, whoever holds the lease.  A disposition that    *)
(* affects value needs an approval that names the case.                     *)
ResolveCase(c, u, r, valueAffecting) ==
  /\ valueAffecting => ApprovedFor(r, c)
  /\ IsLive(c)
  /\ view[u][c].version = desk[c].version
  /\ standing' = [standing EXCEPT ![c] = "ended"]
  /\ ended' = [ended EXCEPT ![c] = [by |-> u, with |-> IF valueAffecting THEN r ELSE Nobody]]
  /\ desk' = [desk EXCEPT ![c].version = @ + 1]
  /\ UNCHANGED <<approvals, view>>

DeskNext ==
  \/ \E x \in Pauses : PauseControl(x)
  \/ \E x \in Holds \cup Cases : Raise(x)
  \/ \E x \in Things, u \in Staff : Propose(x, u)
  \/ \E r \in approvals, u \in Staff :
       \/ Approve(r, u)
       \/ \E x \in Pauses \cup Holds : End(x, r, u)
       \/ \E c \in Cases : ResolveCase(c, u, r, TRUE)
  \/ \E c \in Cases :
       \/ LapseLease(c)
       \/ \E u \in Staff : \/ ReadCase(c, u)
                           \/ ClaimCase(c, u)
                           \/ ResolveCase(c, u, Nobody, FALSE)

DeskSpec == DeskInit /\ [][DeskNext]_deskVars

-----------------------------------------------------------------------------
(* Types of the desk.                                                       *)
DeskTypeOK ==
  /\ standing \in [Things -> {"absent", "live", "ended"}]
  /\ approvals \subseteq ApprovalRows
  /\ ended \in [Things -> [by : Staff \cup {Nobody}, with : ApprovalRows \cup {Nobody}]]
  /\ desk \in [Cases -> [version : 0..MaxVersion + 1, assignee : Staff \cup {Nobody},
                         lapsed : BOOLEAN]]
  /\ view \in [Staff -> [Cases -> [version : 0..MaxVersion + 1,
                                   assignee : Staff \cup {Nobody}]]]

(* A pause or a hold that is over was ended on an approval naming it, given *)
(* by somebody who neither proposed it nor carried it out; a case closed    *)
(* against a customer, on one given by somebody other than its proposer.    *)
(* An approval for an earlier pause never ends a later one (resume,         *)
(* releaseHold, resolveCase).                                               *)
TwoPeopleEndIt ==
  \A x \in Things : standing[x] = "ended" =>
    LET r == ended[x].with IN
    /\ x \in Cases \/ r # Nobody
    /\ r # Nobody => /\ r \in approvals
                     /\ r.target = x
                     /\ r.approver \in Staff \ {r.by}
    /\ x \notin Cases => r.approver # ended[x].by

(* Nobody resolves a case over a claim they have not seen: a lease that ran *)
(* out and went to another operator is either known to whoever resolves, or *)
(* their resolution is refused as stale (claimCase, resolveCase).           *)
ClosedAsSeen ==
  [][\A c \in Cases, u \in Staff :
       standing[c] = "live" /\ standing'[c] = "ended" /\ ended'[c].by = u
         => view[u][c].assignee = desk[c].assignee]_deskVars
=============================================================================
