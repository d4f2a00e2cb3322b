-------------------------- MODULE OperationsProofs --------------------------
(***************************************************************************)
(* Proofs about what guards the operators and the deal room: OpsDesk, for  *)
(* any pauses, holds, cases, staff and bounds; RiskLimits, for any limits, *)
(* amounts and transactions in progress; Evidence, for any rows, contents, *)
(* people and requests; Transcript, for any messages, readers and page     *)
(* size.                                                                   *)
(***************************************************************************)
EXTENDS OpsDesk, RiskLimits, Evidence, Transcript, FiniteSetTheorems, TLAPS

(* What an ended pause, hold or case has to show, one thing at a time.     *)
EndedRight(x) ==
  LET r == ended[x].with IN
  /\ x \in Cases \/ r # Nobody
  /\ r # Nobody => r \in approvals /\ ApprovedFor(r, x)
  /\ x \notin Cases => r.approver # ended[x].by

(* Nobody approves their own proposal.                                     *)
ApprovedByAnother == \A r \in approvals : r.approver # r.by

EndingInv ==
  /\ approvals \subseteq ApprovalRows
  /\ DOMAIN standing = Things /\ DOMAIN ended = Things
  /\ ApprovedByAnother
  /\ \A x \in Things : standing[x] = "ended" => EndedRight(x)

LEMMA EndingInit == DeskInit => EndingInv
  BY DEF DeskInit, EndingInv, ApprovedByAnother

(* Steps that neither end anything nor touch an approval that was given.   *)
LEMMA EndedStaysRight ==
  ASSUME EndingInv, approvals' \subseteq ApprovalRows, ApprovedByAnother',
         DOMAIN standing' = Things, ended' = ended,
         \A x \in Things : standing'[x] = "ended" => standing[x] = "ended",
         \A r \in approvals : r.approver # Nobody => r \in approvals'
  PROVE  EndingInv'
  BY DEF EndingInv, EndedRight, ApprovedFor

LEMMA StartedInv ==
  ASSUME EndingInv, NEW x \in Things, PauseControl(x) \/ Raise(x)
  PROVE  EndingInv'
<1>1. standing' = [standing EXCEPT ![x] = "live"] /\ UNCHANGED <<approvals, ended>>
  BY DEF PauseControl, Raise
<1> QED
  BY <1>1, EndedStaysRight DEF EndingInv, ApprovedByAnother

LEMMA ProposedInv ==
  ASSUME EndingInv, NEW x \in Things, NEW u \in Staff, Propose(x, u)
  PROVE  EndingInv'
<1> DEFINE row == [target |-> x, by |-> u, approver |-> Nobody]
<1>1. approvals' = approvals \cup {row} /\ UNCHANGED <<standing, ended>>
  BY DEF Propose
<1>2. row \in ApprovalRows /\ row.approver # row.by
  BY DeskAssumption DEF ApprovalRows
<1> HIDE DEF row
<1> QED
  BY <1>1, <1>2, EndedStaysRight DEF EndingInv, ApprovedByAnother

(* Only a row that nobody approved yet is replaced.                        *)
LEMMA ApprovedInv ==
  ASSUME EndingInv, NEW r \in approvals, NEW u \in Staff, Approve(r, u)
  PROVE  EndingInv'
<1> DEFINE row == [r EXCEPT !.approver = u]
<1>1. r \in ApprovalRows
  BY DEF EndingInv
<1>2. row = [target |-> r.target, by |-> r.by, approver |-> u]
  BY <1>1 DEF ApprovalRows
<1>3. row \in ApprovalRows /\ row.approver # row.by
  BY <1>1, <1>2 DEF ApprovalRows, Approve
<1>4. /\ approvals' = (approvals \ {r}) \cup {row}
      /\ r.approver = Nobody
      /\ UNCHANGED <<standing, ended>>
  BY DEF Approve
<1> HIDE DEF row
<1> QED
  BY <1>3, <1>4, EndedStaysRight DEF EndingInv, ApprovedByAnother

(* What ends is ended on an approval that names it, by a second person.    *)
LEMMA EndInv ==
  ASSUME EndingInv, NEW x \in Pauses \cup Holds, NEW r \in approvals, NEW u \in Staff,
         End(x, r, u)
  PROVE  EndingInv'
<1>1. x \in Things /\ x \notin Cases
  BY DeskAssumption DEF Things
<1>2. /\ standing' = [standing EXCEPT ![x] = "ended"]
      /\ ended' = [ended EXCEPT ![x] = [by |-> u, with |-> r]]
      /\ approvals' = approvals
      /\ ApprovedFor(r, x) /\ r.approver # u
  BY DEF End
<1>3. r # Nobody
  BY <1>2, DeskAssumption DEF EndingInv, ApprovalRows, ApprovedFor
<1>4. EndedRight(x)'
  BY <1>1, <1>2, <1>3 DEF EndedRight, EndingInv, ApprovedFor
<1>5. ASSUME NEW y \in Things, y # x, standing'[y] = "ended" PROVE EndedRight(y)'
  BY <1>2, <1>5 DEF EndedRight, EndingInv, ApprovedFor
<1> QED
  BY <1>1, <1>2, <1>4, <1>5 DEF EndingInv, ApprovedByAnother
(* Resolving a case is the same with the approval it may not need.         *)
LEMMA ResolveInv ==
  ASSUME EndingInv, NEW c \in Cases, NEW u \in Staff, NEW r, NEW valueAffecting \in BOOLEAN,
         valueAffecting => r \in approvals, ResolveCase(c, u, r, valueAffecting)
  PROVE  EndingInv'
<1> DEFINE named == IF valueAffecting THEN r ELSE Nobody
<1>1. c \in Things
  BY DEF Things
<1>2. /\ standing' = [standing EXCEPT ![c] = "ended"]
      /\ ended' = [ended EXCEPT ![c] = [by |-> u, with |-> named]]
      /\ approvals' = approvals
      /\ named # Nobody => named \in approvals /\ ApprovedFor(named, c)
  BY DEF ResolveCase
<1> HIDE DEF named
<1>3. EndedRight(c)'
  BY <1>1, <1>2 DEF EndedRight, EndingInv, ApprovedFor
<1>4. ASSUME NEW y \in Things, y # c, standing'[y] = "ended" PROVE EndedRight(y)'
  BY <1>2, <1>4 DEF EndedRight, EndingInv, ApprovedFor
<1> QED
  BY <1>1, <1>2, <1>3, <1>4 DEF EndingInv, ApprovedByAnother

(* Reading a case, claiming it and losing the lease end nothing.           *)
LEMMA DeskWorkInv ==
  ASSUME EndingInv, UNCHANGED <<standing, approvals, ended>>
  PROVE  EndingInv'
  BY EndedStaysRight DEF EndingInv, ApprovedByAnother

LEMMA EndingStep == EndingInv /\ [DeskNext]_deskVars => EndingInv'
<1> SUFFICES ASSUME EndingInv, [DeskNext]_deskVars
             PROVE  EndingInv'
  OBVIOUS
<1>1. CASE UNCHANGED deskVars
  BY <1>1, DeskWorkInv DEF deskVars
<1>2. CASE \E x \in Pauses : PauseControl(x)
  BY <1>2, StartedInv DEF Things
<1>3. CASE \E x \in Holds \cup Cases : Raise(x)
  BY <1>3, StartedInv DEF Things
<1>4. CASE \E x \in Things, u \in Staff : Propose(x, u)
  BY <1>4, ProposedInv
<1>5. ASSUME NEW r \in approvals, NEW u \in Staff, Approve(r, u)
      PROVE  EndingInv'
  BY <1>5, ApprovedInv
<1>6. ASSUME NEW r \in approvals, NEW u \in Staff, NEW x \in Pauses \cup Holds, End(x, r, u)
      PROVE  EndingInv'
  BY <1>6, EndInv
<1>7. ASSUME NEW r \in approvals, NEW u \in Staff, NEW c \in Cases, ResolveCase(c, u, r, TRUE)
      PROVE  EndingInv'
  BY <1>7, ResolveInv
<1>8. ASSUME NEW c \in Cases, NEW u \in Staff, ResolveCase(c, u, Nobody, FALSE)
      PROVE  EndingInv'
  BY <1>8, ResolveInv
<1>9. ASSUME NEW c \in Cases, NEW u \in Staff,
             ReadCase(c, u) \/ ClaimCase(c, u)
      PROVE  EndingInv'
  BY <1>9, DeskWorkInv DEF ReadCase, ClaimCase
<1>10. ASSUME NEW c \in Cases, LapseLease(c)
       PROVE  EndingInv'
  BY <1>10, DeskWorkInv DEF LapseLease
<1> QED
  BY <1>1, <1>2, <1>3, <1>4, <1>5, <1>6, <1>7, <1>8, <1>9, <1>10 DEF DeskNext

(* A pause, a hold or a case against a customer is over only on a second   *)
(* person's word for that very one, whatever the operators, however their  *)
(* proposals, approvals and claims interleave (resume, releaseHold,        *)
(* resolveCase).                                                           *)
THEOREM TwoPeopleEndItHolds == DeskSpec => []TwoPeopleEndIt
<1>1. EndingInv => TwoPeopleEndIt
  <2> SUFFICES ASSUME EndingInv, NEW x \in Things, standing[x] = "ended"
               PROVE  LET r == ended[x].with IN
                      /\ x \in Cases \/ r # Nobody
                      /\ r # Nobody => /\ r \in approvals
                                       /\ r.target = x
                                       /\ r.approver \in Staff \ {r.by}
                      /\ x \notin Cases => r.approver # ended[x].by
    BY DEF TwoPeopleEndIt
  <2>1. EndedRight(x)
    BY DEF EndingInv
  <2>2. \A r \in approvals : r.approver \in Staff \cup {Nobody} /\ r.approver # r.by
    BY DEF EndingInv, ApprovalRows, ApprovedByAnother
  <2> QED
    BY <2>1, <2>2 DEF EndedRight, ApprovedFor
<1> QED
  BY <1>1, EndingInit, EndingStep, PTL DEF DeskSpec

-----------------------------------------------------------------------------
(* What an operator saw of a case is what is there as long as its version  *)
(* is: every claim gives the case a new one.                               *)
ViewIsDated ==
  \A c \in Cases : \A u \in Staff :
    \/ view[u][c].version < desk[c].version
    \/ view[u][c] = Reading(c)
    \/ view[u][c] = Unread

CaseInv ==
  /\ standing \in [Things -> {"absent", "live", "ended"}]
  /\ desk \in [Cases -> [version : 0..MaxVersion + 1, assignee : Staff \cup {Nobody},
                         lapsed : BOOLEAN]]
  /\ view \in [Staff -> [Cases -> [version : 0..MaxVersion + 1,
                                   assignee : Staff \cup {Nobody}]]]
  /\ \A c \in Cases : standing[c] # "ended" => desk[c].version <= MaxVersion
  /\ ViewIsDated

LEMMA CaseInit == DeskInit => CaseInv
  BY DeskAssumption DEF DeskInit, CaseInv, ViewIsDated, Unclaimed, Unread, Things

(* Pauses, holds, proposals and approvals leave the cases alone.           *)
LEMMA CaseUntouched ==
  ASSUME CaseInv, standing' \in [Things -> {"absent", "live", "ended"}],
         \A c \in Cases : standing'[c] # "ended" => standing[c] # "ended",
         UNCHANGED <<desk, view>>
  PROVE  CaseInv'
  BY DEF CaseInv, ViewIsDated, Reading

(* The case moves on to its next version, whatever else changes of it.     *)
LEMMA CaseMovesOn ==
  ASSUME CaseInv, NEW c \in Cases, IsLive(c), desk[c].version \in 0..MaxVersion,
         NEW assignee \in Staff \cup {Nobody}, NEW lapsed \in BOOLEAN,
         desk' = [desk EXCEPT ![c] = [version |-> desk[c].version + 1,
                                      assignee |-> assignee, lapsed |-> lapsed]],
         \/ standing' = [standing EXCEPT ![c] = "ended"]
         \/ standing' = standing /\ desk[c].version < MaxVersion,
         UNCHANGED view
  PROVE  CaseInv'
<1> USE DeskAssumption DEF CaseInv
<1>1. c \in Things /\ Cases \subseteq Things
  BY DEF Things
<1>2. desk' \in [Cases -> [version : 0..MaxVersion + 1, assignee : Staff \cup {Nobody},
                          lapsed : BOOLEAN]]
  OBVIOUS
<1>3. desk'[c].version = desk[c].version + 1 /\ \A e \in Cases \ {c} : desk'[e] = desk[e]
  OBVIOUS
<1>4. standing' \in [Things -> {"absent", "live", "ended"}]
      /\ \A e \in Cases : standing'[e] # "ended" => desk'[e].version <= MaxVersion
  BY <1>1, <1>3
<1>5. ASSUME NEW e \in Cases, NEW u \in Staff
      PROVE  \/ view'[u][e].version < desk'[e].version
             \/ view'[u][e] = Reading(e)'
             \/ view'[u][e] = Unread
  <2>1. CASE e # c
    BY <1>3, <1>5, <2>1 DEF ViewIsDated, Reading
  <2>2. CASE e = c /\ view[u][c] # Unread
    <3>1. view[u][c].version <= desk[c].version
      <4>1. view[u][c].version < desk[c].version \/ view[u][c] = Reading(c)
        BY <2>2 DEF ViewIsDated
      <4>2. Reading(c).version = desk[c].version
        BY DEF Reading
      <4>3. desk[c].version \in Nat /\ view[u][c].version \in Nat
        OBVIOUS
      <4> QED
        BY <4>1, <4>2, <4>3
    <3>2. view[u][c].version \in 0..MaxVersion + 1
      OBVIOUS
    <3> QED
      BY <1>3, <2>2, <3>1, <3>2
  <2> QED
    BY <2>1, <2>2
<1>6. ViewIsDated'
  BY <1>5 DEF ViewIsDated
<1> QED
  BY <1>2, <1>4, <1>6

LEMMA ReadInv ==
  ASSUME CaseInv, NEW c \in Cases, NEW u \in Staff, ReadCase(c, u)
  PROVE  CaseInv'
<1> USE DEF CaseInv
<1>1. view' = [view EXCEPT ![u] = [view[u] EXCEPT ![c] = Reading(c)]]
      /\ UNCHANGED <<standing, desk>>
  BY DEF ReadCase
<1>2. Reading(c) \in [version : 0..MaxVersion + 1, assignee : Staff \cup {Nobody}]
  BY DEF Reading
<1>3. view' \in [Staff -> [Cases -> [version : 0..MaxVersion + 1,
                                    assignee : Staff \cup {Nobody}]]]
  BY <1>1, <1>2
<1>4. view'[u][c] = Reading(c)
      /\ \A e \in Cases, v \in Staff : <<e, v>> # <<c, u>> => view'[v][e] = view[v][e]
  BY <1>1
<1>5. ViewIsDated'
  BY <1>1, <1>4 DEF ViewIsDated, Reading
<1> QED
  BY <1>1, <1>3, <1>5

LEMMA ResolveMovesOn ==
  ASSUME CaseInv, NEW c \in Cases, NEW u, NEW r, NEW valueAffecting \in BOOLEAN,
         ResolveCase(c, u, r, valueAffecting)
  PROVE  CaseInv'
<1>1. desk' = [desk EXCEPT ![c] = [version |-> desk[c].version + 1,
                                   assignee |-> desk[c].assignee, lapsed |-> desk[c].lapsed]]
  <2>1. desk' = [desk EXCEPT ![c] = [desk[c] EXCEPT !.version = desk[c].version + 1]]
    BY DEF ResolveCase
  <2>2. desk[c] \in [version : 0..MaxVersion + 1, assignee : Staff \cup {Nobody},
                     lapsed : BOOLEAN]
    BY DEF CaseInv
  <2>3. ASSUME NEW row \in [version : 0..MaxVersion + 1, assignee : Staff \cup {Nobody},
                             lapsed : BOOLEAN], NEW v
        PROVE  [row EXCEPT !.version = v]
                 = [version |-> v, assignee |-> row.assignee, lapsed |-> row.lapsed]
    OBVIOUS
  <2> QED
    BY <2>1, <2>2, <2>3
<1>2. IsLive(c) /\ standing' = [standing EXCEPT ![c] = "ended"] /\ UNCHANGED view
  BY DEF ResolveCase
<1>3. desk[c].version \in 0..MaxVersion
  BY <1>2, DeskAssumption DEF CaseInv, IsLive
<1>4. desk[c].assignee \in Staff \cup {Nobody} /\ desk[c].lapsed \in BOOLEAN
  BY DEF CaseInv
<1> QED
  BY <1>1, <1>2, <1>3, <1>4, CaseMovesOn

LEMMA ClaimMovesOn ==
  ASSUME CaseInv, NEW c \in Cases, NEW u \in Staff, ClaimCase(c, u)
  PROVE  CaseInv'
<1>1. desk' = [desk EXCEPT ![c] = [version |-> desk[c].version + 1,
                                   assignee |-> u, lapsed |-> FALSE]]
      /\ IsLive(c) /\ desk[c].version < MaxVersion /\ UNCHANGED <<standing, view>>
  BY DEF ClaimCase
<1>2. desk[c].version \in 0..MaxVersion
  BY <1>1, DeskAssumption DEF CaseInv
<1> QED
  BY <1>1, <1>2, CaseMovesOn

LEMMA LapseInv ==
  ASSUME CaseInv, NEW c \in Cases, LapseLease(c)
  PROVE  CaseInv'
<1> USE DEF CaseInv
<1>1. ASSUME NEW row \in [version : 0..MaxVersion + 1, assignee : Staff \cup {Nobody},
                           lapsed : BOOLEAN], NEW b
      PROVE  [row EXCEPT !.lapsed = b]
                = [version |-> row.version, assignee |-> row.assignee, lapsed |-> b]
  OBVIOUS
<1>2. desk' = [desk EXCEPT ![c] = [desk[c] EXCEPT !.lapsed = TRUE]]
      /\ UNCHANGED <<standing, view>>
  BY DEF LapseLease
<1>3. desk' = [desk EXCEPT ![c] = [version |-> desk[c].version,
                                   assignee |-> desk[c].assignee, lapsed |-> TRUE]]
  BY <1>1, <1>2
<1>4. desk' \in [Cases -> [version : 0..MaxVersion + 1, assignee : Staff \cup {Nobody},
                          lapsed : BOOLEAN]]
  BY <1>3
<1>5. \A e \in Cases : desk'[e].version = desk[e].version /\ desk'[e].assignee = desk[e].assignee
  BY <1>3
<1>6. ViewIsDated'
  BY <1>2, <1>5 DEF ViewIsDated, Reading
<1> QED
  BY <1>2, <1>4, <1>5, <1>6

LEMMA CaseStep == CaseInv /\ [DeskNext]_deskVars => CaseInv'
<1> SUFFICES ASSUME CaseInv, [DeskNext]_deskVars
             PROVE  CaseInv'
  OBVIOUS
<1>1. ASSUME UNCHANGED deskVars \/ \E x \in Things, u \in Staff : Propose(x, u)
      PROVE  CaseInv'
  BY <1>1, CaseUntouched DEF deskVars, Propose, CaseInv
<1>2. ASSUME NEW x \in Things, PauseControl(x) \/ Raise(x)
      PROVE  CaseInv'
  <2>1. standing' = [standing EXCEPT ![x] = "live"] /\ standing[x] = "absent"
        /\ UNCHANGED <<desk, view>>
    BY <1>2 DEF PauseControl, Raise
  <2> QED
    BY <2>1, CaseUntouched DEF CaseInv
<1>3. ASSUME NEW r \in approvals, NEW u \in Staff, Approve(r, u)
      PROVE  CaseInv'
  BY <1>3, CaseUntouched DEF Approve, CaseInv
<1>4. ASSUME NEW r, NEW u \in Staff, NEW x \in Pauses \cup Holds, End(x, r, u)
      PROVE  CaseInv'
  <2>1. standing' = [standing EXCEPT ![x] = "ended"] /\ UNCHANGED <<desk, view>>
    BY <1>4 DEF End
  <2>2. x \notin Cases
    BY DeskAssumption
  <2>3. standing' \in [Things -> {"absent", "live", "ended"}]
    BY <2>1 DEF CaseInv
  <2>4. \A c \in Cases : standing'[c] = standing[c]
    BY <2>1, <2>2 DEF CaseInv, Things
  <2> QED
    BY <2>1, <2>3, <2>4, CaseUntouched
<1>5. ASSUME NEW r, NEW u \in Staff, NEW c \in Cases,
             ResolveCase(c, u, r, TRUE) \/ ResolveCase(c, u, r, FALSE)
      PROVE  CaseInv'
  BY <1>5, ResolveMovesOn
<1>6. ASSUME NEW c \in Cases, NEW u \in Staff, ReadCase(c, u) \/ ClaimCase(c, u)
      PROVE  CaseInv'
  BY <1>6, ReadInv, ClaimMovesOn
<1>7. ASSUME NEW c \in Cases, LapseLease(c)
      PROVE  CaseInv'
  BY <1>7, LapseInv
<1> QED
  BY <1>1, <1>2, <1>3, <1>4, <1>5, <1>6, <1>7 DEF DeskNext, Things

(* Who ended what, on which approval.                                       *)
EndersTyped ==
  ended \in [Things -> [by : Staff \cup {Nobody}, with : ApprovalRows \cup {Nobody}]]

LEMMA EndersStep == EndingInv /\ EndersTyped /\ [DeskNext]_deskVars => EndersTyped'
<1> SUFFICES ASSUME EndingInv, EndersTyped, [DeskNext]_deskVars PROVE EndersTyped'
  OBVIOUS
<1>1. CASE UNCHANGED ended
  BY <1>1 DEF EndersTyped
<1>2. ASSUME NEW x \in Things, NEW u \in Staff, NEW r \in ApprovalRows \cup {Nobody},
             ended' = [ended EXCEPT ![x] = [by |-> u, with |-> r]]
      PROVE  EndersTyped'
  BY <1>2 DEF EndersTyped
<1>3. approvals \subseteq ApprovalRows /\ Pauses \cup Holds \cup Cases \subseteq Things
  BY DEF EndingInv, Things
<1>4. ASSUME NEW r \in approvals, NEW u \in Staff, NEW x \in Pauses \cup Holds, End(x, r, u)
      PROVE  EndersTyped'
  BY <1>2, <1>3, <1>4 DEF End
<1>5. ASSUME NEW c \in Cases, NEW u \in Staff,
             (\E r \in approvals : ResolveCase(c, u, r, TRUE)) \/ ResolveCase(c, u, Nobody, FALSE)
      PROVE  EndersTyped'
  BY <1>2, <1>3, <1>5 DEF ResolveCase
<1>6. ASSUME NEW c \in Cases,
             LapseLease(c) \/ \E u \in Staff : ReadCase(c, u) \/ ClaimCase(c, u)
      PROVE  UNCHANGED ended
  BY <1>6 DEF LapseLease, ReadCase, ClaimCase
<1>7. ASSUME NEW x, NEW u, \/ PauseControl(x) \/ Raise(x) \/ Propose(x, u)
                          \/ \E r \in approvals : Approve(r, u)
      PROVE  UNCHANGED ended
  BY <1>7 DEF PauseControl, Raise, Propose, Approve
<1> QED
  BY <1>1, <1>4, <1>5, <1>6, <1>7 DEF DeskNext, deskVars

(* The types of the desk.                                                   *)
THEOREM DeskTypesHold == DeskSpec => []DeskTypeOK
<1>1. DeskInit => EndersTyped
  BY DEF DeskInit, EndersTyped, NotEnded
<1>2. EndingInv /\ CaseInv /\ EndersTyped => DeskTypeOK
  BY DEF EndingInv, CaseInv, EndersTyped, DeskTypeOK
<1> QED
  BY <1>1, <1>2, CaseInit, CaseStep, EndingInit, EndingStep, EndersStep, PTL DEF DeskSpec

(* Nobody resolves a case over a claim they have not seen (claimCase,      *)
(* resolveCase): the version they read is only current if the assignee is. *)
THEOREM ClosedAsSeenHolds == DeskSpec => ClosedAsSeen
<1>1. CaseInv /\ EndingInv /\ [DeskNext]_deskVars
        => [\A c \in Cases, u \in Staff :
              standing[c] = "live" /\ standing'[c] = "ended" /\ ended'[c].by = u
                => view[u][c].assignee = desk[c].assignee]_deskVars
  <2> SUFFICES ASSUME CaseInv, EndingInv, DeskNext, NEW c \in Cases, NEW u \in Staff,
                      standing[c] = "live", standing'[c] = "ended", ended'[c].by = u
               PROVE  view[u][c].assignee = desk[c].assignee
    OBVIOUS
  <2>1. c \in Things
    BY DEF Things
  <2>2. \A x \in Pauses \cup Holds : x # c
    BY DeskAssumption
  <2>3. ~\E x \in Things : PauseControl(x) \/ Raise(x)
    <3> SUFFICES ASSUME NEW x \in Things, standing' = [standing EXCEPT ![x] = "live"]
                 PROVE  FALSE
      BY DEF PauseControl, Raise
    <3> QED
      BY <2>1 DEF CaseInv
  <2>4. ~\E x \in Pauses \cup Holds, r \in approvals, v \in Staff : End(x, r, v)
    BY <2>1, <2>2 DEF CaseInv, End
  <2>5. ~UNCHANGED standing
    OBVIOUS
  <2>6. PICK e \in Cases, v \in Staff : \E r, b : ResolveCase(e, v, r, b)
    BY <2>3, <2>4, <2>5
       DEF DeskNext, Propose, Approve, LapseLease, ReadCase, ClaimCase, Things
  <2>7. e = c /\ u = v
    <3> PICK r, b : ResolveCase(e, v, r, b)
      BY <2>6
    <3>1. standing' = [standing EXCEPT ![e] = "ended"] /\ e \in Things
          /\ ended' = [ended EXCEPT ![e] = [by |-> v, with |-> IF b THEN r ELSE Nobody]]
      BY DEF ResolveCase, Things
    <3>2. e = c
      BY <2>1, <3>1 DEF CaseInv
    <3>3. ended'[c].by = v
      BY <2>1, <3>1, <3>2 DEF EndingInv
    <3> QED
      BY <3>2, <3>3
  <2>8. view[u][c].version = desk[c].version /\ desk[c].version \in 0..MaxVersion
    <3>1. view[u][c].version = desk[c].version
      BY <2>6, <2>7 DEF ResolveCase
    <3>2. desk[c].version \in 0..MaxVersion + 1 /\ desk[c].version <= MaxVersion
      BY DEF CaseInv
    <3> QED
      BY <3>1, <3>2, DeskAssumption
  <2>9. view[u][c] = Reading(c)
    BY <2>8, DeskAssumption DEF CaseInv, ViewIsDated, Unread
  <2> QED
    BY <2>9 DEF Reading
<1> QED
  BY <1>1, CaseInit, CaseStep, EndingInit, EndingStep, PTL DEF DeskSpec, ClosedAsSeen

-----------------------------------------------------------------------------
(* Counting against a window.                                              *)
CounterRows == [Limits -> [Windows -> Nat]]

Counting(d) == grant[d] # Never /\ d \notin undone

(* Which deals a window's counter stands for: granted, and on a key of     *)
(* their own that was not taken back.                                      *)
Counted(v) == GrantedIn(v) \ undone

LimitInv ==
  /\ LimitTypeOK
  /\ \A v \in Windows :
       /\ counter["reward"][v] <= MaxCount
       /\ counter["perTxn"][v] <= PerTxn /\ counter["daily"][v] <= Daily
       /\ locked[v] <= counter["perTxn"][v] /\ locked[v] <= counter["daily"][v]
       /\ counter["reward"][v] = Cardinality(Counted(v))
  /\ \A d \in RewardDeals :
       /\ d \in Granted \/ d \in undone => consumed[d] # Never
       /\ consumed[d] # Never => d \in Granted \/ d \in undone

(* An instant of the modelled time has a window.                           *)
LEMMA WindowTypes ==
  ASSUME NEW t \in 0..LastTick
  PROVE  Window(t) \in Windows
<1>1. LastTick \in Nat /\ Day \in Nat /\ Day > 0 /\ t \in Nat /\ t <= LastTick
  BY LimitAssumption
<1> DEFINE a == t \div Day
           b == LastTick \div Day
<1>2. a \in Nat /\ Day * a <= t /\ b \in Nat /\ LastTick < Day * b + Day
  BY <1>1, SMTT(20)
<1> HIDE DEF a, b
<1>3. a <= b
  <2> SUFFICES ASSUME b + 1 <= a PROVE FALSE
    BY <1>2
  <2>1. Day * (b + 1) <= Day * a /\ Day * (b + 1) = Day * b + Day
    BY <1>1, <1>2, SMTT(20)
  <2>2. Day * a \in Nat /\ Day * b \in Nat
    BY <1>1, <1>2, SMTT(20)
  <2> QED
    BY <1>1, <1>2, <2>1, <2>2
<1> QED
  BY <1>2, <1>3 DEF a, b, Window, Windows

(* What a consumption leaves of its own counter, and of every other.       *)
Consumed(count, next, l, v, a) ==
  /\ next \in CounterRows
  /\ \A m \in Limits, u \in Windows : m # l \/ u # v => next[m][u] = count[m][u]
  /\ count[l][v] + a > MaxOf[l] => next[l][v] = count[l][v]
  /\ ~(count[l][v] + a > MaxOf[l]) => next[l][v] = count[l][v] + a

LEMMA Consuming ==
  ASSUME NEW count \in CounterRows, NEW l \in Limits, NEW v \in Windows, NEW a \in Nat
  PROVE  Consumed(count, Consume(count, l, v, a), l, v, a)
<1> DEFINE more == [count[l] EXCEPT ![v] = @ + a]
<1>1. count[l] \in [Windows -> Nat] /\ count[l][v] + a \in Nat
  BY DEF CounterRows
<1>2. more \in [Windows -> Nat] /\ more[v] = count[l][v] + a
      /\ \A w \in Windows \ {v} : more[w] = count[l][w]
  BY <1>1
<1>3. [count EXCEPT ![l][v] = @ + a] = [count EXCEPT ![l] = more]
  BY DEF CounterRows
<1> HIDE DEF more
<1> DEFINE next == [count EXCEPT ![l] = more]
<1>4. next \in CounterRows /\ next[l] = more /\ \A m \in Limits \ {l} : next[m] = count[m]
  BY <1>2 DEF CounterRows
<1>5. Consume(count, l, v, a) = IF count[l][v] + a > MaxOf[l] THEN count ELSE next
  BY <1>3 DEF Consume, Over
<1> HIDE DEF next
<1>6. CASE count[l][v] + a > MaxOf[l]
  BY <1>5, <1>6 DEF Consumed
<1>7. CASE ~(count[l][v] + a > MaxOf[l])
  BY <1>2, <1>4, <1>5, <1>7 DEF Consumed
<1> QED
  BY <1>6, <1>7

LEMMA LimitInitInv == LimitInit => LimitInv
<1> SUFFICES ASSUME LimitInit PROVE LimitInv
  OBVIOUS
<1>1. LimitTypeOK
  BY LimitAssumption DEF LimitInit, LimitTypeOK, Never
<1>2. \A v \in Windows : Counted(v) = {}
  BY DEF LimitInit, Counted, GrantedIn, Granted
<1>3. \A v \in Windows : \A l \in Limits : counter[l][v] = 0
  BY DEF LimitInit
<1>4. \A v \in Windows : counter["reward"][v] = Cardinality(Counted(v))
  BY <1>2, <1>3, FS_EmptySet DEF Limits
<1> QED
  BY <1>1, <1>3, <1>4, LimitAssumption DEF LimitInv, LimitInit, Limits, Granted

LEMMA LimitTypes ==
  ASSUME LimitTypeOK
  PROVE  /\ counter \in CounterRows
         /\ {MaxCount, PerTxn, Daily, LastTick} \subseteq Nat
         /\ \A v \in Windows :
              /\ locked[v] \in Nat
              /\ \A l \in Limits : counter[l][v] \in Nat
              /\ Counted(v) \subseteq RewardDeals /\ IsFiniteSet(Counted(v))
  <1>1. \A v \in Windows : Counted(v) \subseteq RewardDeals /\ IsFiniteSet(Counted(v))
    BY LimitAssumption, FS_Subset DEF Counted, GrantedIn, Granted
  <1> QED
    BY <1>1, LimitAssumption DEF LimitTypeOK, CounterRows

(* Time, the beginning and the failure of a transaction count nothing.     *)
LEMMA NothingCountedInv ==
  ASSUME LimitInv,
         \/ Tick
         \/ \E w \in Workers :
              \/ \E d \in RewardDeals : BeginReward(w, d)
              \/ \E a \in Volumes : BeginLock(w, a)
              \/ AbortWork(w)
  PROVE  LimitInv'
<1>1. UNCHANGED <<counter, consumed, undone, grant, locked>>
  BY DEF Tick, BeginReward, BeginLock, AbortWork
<1>2. clock' \in 0..LastTick
  BY LimitAssumption DEF LimitInv, LimitTypeOK, Tick, BeginReward, BeginLock, AbortWork
<1>3. work' \in [Workers -> [kind : {"reward"}, deal : RewardDeals, at : 0..LastTick]
                  \cup [kind : {"lock"}, amount : Volumes, at : 0..LastTick] \cup {Idle}]
  BY DEF LimitInv, LimitTypeOK, Tick, BeginReward, BeginLock, AbortWork
<1>4. LimitTypeOK'
  BY <1>1, <1>2, <1>3 DEF LimitInv, LimitTypeOK
<1> QED
  BY <1>1, <1>4 DEF LimitInv, Counted, GrantedIn, Granted

(* Each case of an evaluation: the key was used before, it is refused, or  *)
(* it counts.                                                              *)
LEMMA FinishRewardInv ==
  ASSUME LimitInv, NEW w \in Workers, FinishReward(w)
  PROVE  LimitInv'
<1> DEFINE d == work[w].deal
           t == work[w].at
           v == Window(t)
           fresh == consumed[d] = Never
           refused == fresh /\ Over("reward", counter["reward"][v] + 1)
<1>1. LimitTypeOK
  BY DEF LimitInv
<1>2. d \in RewardDeals /\ t \in 0..LastTick /\ v \in Windows /\ t # Never
  BY <1>1, WindowTypes, LimitAssumption DEF FinishReward, LimitTypeOK, Never
<1>3. counter \in CounterRows /\ {MaxCount, PerTxn, Daily, LastTick} \subseteq Nat
      /\ "reward" \in Limits /\ "perTxn" \in Limits /\ "daily" \in Limits
  BY <1>1, LimitTypes DEF Limits
<1>4. /\ counter' = IF fresh THEN Consume(counter, "reward", v, 1) ELSE counter
      /\ consumed' = IF fresh THEN [consumed EXCEPT ![d] = v] ELSE consumed
      /\ undone' = IF refused THEN undone \cup {d} ELSE undone
      /\ grant' = IF ~refused /\ d \notin Granted THEN [grant EXCEPT ![d] = t] ELSE grant
      /\ work' = [work EXCEPT ![w] = Idle]
      /\ UNCHANGED <<clock, locked>>
  BY DEF FinishReward
<1>5. Over("reward", counter["reward"][v] + 1) <=> counter["reward"][v] + 1 > MaxCount
  BY DEF Over, MaxOf, Limits
<1>6. v # Never
  BY <1>2, LimitAssumption DEF Windows, Never
<1> HIDE DEF d, t, v
<1>7. /\ counter' \in CounterRows
      /\ \A u \in Windows : /\ counter'["perTxn"][u] = counter["perTxn"][u]
                            /\ counter'["daily"][u] = counter["daily"][u]
                            /\ u # v => counter'["reward"][u] = counter["reward"][u]
      /\ counter'["reward"][v] = IF fresh /\ ~refused THEN counter["reward"][v] + 1
                                                      ELSE counter["reward"][v]
  <2> DEFINE next == Consume(counter, "reward", v, 1)
  <2>1. 1 \in Nat
    OBVIOUS
  <2>2. Consumed(counter, next, "reward", v, 1)
    BY <1>2, <1>3, <2>1, Consuming
  <2>3. counter' = IF fresh THEN next ELSE counter
    BY <1>4
  <2> HIDE DEF next
  <2>4. MaxOf["reward"] = MaxCount
    BY DEF MaxOf, Limits
  <2>5. CASE fresh
    BY <1>2, <1>3, <1>5, <2>2, <2>3, <2>4, <2>5 DEF Consumed
  <2>6. CASE ~fresh
    BY <1>3, <2>3, <2>6
  <2> QED
    BY <2>5, <2>6
<1>8. LimitTypeOK'
  <2>1. work' \in [Workers -> [kind : {"reward"}, deal : RewardDeals, at : 0..LastTick]
                    \cup [kind : {"lock"}, amount : Volumes, at : 0..LastTick] \cup {Idle}]
    BY <1>1, <1>4 DEF LimitTypeOK
  <2> QED
    BY <1>1, <1>2, <1>4, <1>7, <2>1 DEF LimitTypeOK, CounterRows
<1>9. ASSUME NEW c \in RewardDeals
      PROVE  /\ c \in Granted' \/ c \in undone' => consumed'[c] # Never
             /\ consumed'[c] # Never => c \in Granted' \/ c \in undone'
  BY <1>1, <1>2, <1>4, <1>6 DEF LimitInv, LimitTypeOK, Granted
<1>10. ASSUME NEW u \in Windows
       PROVE  /\ counter'["reward"][u] <= MaxCount
              /\ counter'["reward"][u] = Cardinality(Counted(u)')
  <2>1. /\ counter["reward"][u] \in Nat /\ counter["reward"][u] <= MaxCount
        /\ counter["reward"][u] = Cardinality(Counted(u)) /\ IsFiniteSet(Counted(u))
    BY <1>1, <1>3, LimitTypes DEF LimitInv
  <2>2. CASE fresh /\ ~refused
    <3>1. d \notin Granted /\ d \notin undone
      BY <1>2, <2>2 DEF LimitInv
    <3>2. undone' = undone /\ grant' = [grant EXCEPT ![d] = t]
      BY <1>4, <2>2, <3>1
    <3>3. CASE u = v
      <4>1. Counted(u)' = Counted(u) \cup {d} /\ d \notin Counted(u)
        BY <1>1, <1>2, <3>1, <3>2, <3>3 DEF Counted, GrantedIn, Granted, v, LimitTypeOK
      <4>2. Cardinality(Counted(u)') = Cardinality(Counted(u)) + 1
        BY <2>1, <4>1, FS_AddElement
      <4> QED
        BY <1>3, <1>5, <1>7, <2>1, <2>2, <3>3, <4>2
    <3>4. CASE u # v
      <4>1. Counted(u)' = Counted(u)
        BY <1>1, <1>2, <3>1, <3>2, <3>4 DEF Counted, GrantedIn, Granted, v, LimitTypeOK
      <4> QED
        BY <1>7, <2>1, <3>4, <4>1
    <3> QED
      BY <3>3, <3>4
  <2>3. CASE ~(fresh /\ ~refused)
    <3>1. Counted(u)' = Counted(u)
      <4>1. CASE refused
        <5>1. d \notin Granted /\ grant' = grant /\ undone' = undone \cup {d}
          BY <1>2, <1>4, <4>1 DEF LimitInv
        <5> QED
          BY <5>1 DEF Counted, GrantedIn, Granted
      <4>2. CASE ~fresh
        <5>1. undone' = undone /\ (d \in undone \/ grant' = grant)
              /\ (grant' = grant \/ grant' = [grant EXCEPT ![d] = t])
          BY <1>2, <1>4, <4>2 DEF LimitInv
        <5> QED
          BY <1>1, <5>1 DEF Counted, GrantedIn, Granted, LimitTypeOK
      <4> QED
        BY <2>3, <4>1, <4>2
    <3>2. counter'["reward"][u] = counter["reward"][u]
      BY <1>7, <2>3
    <3> QED
      BY <2>1, <3>1, <3>2
  <2> QED
    BY <2>2, <2>3
<1> QED
  BY <1>4, <1>7, <1>8, <1>9, <1>10 DEF LimitInv

(* A lock is counted against both limits before it is made, so what is     *)
(* locked never passes what is counted.                                    *)
LEMMA FinishLockInv ==
  ASSUME LimitInv, NEW w \in Workers, NEW sufficient \in BOOLEAN, FinishLock(w, sufficient)
  PROVE  LimitInv'
<1> DEFINE a == work[w].amount
           v == Window(work[w].at)
           first == Consume(counter, "perTxn", v, a)
           second == Consume(first, "daily", v, a)
           passed == ~Over("perTxn", counter["perTxn"][v] + a)
           both == passed /\ ~Over("daily", counter["daily"][v] + a)
<1>1. LimitTypeOK
  BY DEF LimitInv
<1>2. a \in Nat /\ v \in Windows
  BY <1>1, WindowTypes, LimitAssumption DEF FinishLock, LimitTypeOK
<1>3. counter \in CounterRows /\ {MaxCount, PerTxn, Daily, LastTick} \subseteq Nat
      /\ "reward" \in Limits /\ "perTxn" \in Limits /\ "daily" \in Limits
      /\ \A u \in Windows : /\ locked[u] \in Nat /\ counter["perTxn"][u] \in Nat
                            /\ counter["daily"][u] \in Nat
  BY <1>1, LimitTypes DEF Limits
<1>4. /\ counter' = IF passed THEN second ELSE counter
      /\ locked' = IF both /\ sufficient THEN [locked EXCEPT ![v] = @ + a] ELSE locked
      /\ work' = [work EXCEPT ![w] = Idle]
      /\ UNCHANGED <<clock, consumed, undone, grant>>
  BY DEF FinishLock
<1>5. /\ \A x \in Nat : Over("perTxn", x) <=> x > PerTxn
      /\ \A x \in Nat : Over("daily", x) <=> x > Daily
  BY DEF Over, MaxOf, Limits
<1> HIDE DEF a, v
<1> HIDE DEF first, second
<1>6. Consumed(counter, first, "perTxn", v, a)
  BY <1>2, <1>3, Consuming DEF first
<1>7. Consumed(first, second, "daily", v, a)
  <2>1. first \in CounterRows
    BY <1>6 DEF Consumed
  <2> QED
    BY <1>2, <1>3, <2>1, Consuming DEF second
<1>13. MaxOf["perTxn"] = PerTxn /\ MaxOf["daily"] = Daily
  BY DEF MaxOf, Limits
<1>8. /\ counter' \in CounterRows
      /\ \A u \in Windows : /\ counter'["reward"][u] = counter["reward"][u]
                            /\ u # v => counter'["perTxn"][u] = counter["perTxn"][u]
                            /\ u # v => counter'["daily"][u] = counter["daily"][u]
      /\ counter'["perTxn"][v] = IF passed THEN counter["perTxn"][v] + a ELSE counter["perTxn"][v]
      /\ counter'["daily"][v] = IF both THEN counter["daily"][v] + a ELSE counter["daily"][v]
  <2>1. /\ passed <=> ~(counter["perTxn"][v] + a > PerTxn)
        /\ both <=> passed /\ ~(counter["daily"][v] + a > Daily)
    BY <1>2, <1>3, <1>5
  <2> HIDE DEF passed, both
  <2>2. CASE passed
    <3>1. /\ first["daily"] [v] = counter["daily"][v]
          /\ first["perTxn"][v] = counter["perTxn"][v] + a
          /\ \A u \in Windows : /\ first["reward"][u] = counter["reward"][u]
                                /\ first["daily"][u] = counter["daily"][u]
                                /\ u # v => first["perTxn"][u] = counter["perTxn"][u]
      BY <1>2, <1>3, <1>6, <1>13, <2>1, <2>2 DEF Consumed
    <3>2. /\ second \in CounterRows
          /\ \A u \in Windows : /\ second["reward"][u] = first["reward"][u]
                                /\ second["perTxn"][u] = first["perTxn"][u]
                                /\ u # v => second["daily"][u] = first["daily"][u]
          /\ second["daily"][v] = IF both THEN first["daily"][v] + a ELSE first["daily"][v]
      BY <1>2, <1>3, <1>7, <1>13, <2>1, <2>2, <3>1 DEF Consumed
    <3> QED
      BY <1>2, <1>4, <2>2, <3>1, <3>2
  <2>3. CASE ~passed
    BY <1>3, <1>4, <2>1, <2>3
  <2> QED
    BY <2>2, <2>3
<1>9. LimitTypeOK'
  <2>1. work' \in [Workers -> [kind : {"reward"}, deal : RewardDeals, at : 0..LastTick]
                    \cup [kind : {"lock"}, amount : Volumes, at : 0..LastTick] \cup {Idle}]
    BY <1>1, <1>4 DEF LimitTypeOK
  <2>2. locked' \in [Windows -> Nat]
    BY <1>1, <1>2, <1>3, <1>4 DEF LimitTypeOK
  <2> QED
    BY <1>1, <1>4, <1>8, <2>1, <2>2 DEF LimitTypeOK, CounterRows
<1>10. ASSUME NEW u \in Windows
       PROVE  /\ counter'["perTxn"][u] <= PerTxn /\ counter'["daily"][u] <= Daily
              /\ locked'[u] <= counter'["perTxn"][u] /\ locked'[u] <= counter'["daily"][u]
  <2>1. /\ counter["perTxn"][u] <= PerTxn /\ counter["daily"][u] <= Daily
        /\ locked[u] <= counter["perTxn"][u] /\ locked[u] <= counter["daily"][u]
    BY DEF LimitInv
  <2>2. CASE u # v
    <3>1. locked'[u] = locked[u]
      BY <1>1, <1>4, <2>2 DEF LimitTypeOK
    <3> QED
      BY <1>8, <2>1, <2>2, <3>1
  <2>3. CASE u = v
    <3>1. locked'[v] = IF both /\ sufficient THEN locked[v] + a ELSE locked[v]
      BY <1>1, <1>2, <1>4 DEF LimitTypeOK
    <3>2. /\ passed => counter["perTxn"][v] + a <= PerTxn
          /\ both => passed /\ counter["daily"][v] + a <= Daily
      BY <1>2, <1>3, <1>5
    <3> HIDE DEF passed, both
    <3> QED
      BY <1>2, <1>3, <1>8, <2>1, <2>3, <3>1, <3>2
  <2> QED
    BY <2>2, <2>3
<1>11. \A u \in Windows : Counted(u)' = Counted(u)
  BY <1>4 DEF Counted, GrantedIn, Granted
<1> QED
  BY <1>4, <1>8, <1>9, <1>10, <1>11 DEF LimitInv, Granted

LEMMA LimitStepInv == LimitInv /\ [LimitNext]_limitVars => LimitInv'
<1> SUFFICES ASSUME LimitInv, [LimitNext]_limitVars PROVE LimitInv'
  OBVIOUS
<1>1. CASE UNCHANGED limitVars
  BY <1>1 DEF limitVars, LimitInv, LimitTypeOK, Counted, GrantedIn, Granted
<1>2. CASE LimitNext
  BY <1>2, NothingCountedInv, FinishRewardInv, FinishLockInv DEF LimitNext
<1> QED
  BY <1>1, <1>2

LEMMA LimitInvariant == LimitSpec => []LimitInv
  BY LimitInitInv, LimitStepInv, PTL DEF LimitSpec

(* The types of counters and of the transactions that count.                *)
THEOREM LimitTypesHold == LimitSpec => []LimitTypeOK
<1>1. LimitInv => LimitTypeOK
  BY DEF LimitInv
<1> QED
  BY <1>1, LimitInvariant, PTL

(* LimitsHold in every reachable state, for any limits, amounts and number *)
(* of transactions in progress: what a counter holds is what was granted,  *)
(* and no less than what was locked (consumeLimit, evaluateRewardFor,      *)
(* lockDealValue).                                                         *)
THEOREM LimitsHoldAlways == LimitSpec => []LimitsHold
<1>1. ASSUME LimitInv PROVE LimitsHold
  <2> SUFFICES ASSUME NEW v \in Windows
               PROVE  /\ Cardinality(Counted(v)) <= MaxCount
                      /\ counter["reward"][v] = Cardinality(Counted(v))
                      /\ locked[v] <= PerTxn /\ locked[v] <= Daily
    BY DEF LimitsHold, Counted
  <2>1. /\ counter["perTxn"][v] \in Nat /\ counter["daily"][v] \in Nat /\ locked[v] \in Nat
        /\ PerTxn \in Nat /\ Daily \in Nat
    BY <1>1, LimitTypes DEF LimitInv, Limits
  <2> QED
    BY <1>1, <2>1 DEF LimitInv
<1> QED
  BY <1>1, LimitInvariant, PTL

-----------------------------------------------------------------------------
(***************************************************************************)
(* Evidence.  One upload at a time fills a row, and only a row whose       *)
(* ticket was not spent, so a verdict that was committed is the last word  *)
(* on the row; a capability serves only while it is live, which it is no   *)
(* more once it has served.                                                *)
(***************************************************************************)
UploadRows == [kind : {"upload"}, object : Objects, file : Files, at : {"redeemed", "put", "cut"}]
FetchRows == [kind : {"fetch"}, token : Tokens, by : Viewers, allowed : BOOLEAN]

ObjectRight(o) ==
  /\ object[o].ticket = "live" => object[o].state = "PENDING"
  /\ object[o].state = "READY" => object[o].hash \in Clean

FillingRight(c, o) ==
  Filling(c, o) => /\ object[o].state = "PENDING"
                   /\ \A d \in Jobs : Filling(d, o) => d = c

TokenRight(k) ==
  /\ token[k].state # "none" => token[k].object \in Objects
  /\ token[k].state \in {"none", "live"} => served[k].times = 0

ServedRight(k) ==
  served[k].times > 0 =>
    /\ served[k].times = 1
    /\ served[k].to = token[k].holder
    /\ served[k].file \in Clean
    /\ object[token[k].object].state = "READY"
    /\ served[k].file = object[token[k].object].hash

EvidenceInv ==
  /\ EvidenceTypeOK
  /\ \A o \in Objects : ObjectRight(o)
  /\ \A c \in Jobs, o \in Objects : FillingRight(c, o)
  /\ \A k \in Tokens : TokenRight(k) /\ ServedRight(k)

LEMMA EvidenceInitInv == EvidenceInit => EvidenceInv
<1> SUFFICES ASSUME EvidenceInit PROVE EvidenceInv
  OBVIOUS
<1>1. EvidenceTypeOK
  BY DEF EvidenceInit, EvidenceTypeOK, NoObject, NoToken, NotServed
<1>2. \A o \in Objects : ObjectRight(o)
  BY DEF EvidenceInit, ObjectRight, NoObject
<1>3. \A c \in Jobs, o \in Objects : FillingRight(c, o)
  BY DEF EvidenceInit, FillingRight, Filling, Quiet
<1>4. \A k \in Tokens : TokenRight(k) /\ ServedRight(k)
  BY DEF EvidenceInit, TokenRight, ServedRight, NoToken, NotServed
<1> QED
  BY <1>1, <1>2, <1>3, <1>4 DEF EvidenceInv

(* The steps that touch neither rows nor capabilities, and let no upload   *)
(* begin.                                                                  *)
LEMMA RowsStandInv ==
  ASSUME EvidenceInv, EvidenceTypeOK', UNCHANGED <<object, token, served>>,
         \A c \in Jobs, o \in Objects : Filling(c, o)' => Filling(c, o)
  PROVE  EvidenceInv'
<1>1. \A o \in Objects : ObjectRight(o)'
  BY DEF EvidenceInv, ObjectRight
<1>2. \A c \in Jobs, o \in Objects : FillingRight(c, o)'
  BY DEF EvidenceInv, FillingRight
<1>3. \A k \in Tokens : TokenRight(k)' /\ ServedRight(k)'
  BY DEF EvidenceInv, TokenRight, ServedRight
<1> QED
  BY <1>1, <1>2, <1>3 DEF EvidenceInv

(* A row that was not READY changes, and what fills it stays or ends.      *)
LEMMA RowMovesInv ==
  ASSUME EvidenceInv, EvidenceTypeOK', UNCHANGED <<token, served>>,
         NEW o \in Objects, NEW c \in Jobs,
         \A p \in Objects \ {o} : object'[p] = object[p],
         object[o].state # "READY", ObjectRight(o)',
         \A d \in Jobs, p \in Objects : Filling(d, p)' => Filling(d, p),
         object'[o].state = "PENDING" \/ \A d \in Jobs : ~Filling(d, o)'
  PROVE  EvidenceInv'
<1>1. \A p \in Objects : ObjectRight(p)'
  BY DEF EvidenceInv, ObjectRight
<1>2. \A d \in Jobs, p \in Objects : FillingRight(d, p)'
  BY DEF EvidenceInv, FillingRight
<1>3. ASSUME NEW k \in Tokens PROVE TokenRight(k)' /\ ServedRight(k)'
  <2>1. TokenRight(k) /\ ServedRight(k) /\ served[k].times \in Nat
    BY DEF EvidenceInv, EvidenceTypeOK
  <2>2. TokenRight(k)'
    BY <2>1 DEF TokenRight
  <2>3. CASE served[k].times > 0
    <3>1. token[k].object \in Objects /\ token[k].object # o
      BY <2>1, <2>3 DEF TokenRight, ServedRight, EvidenceInv, EvidenceTypeOK
    <3> QED
      BY <2>1, <2>2, <2>3, <3>1 DEF ServedRight
  <2>4. CASE ~(served[k].times > 0)
    BY <2>2, <2>4 DEF ServedRight
  <2> QED
    BY <2>3, <2>4
<1> QED
  BY <1>1, <1>2, <1>3 DEF EvidenceInv

LEMMA AuthorityInv ==
  ASSUME EvidenceInv, NEW p \in Viewers, ChangeAuthority(p)
  PROVE  EvidenceInv'
<1>1. EvidenceTypeOK'
  BY DEF EvidenceInv, EvidenceTypeOK, ChangeAuthority
<1> QED
  BY <1>1, RowsStandInv DEF ChangeAuthority, Filling

LEMMA LoseBytesInv ==
  ASSUME EvidenceInv, NEW o \in Objects, LoseBytes(o)
  PROVE  EvidenceInv'
<1>1. EvidenceTypeOK'
  BY DEF EvidenceInv, EvidenceTypeOK, LoseBytes
<1> QED
  BY <1>1, RowsStandInv DEF LoseBytes, Filling

LEMMA BeginUploadInv ==
  ASSUME EvidenceInv, NEW o \in Objects, BeginUpload(o) \/ LapseTicket(o)
  PROVE  EvidenceInv'
<1>1. EvidenceTypeOK /\ ObjectRight(o)
  BY DEF EvidenceInv
<1>2. object[o] = NoObject \/ object[o].ticket = "live"
  BY DEF BeginUpload, LapseTicket
<1>3. /\ object'[o].state = "PENDING" /\ object'[o].hash \in Files \cup {Blank}
      /\ object' = [object EXCEPT ![o] = object'[o]]
      /\ object'[o] \in [state : {"none", "PENDING", "READY", "REJECTED"},
                         ticket : {"none", "live", "spent", "lapsed"}, hash : Files \cup {Blank}]
      /\ object[o].state # "READY"
      /\ UNCHANGED <<stored, job, token, mayRead, served>>
  <2>1. CASE BeginUpload(o)
    <3> DEFINE x == [state |-> "PENDING", ticket |-> "live", hash |-> Blank]
    <3>1. object' = [object EXCEPT ![o] = x] /\ object[o] = NoObject
          /\ UNCHANGED <<stored, job, token, mayRead, served>>
      BY <2>1 DEF BeginUpload
    <3>2. object'[o] = x /\ object' = [object EXCEPT ![o] = object'[o]]
      BY <1>1, <3>1 DEF EvidenceTypeOK
    <3> QED
      BY <3>1, <3>2 DEF NoObject
  <2>2. CASE LapseTicket(o)
    <3> DEFINE x == [object[o] EXCEPT !.ticket = "lapsed"]
    <3>1. object' = [object EXCEPT ![o] = x] /\ object[o].state = "PENDING"
          /\ UNCHANGED <<stored, job, token, mayRead, served>>
      BY <1>1, <2>2 DEF LapseTicket, ObjectRight
    <3>2. object[o] \in [state : {"none", "PENDING", "READY", "REJECTED"},
                         ticket : {"none", "live", "spent", "lapsed"}, hash : Files \cup {Blank}]
      BY <1>1 DEF EvidenceTypeOK
    <3>3. object'[o] = x /\ object' = [object EXCEPT ![o] = object'[o]]
      BY <1>1, <3>1 DEF EvidenceTypeOK
    <3> QED
      BY <3>1, <3>2, <3>3
  <2> QED
    BY <2>1, <2>2
<1>4. EvidenceTypeOK'
  BY <1>1, <1>3 DEF EvidenceTypeOK
<1>5. \A p \in Objects \ {o} : object'[p] = object[p]
  BY <1>1, <1>3 DEF EvidenceTypeOK
<1>6. ObjectRight(o)'
  BY <1>3 DEF ObjectRight
<1>7. CASE Jobs = {}
  <2>1. \A k \in Tokens : TokenRight(k)' /\ (served[k].times > 0 => token[k].object \in Objects \ {o})
    BY <1>1, <1>3 DEF EvidenceInv, EvidenceTypeOK, TokenRight, ServedRight
  <2> QED
    BY <1>3, <1>4, <1>5, <1>6, <1>7, <2>1 DEF EvidenceInv, ObjectRight, ServedRight, FillingRight
<1>8. CASE Jobs # {}
  BY <1>3, <1>4, <1>5, <1>6, <1>8, RowMovesInv DEF Filling
<1> QED
  BY <1>7, <1>8

LEMMA RedeemTicketInv ==
  ASSUME EvidenceInv, NEW c \in Jobs, NEW o \in Objects, NEW f \in Files, RedeemTicket(c, o, f)
  PROVE  EvidenceInv'
<1>1. EvidenceTypeOK /\ ObjectRight(o)
  BY DEF EvidenceInv
<1> DEFINE q == [kind |-> "upload", object |-> o, file |-> f, at |-> "redeemed"]
<1>2. q \in UploadRows /\ q.object = o
  BY DEF UploadRows
<1>3. /\ job' = [job EXCEPT ![c] = q] /\ UNCHANGED <<object, stored, token, mayRead, served>>
      /\ object[o].ticket = "live" /\ \A d \in Jobs : ~Filling(d, o)
  BY DEF RedeemTicket
<1> HIDE DEF q
<1>4. EvidenceTypeOK'
  BY <1>1, <1>2, <1>3 DEF EvidenceTypeOK, UploadRows
<1>5. \A d \in Jobs \ {c} : job'[d] = job[d]
  BY <1>1, <1>3 DEF EvidenceTypeOK
<1>6. job'[c] = q
  BY <1>1, <1>3 DEF EvidenceTypeOK
<1>7. ASSUME NEW d \in Jobs, NEW p \in Objects
      PROVE  Filling(d, p)' => IF d = c THEN p = o ELSE Filling(d, p)
  BY <1>2, <1>5, <1>6 DEF Filling
<1>8. \A d \in Jobs, p \in Objects : FillingRight(d, p)'
  BY <1>1, <1>3, <1>7 DEF EvidenceInv, FillingRight, ObjectRight
<1>9. \A p \in Objects : ObjectRight(p)'
  BY <1>3 DEF EvidenceInv, ObjectRight
<1>10. \A k \in Tokens : TokenRight(k)' /\ ServedRight(k)'
  BY <1>3 DEF EvidenceInv, TokenRight, ServedRight
<1> QED
  BY <1>4, <1>8, <1>9, <1>10 DEF EvidenceInv

(* A request that is over, or goes on with another row of the same kind    *)
(* for the same evidence, fills nothing it did not fill before.            *)
LEMMA NothingNewFilled ==
  ASSUME EvidenceTypeOK, NEW c \in Jobs, NEW q,
         job' = [job EXCEPT ![c] = q],
         q.kind # "upload" \/ (/\ job[c].kind = "upload" /\ q.object = job[c].object
                               /\ q.at = "cut" \/ job[c].at # "cut")
  PROVE  \A d \in Jobs, o \in Objects : Filling(d, o)' => Filling(d, o)
<1>1. job'[c] = q /\ \A d \in Jobs \ {c} : job'[d] = job[d]
  BY DEF EvidenceTypeOK
<1> QED
  BY <1>1 DEF Filling

LEMMA UploadTypes ==
  ASSUME EvidenceTypeOK, NEW c \in Jobs, job[c].kind = "upload"
  PROVE  job[c] \in UploadRows
  BY DEF EvidenceTypeOK, UploadRows, FetchRows, Quiet

LEMMA VerdictInv ==
  ASSUME EvidenceInv, NEW c \in Jobs, RefuseUnfit(c) \/ CommitVerdict(c)
  PROVE  EvidenceInv'
<1>1. EvidenceTypeOK
  BY DEF EvidenceInv
<1>2. job[c].kind = "upload" /\ job[c].at # "cut"
  BY DEF RefuseUnfit, CommitVerdict
<1>3. job[c] \in UploadRows
  BY <1>1, <1>2, UploadTypes
<1>4. PICK o \in Objects : o = job[c].object
  BY <1>3 DEF UploadRows
<1>5. PICK f \in Files : f = job[c].file
  BY <1>3 DEF UploadRows
<1>6. Filling(c, o)
  BY <1>2, <1>4 DEF Filling
<1>7. object[o].state = "PENDING" /\ \A d \in Jobs : Filling(d, o) => d = c
  BY <1>6 DEF EvidenceInv, FillingRight
<1>8. /\ object' = [object EXCEPT ![o] = object'[o]]
      /\ object'[o] \in [state : {"none", "PENDING", "READY", "REJECTED"},
                         ticket : {"none", "live", "spent", "lapsed"}, hash : Files \cup {Blank}]
      /\ object'[o].ticket = "spent"
      /\ object'[o].state = "READY" => object'[o].hash \in Clean
      /\ job' = [job EXCEPT ![c] = Quiet]
      /\ UNCHANGED <<stored, token, mayRead, served>>
  <2>1. CASE RefuseUnfit(c)
    <3>1. /\ object' = [object EXCEPT ![o].state = "REJECTED", ![o].ticket = "spent"]
          /\ job' = [job EXCEPT ![c] = Quiet]
          /\ UNCHANGED <<stored, token, mayRead, served>>
      BY <1>4, <2>1 DEF RefuseUnfit
    <3> DEFINE x == [[object[o] EXCEPT !.state = "REJECTED"] EXCEPT !.ticket = "spent"]
    <3>2. object' = [object EXCEPT ![o] = x]
      BY <1>1, <3>1 DEF EvidenceTypeOK
    <3>3. /\ x \in [state : {"none", "PENDING", "READY", "REJECTED"},
                    ticket : {"none", "live", "spent", "lapsed"}, hash : Files \cup {Blank}]
          /\ x.ticket = "spent" /\ x.state = "REJECTED"
      <4>1. object[o] \in [state : {"none", "PENDING", "READY", "REJECTED"},
                           ticket : {"none", "live", "spent", "lapsed"}, hash : Files \cup {Blank}]
        BY <1>1 DEF EvidenceTypeOK
      <4> QED
        BY <4>1
    <3> HIDE DEF x
    <3> QED
      BY <1>1, <3>1, <3>2, <3>3 DEF EvidenceTypeOK
  <2>2. CASE CommitVerdict(c)
    <3>1. /\ object' = [object EXCEPT ![o] = [state |-> IF f \in Clean THEN "READY" ELSE "REJECTED",
                                              ticket |-> "spent", hash |-> f]]
          /\ job' = [job EXCEPT ![c] = Quiet]
          /\ UNCHANGED <<stored, token, mayRead, served>>
      BY <1>4, <1>5, <2>2 DEF CommitVerdict
    <3>2. CASE f \in Clean
      BY <1>1, <3>1, <3>2 DEF EvidenceTypeOK
    <3>3. CASE f \notin Clean
      BY <1>1, <3>1, <3>3 DEF EvidenceTypeOK
    <3> QED
      BY <3>2, <3>3
  <2> QED
    BY <2>1, <2>2
<1>9. EvidenceTypeOK'
  BY <1>1, <1>8 DEF EvidenceTypeOK
<1>10. \A p \in Objects \ {o} : object'[p] = object[p]
  BY <1>1, <1>8 DEF EvidenceTypeOK
<1>11. ObjectRight(o)'
  BY <1>8 DEF ObjectRight
<1>12. \A d \in Jobs, p \in Objects : Filling(d, p)' => Filling(d, p)
  BY <1>1, <1>8, NothingNewFilled DEF Quiet
<1>13. \A d \in Jobs : ~Filling(d, o)'
  BY <1>1, <1>7, <1>8, <1>12 DEF Filling, Quiet, EvidenceTypeOK
<1> QED
  BY <1>7, <1>8, <1>9, <1>10, <1>11, <1>12, <1>13, RowMovesInv

LEMMA BytesInv ==
  ASSUME EvidenceInv, NEW c \in Jobs,
         PutBytes(c) \/ \E runsOn \in BOOLEAN : CutOff(c, runsOn)
  PROVE  EvidenceInv'
<1>1. EvidenceTypeOK
  BY DEF EvidenceInv
<1>2. job[c].kind = "upload"
  BY DEF PutBytes, CutOff
<1>3. job[c] \in UploadRows
  BY <1>1, <1>2, UploadTypes
<1>4. UNCHANGED <<object, token, mayRead, served>> /\ stored' \in [Objects -> Files \cup {Blank}]
  BY <1>1, <1>3 DEF PutBytes, CutOff, EvidenceTypeOK, UploadRows
<1>5. PICK q \in UploadRows \cup {Quiet} :
        /\ job' = [job EXCEPT ![c] = q]
        /\ q.kind # "upload" \/ (/\ q.object = job[c].object
                                 /\ q.at = "cut" \/ job[c].at # "cut")
  <2>1. Quiet.kind # "upload"
    BY DEF Quiet
  <2>2. ASSUME NEW at \in {"put", "cut"}
        PROVE  /\ [job[c] EXCEPT !.at = at] \in UploadRows
               /\ [job[c] EXCEPT !.at = at].object = job[c].object
               /\ [job[c] EXCEPT !.at = at].at = at
    BY <1>3 DEF UploadRows
  <2>3. CASE PutBytes(c)
    <3>1. \/ job' = [job EXCEPT ![c] = Quiet]
          \/ job[c].at # "cut" /\ job' = [job EXCEPT ![c] = [job[c] EXCEPT !.at = "put"]]
      BY <2>3 DEF PutBytes
    <3> QED
      BY <2>1, <2>2, <3>1
  <2>4. ASSUME NEW runsOn \in BOOLEAN, CutOff(c, runsOn)
        PROVE  \E q \in UploadRows \cup {Quiet} :
                 /\ job' = [job EXCEPT ![c] = q]
                 /\ q.kind # "upload" \/ (/\ q.object = job[c].object
                                          /\ q.at = "cut" \/ job[c].at # "cut")
    <3>1. \/ job' = [job EXCEPT ![c] = Quiet]
          \/ job' = [job EXCEPT ![c] = [job[c] EXCEPT !.at = "cut"]]
      BY <2>4 DEF CutOff
    <3> QED
      BY <2>1, <2>2, <3>1
  <2> QED
    BY <2>3, <2>4
<1>6. EvidenceTypeOK'
  BY <1>1, <1>4, <1>5 DEF EvidenceTypeOK, UploadRows
<1>7. \A d \in Jobs, o \in Objects : Filling(d, o)' => Filling(d, o)
  BY <1>1, <1>2, <1>5, NothingNewFilled
<1> QED
  BY <1>4, <1>6, <1>7, RowsStandInv

LEMMA CapabilityInv ==
  ASSUME EvidenceInv, NEW k \in Tokens,
         LapseToken(k) \/ \E p \in Viewers, o \in Objects : RequestDownload(k, p, o)
  PROVE  EvidenceInv'
<1>1. EvidenceTypeOK /\ TokenRight(k) /\ ServedRight(k)
  BY DEF EvidenceInv
<1>2. UNCHANGED <<object, stored, job, mayRead, served>> /\ served[k].times = 0
  BY <1>1 DEF LapseToken, RequestDownload, TokenRight, NoToken
<1>3. PICK x \in [state : {"live", "lapsed"}, object : Objects, holder : Viewers \cup {Blank}] :
        token' = [token EXCEPT ![k] = x]
  <2>1. CASE LapseToken(k)
    <3> DEFINE x == [token[k] EXCEPT !.state = "lapsed"]
    <3>1. x \in [state : {"live", "lapsed"}, object : Objects, holder : Viewers \cup {Blank}]
      BY <1>1, <2>1 DEF LapseToken, EvidenceTypeOK, TokenRight
    <3> QED
      BY <2>1, <3>1 DEF LapseToken
  <2>2. ASSUME NEW p \in Viewers, NEW o \in Objects, RequestDownload(k, p, o)
        PROVE  \E x \in [state : {"live", "lapsed"}, object : Objects, holder : Viewers \cup {Blank}] :
                 token' = [token EXCEPT ![k] = x]
    <3> DEFINE x == [state |-> "live", object |-> o, holder |-> p]
    <3>1. x \in [state : {"live", "lapsed"}, object : Objects, holder : Viewers \cup {Blank}]
      OBVIOUS
    <3> QED
      BY <2>2, <3>1 DEF RequestDownload
  <2> QED
    BY <2>1, <2>2
<1>4. EvidenceTypeOK'
  BY <1>1, <1>2, <1>3 DEF EvidenceTypeOK
<1>5. ASSUME NEW j \in Tokens PROVE TokenRight(j)' /\ ServedRight(j)'
  <2>1. token'[j] = IF j = k THEN x ELSE token[j]
    BY <1>1, <1>3 DEF EvidenceTypeOK
  <2> QED
    BY <1>2, <2>1 DEF EvidenceInv, TokenRight, ServedRight
<1>6. \A o \in Objects : ObjectRight(o)'
  BY <1>2 DEF EvidenceInv, ObjectRight
<1>7. \A c \in Jobs, o \in Objects : FillingRight(c, o)'
  BY <1>2 DEF EvidenceInv, FillingRight, Filling
<1> QED
  BY <1>4, <1>5, <1>6, <1>7 DEF EvidenceInv

LEMMA BeginFetchInv ==
  ASSUME EvidenceInv, NEW c \in Jobs, NEW p \in Viewers, NEW k \in Tokens, BeginFetch(c, p, k)
  PROVE  EvidenceInv'
<1>1. EvidenceTypeOK
  BY DEF EvidenceInv
<1> DEFINE may == p \in mayRead
           q == [kind |-> "fetch", token |-> k, by |-> p, allowed |-> may]
<1>2. may \in BOOLEAN
  OBVIOUS
<1>3. job' = [job EXCEPT ![c] = q] /\ UNCHANGED <<object, stored, token, mayRead, served>>
  BY DEF BeginFetch
<1> HIDE DEF may
<1>4. q \in FetchRows /\ q.kind # "upload"
  BY <1>2 DEF FetchRows
<1> HIDE DEF q
<1>5. EvidenceTypeOK'
  BY <1>1, <1>3, <1>4 DEF EvidenceTypeOK, FetchRows
<1>6. \A d \in Jobs, o \in Objects : Filling(d, o)' => Filling(d, o)
  BY <1>1, <1>3, <1>4, NothingNewFilled
<1> QED
  BY <1>3, <1>5, <1>6, RowsStandInv

LEMMA FinishFetchInv ==
  ASSUME EvidenceInv, NEW c \in Jobs, FinishFetch(c)
  PROVE  EvidenceInv'
<1>1. EvidenceTypeOK
  BY DEF EvidenceInv
<1>2. job[c] \in FetchRows
  BY <1>1 DEF FinishFetch, EvidenceTypeOK, FetchRows, Quiet
<1>3. PICK k \in Tokens : k = job[c].token
  BY <1>2 DEF FetchRows
<1>4. PICK p \in Viewers : p = job[c].by
  BY <1>2 DEF FetchRows
<1>5. job' = [job EXCEPT ![c] = Quiet] /\ UNCHANGED <<object, stored, mayRead>>
  BY DEF FinishFetch
<1>6. \A d \in Jobs, o \in Objects : Filling(d, o)' => Filling(d, o)
  BY <1>1, <1>5, NothingNewFilled DEF Quiet
<1>7. TokenRight(k) /\ ServedRight(k) /\ served[k].times \in Nat
  BY <1>1 DEF EvidenceInv, EvidenceTypeOK
<1>8. \A o \in Objects : ObjectRight(o)'
  BY <1>5 DEF EvidenceInv, ObjectRight
<1>9. \A d \in Jobs, o \in Objects : FillingRight(d, o)'
  BY <1>5, <1>6 DEF EvidenceInv, FillingRight
<1>10. CASE token[k].state # "live"
  <2>1. UNCHANGED <<token, served>>
    BY <1>3, <1>10 DEF FinishFetch
  <2>2. EvidenceTypeOK'
    <3>1. UNCHANGED <<object, stored, mayRead, token, served>>
      BY <1>5, <2>1
    <3> QED
      BY <1>1, <1>5, <3>1 DEF EvidenceTypeOK
  <2> QED
    BY <1>5, <1>6, <2>1, <2>2, RowsStandInv
<1>11. CASE token[k].state = "live"
  <2>1. token[k].object \in Objects /\ served[k].times = 0
    BY <1>7, <1>11 DEF TokenRight
  <2>2. PICK o \in Objects : o = token[k].object
    BY <2>1
  <2>3. token' = [token EXCEPT ![k].state = "spent"]
    <3> DEFINE x == job[c].token
    <3>1. token' = IF token[x].state = "live" THEN [token EXCEPT ![x].state = "spent"] ELSE token
      BY DEF FinishFetch
    <3> HIDE DEF x
    <3>2. x = k
      BY <1>3 DEF x
    <3> QED
      BY <1>11, <3>1, <3>2
  <2>4. \/ served' = served
        \/ /\ served' = [served EXCEPT ![k] = [times |-> @.times + 1, file |-> stored[o], to |-> p]]
           /\ token[k].holder = p /\ object[o].state = "READY" /\ stored[o] = object[o].hash
    BY <1>3, <1>4, <1>11, <2>2 DEF FinishFetch, Intact
  <2>5. /\ token'[k].state = "spent" /\ token'[k].object = o /\ token'[k].holder = token[k].holder
        /\ \A j \in Tokens \ {k} : token'[j] = token[j]
        /\ token' \in [Tokens -> [state : {"none", "live", "spent", "lapsed"},
                                  object : Objects \cup {Blank}, holder : Viewers \cup {Blank}]]
    <3> DEFINE x == [token[k] EXCEPT !.state = "spent"]
    <3>1. /\ x \in [state : {"none", "live", "spent", "lapsed"},
                    object : Objects \cup {Blank}, holder : Viewers \cup {Blank}]
          /\ x.state = "spent" /\ x.object = token[k].object /\ x.holder = token[k].holder
      <4>1. token[k] \in [state : {"none", "live", "spent", "lapsed"},
                          object : Objects \cup {Blank}, holder : Viewers \cup {Blank}]
        BY <1>1 DEF EvidenceTypeOK
      <4> QED
        BY <4>1
    <3>2. token' = [token EXCEPT ![k] = x]
      BY <2>3
    <3> HIDE DEF x
    <3> QED
      BY <1>1, <2>2, <3>1, <3>2 DEF EvidenceTypeOK
  <2>6. CASE served' = served
    <3>1. EvidenceTypeOK'
      BY <1>1, <1>5, <2>5, <2>6 DEF EvidenceTypeOK
    <3>2. ASSUME NEW j \in Tokens PROVE TokenRight(j)' /\ ServedRight(j)'
      <4>1. CASE j = k
        BY <2>1, <2>5, <2>6, <4>1 DEF TokenRight, ServedRight
      <4>2. CASE j # k
        BY <1>5, <2>5, <2>6, <4>2 DEF EvidenceInv, TokenRight, ServedRight
      <4> QED
        BY <4>1, <4>2
    <3> QED
      BY <1>8, <1>9, <3>1, <3>2 DEF EvidenceInv
  <2>7. CASE served' # served
    <3>1. /\ served' = [served EXCEPT ![k] = [times |-> 1, file |-> stored[o], to |-> p]]
          /\ token[k].holder = p /\ object[o].state = "READY" /\ stored[o] = object[o].hash
      BY <1>1, <2>1, <2>4, <2>7 DEF EvidenceTypeOK
    <3>2. object[o].hash \in Clean
      BY <3>1 DEF EvidenceInv, ObjectRight
    <3>3. stored[o] \in Files \cup {Blank}
      BY <1>1 DEF EvidenceTypeOK
    <3>4. /\ served'[k].times = 1 /\ served'[k].file = stored[o] /\ served'[k].to = p
          /\ \A j \in Tokens \ {k} : served'[j] = served[j]
          /\ served' \in [Tokens -> [times : Nat, file : Files \cup {Blank},
                                     to : Viewers \cup {Blank}]]
      BY <1>1, <3>1, <3>3 DEF EvidenceTypeOK
    <3>5. EvidenceTypeOK'
      BY <1>1, <1>5, <2>5, <3>4 DEF EvidenceTypeOK
    <3>6. ASSUME NEW j \in Tokens PROVE TokenRight(j)' /\ ServedRight(j)'
      <4>1. CASE j = k
        BY <1>5, <2>2, <2>5, <3>1, <3>2, <3>4, <4>1 DEF TokenRight, ServedRight
      <4>2. CASE j # k
        BY <1>5, <2>5, <3>4, <4>2 DEF EvidenceInv, TokenRight, ServedRight
      <4> QED
        BY <4>1, <4>2
    <3> QED
      BY <1>8, <1>9, <3>5, <3>6 DEF EvidenceInv
  <2> QED
    BY <2>6, <2>7
<1> QED
  BY <1>10, <1>11

LEMMA EvidenceStepInv == EvidenceInv /\ [EvidenceNext]_evidenceVars => EvidenceInv'
<1> SUFFICES ASSUME EvidenceInv, [EvidenceNext]_evidenceVars PROVE EvidenceInv'
  OBVIOUS
<1>1. CASE UNCHANGED evidenceVars
  <2>1. EvidenceTypeOK' /\ \A c \in Jobs, o \in Objects : Filling(c, o)' => Filling(c, o)
    BY <1>1 DEF EvidenceInv, EvidenceTypeOK, evidenceVars, Filling
  <2> QED
    BY <1>1, <2>1, RowsStandInv DEF evidenceVars
<1>2. ASSUME NEW p \in Viewers, ChangeAuthority(p) PROVE EvidenceInv'
  BY <1>2, AuthorityInv
<1>3. ASSUME NEW o \in Objects, BeginUpload(o) \/ LapseTicket(o) PROVE EvidenceInv'
  BY <1>3, BeginUploadInv
<1>4. ASSUME NEW o \in Objects, LoseBytes(o) PROVE EvidenceInv'
  BY <1>4, LoseBytesInv
<1>5. ASSUME NEW k \in Tokens,
             LapseToken(k) \/ \E p \in Viewers, o \in Objects : RequestDownload(k, p, o)
      PROVE  EvidenceInv'
  BY <1>5, CapabilityInv
<1>6. ASSUME NEW c \in Jobs, NEW o \in Objects, NEW f \in Files, RedeemTicket(c, o, f)
      PROVE  EvidenceInv'
  BY <1>6, RedeemTicketInv
<1>7. ASSUME NEW c \in Jobs, RefuseUnfit(c) \/ CommitVerdict(c) PROVE EvidenceInv'
  BY <1>7, VerdictInv
<1>8. ASSUME NEW c \in Jobs, PutBytes(c) \/ \E runsOn \in BOOLEAN : CutOff(c, runsOn)
      PROVE  EvidenceInv'
  BY <1>8, BytesInv
<1>9. ASSUME NEW c \in Jobs, NEW p \in Viewers, NEW k \in Tokens, BeginFetch(c, p, k)
      PROVE  EvidenceInv'
  BY <1>9, BeginFetchInv
<1>10. ASSUME NEW c \in Jobs, FinishFetch(c) PROVE EvidenceInv'
  BY <1>10, FinishFetchInv
<1> QED
  BY <1>1, <1>2, <1>3, <1>4, <1>5, <1>6, <1>7, <1>8, <1>9, <1>10 DEF EvidenceNext

LEMMA EvidenceInvariant == EvidenceSpec => []EvidenceInv
  BY EvidenceInitInv, EvidenceStepInv, PTL DEF EvidenceSpec

(* The types of evidence rows, capabilities and requests.                   *)
THEOREM EvidenceTypesHold == EvidenceSpec => []EvidenceTypeOK
<1>1. EvidenceInv => EvidenceTypeOK
  BY DEF EvidenceInv
<1> QED
  BY <1>1, EvidenceInvariant, PTL

(* ServedIsWhatWasJudged in every reachable state, for any evidence rows,  *)
(* contents, people and requests: a capability gives out once, to its      *)
(* holder, the content the scanner passed, whatever was cut off, repeated  *)
(* or stored late (completeUpload, redeemCapability, fetchEvidence).       *)
THEOREM ServedIsWhatWasJudgedHolds == EvidenceSpec => []ServedIsWhatWasJudged
<1>1. EvidenceInv => ServedIsWhatWasJudged
  BY DEF EvidenceInv, ServedRight, ServedIsWhatWasJudged
<1> QED
  BY <1>1, EvidenceInvariant, PTL

-----------------------------------------------------------------------------
(* What the sequence and the unique command id give: places are distinct    *)
(* and drawn.                                                               *)
PlacesAreDistinct ==
  /\ \A m \in Messages : posted[m].state # "none" => posted[m].seq \in 1..drawn
  /\ \A m, n \in Messages :
        posted[m].state # "none" /\ posted[n].state # "none" /\ posted[m].seq = posted[n].seq
        => m = n

(* What a reader was shown was committed and lies before its cursor.        *)
ShownIsBehind ==
  \A r \in Readers :
    /\ reader[r].at = "away" => reader[r].shown = <<>> /\ reader[r].cursor = 0
    /\ reader[r].known \subseteq Visible
    /\ \A i \in DOMAIN reader[r].shown :
          /\ reader[r].shown[i] \in Visible
          /\ reader[r].at = "reading" => posted[reader[r].shown[i]].seq <= reader[r].cursor

TranscriptInv == TranscriptTypeOK /\ PlacesAreDistinct /\ ShownIsBehind /\ PagesAreWhole

-----------------------------------------------------------------------------
(* The rows in their order.                                                 *)
LEMMA PlaceFacts ==
  ASSUME TranscriptTypeOK, PlacesAreDistinct, NEW rows \in SUBSET Visible
  PROVE  /\ IsFiniteSet(rows)
         /\ Cardinality(rows) \in Nat
         /\ \A m \in rows : Place(m, rows) \in 1..Cardinality(rows)
         /\ \A m, n \in rows : posted[m].seq < posted[n].seq <=> Place(m, rows) < Place(n, rows)
<1>1. rows \in SUBSET Messages /\ IsFiniteSet(rows) /\ Cardinality(rows) \in Nat
  BY TranscriptAssumption, FS_Subset, FS_CardinalityType DEF Visible
<1> DEFINE Upto(m) == {n \in rows : posted[n].seq <= posted[m].seq}
<1>2. \A m \in rows : IsFiniteSet(Upto(m)) /\ Cardinality(Upto(m)) \in Nat
                      /\ Cardinality(Upto(m)) <= Cardinality(rows)
  BY <1>1, FS_Subset, FS_CardinalityType
<1>3. \A m \in rows : posted[m].seq \in Nat
  BY <1>1, TranscriptAssumption DEF TranscriptTypeOK
<1>4. ASSUME NEW m \in rows PROVE Cardinality(Upto(m)) # 0
  <2>1. m \in Upto(m)
    BY <1>3
  <2> QED
    BY <1>2, <2>1, FS_EmptySet
<1>5. ASSUME NEW m \in rows, NEW n \in rows, posted[m].seq < posted[n].seq
      PROVE  Cardinality(Upto(m)) < Cardinality(Upto(n))
  <2>1. Upto(m) \in SUBSET Upto(n)
    BY <1>3, <1>5
  <2>2. n \in Upto(n) /\ n \notin Upto(m)
    BY <1>3, <1>5
  <2>3. Upto(m) # Upto(n)
    BY <2>2
  <2> HIDE DEF Upto
  <2> QED
    BY <1>2, <2>1, <2>3, FS_Subset
<1>6. ASSUME NEW m \in rows, NEW n \in rows, ~(posted[m].seq < posted[n].seq)
      PROVE  ~(Cardinality(Upto(m)) < Cardinality(Upto(n)))
  <2>1. Upto(n) \in SUBSET Upto(m)
    BY <1>3, <1>6
  <2> HIDE DEF Upto
  <2> QED
    BY <1>2, <2>1, FS_Subset
<1>7. \A m \in rows : Place(m, rows) = Cardinality(Upto(m))
  BY DEF Place
<1> HIDE DEF Upto
<1> QED
  BY <1>1, <1>2, <1>4, <1>5, <1>6, <1>7

LEMMA EveryPlaceIsTaken ==
  ASSUME TranscriptTypeOK, PlacesAreDistinct, NEW rows \in SUBSET Visible,
         NEW k \in 1..Cardinality(rows)
  PROVE  \E m \in rows : Place(m, rows) = k
<1> DEFINE f == [m \in rows |-> Place(m, rows)]
           T == 1..Cardinality(rows)
<1>1. Cardinality(rows) \in Nat /\ IsFiniteSet(rows)
  BY PlaceFacts
<1>2. IsFiniteSet(T) /\ Cardinality(T) = Cardinality(rows)
  BY <1>1, FS_Interval
<1>3. f \in [rows -> T]
  BY PlaceFacts
<1>4. ASSUME NEW m \in rows, NEW n \in rows, f[m] = f[n] PROVE m = n
  <2>1. ~(posted[m].seq < posted[n].seq) /\ ~(posted[n].seq < posted[m].seq)
    BY <1>1, <1>3, <1>4, PlaceFacts
  <2>2. posted[m].seq \in Nat /\ posted[n].seq \in Nat
    BY TranscriptAssumption DEF TranscriptTypeOK, Visible
  <2> QED
    BY <2>1, <2>2 DEF PlacesAreDistinct, Visible
<1>5. f \in Injection(rows, T)
  <2> HIDE DEF f, T
  <2> QED
    BY <1>3, <1>4 DEF Injection, IsInjective
<1>6. f \in Surjection(rows, T)
  <2> HIDE DEF f, T
  <2> QED
    BY <1>2, <1>5, FS_Injection
<1>7. \E m \in rows : f[m] = k
  <2> HIDE DEF f
  <2> QED
    BY <1>6 DEF Surjection
<1> QED
  BY <1>7

LEMMA InOrderFacts ==
  ASSUME TranscriptTypeOK, PlacesAreDistinct, NEW rows \in SUBSET Visible
  PROVE  /\ InOrder(rows) \in Seq(rows)
         /\ Len(InOrder(rows)) = Cardinality(rows)
         /\ Cardinality(rows) \in Nat
         /\ \A i, j \in 1..Cardinality(rows) :
               i < j <=> posted[InOrder(rows)[i]].seq < posted[InOrder(rows)[j]].seq
         /\ \A m \in rows : \E i \in 1..Cardinality(rows) : InOrder(rows)[i] = m
<1> DEFINE s == InOrder(rows)
           n == Cardinality(rows)
<1>1. n \in Nat
  BY PlaceFacts
<1>2. \A k \in 1..n : s[k] \in rows /\ Place(s[k], rows) = k
  BY EveryPlaceIsTaken DEF InOrder
<1>3. s = [k \in 1..n |-> s[k]]
  BY DEF InOrder
<1>4. s \in Seq(rows) /\ Len(s) = n
  <2> HIDE DEF s, n
  <2> QED
    BY <1>1, <1>2, <1>3
<1>5. \A i, j \in 1..n : i < j <=> posted[s[i]].seq < posted[s[j]].seq
  <2> HIDE DEF s, n
  <2> QED
    BY <1>1, <1>2, PlaceFacts
<1>6. ASSUME NEW m \in rows PROVE \E i \in 1..n : s[i] = m
  <2> DEFINE k == Place(m, rows)
  <2>1. k \in 1..n
    BY PlaceFacts
  <2>2. s[k] \in rows /\ Place(s[k], rows) = k
    BY <1>2, <2>1
  <2>3. ~(posted[s[k]].seq < posted[m].seq) /\ ~(posted[m].seq < posted[s[k]].seq)
    <3> HIDE DEF s
    <3> QED
      BY <1>1, <2>1, <2>2, PlaceFacts
  <2>4. posted[s[k]].seq \in Nat /\ posted[m].seq \in Nat
    BY <2>2, TranscriptAssumption DEF TranscriptTypeOK, Visible
  <2>5. s[k] = m
    BY <2>2, <2>3, <2>4 DEF PlacesAreDistinct, Visible
  <2> QED
    BY <2>1, <2>5
<1> QED
  BY <1>1, <1>4, <1>5, <1>6

-----------------------------------------------------------------------------
LEMMA TranscriptInitInv == TranscriptInit => TranscriptInv
<1> SUFFICES ASSUME TranscriptInit PROVE TranscriptInv
  OBVIOUS
<1>1. TranscriptTypeOK
  BY TranscriptAssumption DEF TranscriptInit, TranscriptTypeOK, NotPosted
<1>2. \A r \in Readers : /\ reader[r].shown = <<>> /\ DOMAIN reader[r].shown = {}
                         /\ reader[r].known = {} /\ reader[r].cursor = 0
                         /\ reader[r].at = "away"
  BY DEF TranscriptInit
<1>3. PlacesAreDistinct
  BY DEF TranscriptInit, PlacesAreDistinct, NotPosted
<1>4. ShownIsBehind /\ PagesAreWhole
  BY <1>2 DEF ShownIsBehind, PagesAreWhole
<1> QED
  BY <1>1, <1>3, <1>4 DEF TranscriptInv

(* The writers never disturb what a reader has seen: a committed message    *)
(* keeps its place.                                                         *)
LEMMA ReadersUndisturbed ==
  ASSUME TranscriptInv, UNCHANGED reader,
         \A m \in Visible : m \in Visible' /\ posted'[m].seq = posted[m].seq
  PROVE  ShownIsBehind' /\ PagesAreWhole'
<1>1. ShownIsBehind'
  BY DEF TranscriptInv, ShownIsBehind
<1>2. ASSUME NEW r \in Readers, NEW i \in DOMAIN reader[r].shown
      PROVE  posted'[reader[r].shown[i]].seq = posted[reader[r].shown[i]].seq
  BY DEF TranscriptInv, ShownIsBehind
<1>3. ASSUME NEW r \in Readers, NEW m \in reader[r].known
      PROVE  posted'[m].seq = posted[m].seq
  BY DEF TranscriptInv, ShownIsBehind
<1>4. PagesAreWhole'
  BY <1>2, <1>3 DEF TranscriptInv, PagesAreWhole
<1> QED
  BY <1>1, <1>4

LEMMA WriterInv ==
  ASSUME TranscriptInv, NEW m \in Messages,
         PostMessage(m) \/ CommitMessage(m) \/ RollBackMessage(m)
  PROVE  TranscriptInv'
<1> USE DEF TranscriptInv
<1>1. CASE PostMessage(m)
  <2>1. TranscriptTypeOK'
    BY <1>1, TranscriptAssumption DEF PostMessage, TranscriptTypeOK
  <2>2. PlacesAreDistinct'
    BY <1>1, TranscriptAssumption DEF PostMessage, TranscriptTypeOK, PlacesAreDistinct, NotPosted
  <2>3. \A n \in Visible : n \in Visible' /\ posted'[n].seq = posted[n].seq
    BY <1>1 DEF PostMessage, Visible, NotPosted, TranscriptTypeOK
  <2> QED
    BY <1>1, <2>1, <2>2, <2>3, ReadersUndisturbed DEF PostMessage
<1>2. CASE CommitMessage(m)
  <2>1. TranscriptTypeOK'
    BY <1>2, TranscriptAssumption DEF CommitMessage, TranscriptTypeOK
  <2>2. PlacesAreDistinct'
    BY <1>2, TranscriptAssumption DEF CommitMessage, TranscriptTypeOK, PlacesAreDistinct
  <2>3. \A n \in Visible : n \in Visible' /\ posted'[n].seq = posted[n].seq
    BY <1>2 DEF CommitMessage, Visible, TranscriptTypeOK
  <2> QED
    BY <1>2, <2>1, <2>2, <2>3, ReadersUndisturbed DEF CommitMessage
<1>3. CASE RollBackMessage(m)
  <2>1. TranscriptTypeOK'
    BY <1>3, TranscriptAssumption DEF RollBackMessage, TranscriptTypeOK, NotPosted
  <2>2. PlacesAreDistinct'
    BY <1>3, TranscriptAssumption DEF RollBackMessage, TranscriptTypeOK, PlacesAreDistinct, NotPosted
  <2>3. \A n \in Visible : n \in Visible' /\ posted'[n].seq = posted[n].seq
    BY <1>3 DEF RollBackMessage, Visible, TranscriptTypeOK
  <2> QED
    BY <1>3, <2>1, <2>2, <2>3, ReadersUndisturbed DEF RollBackMessage
<1> QED
  BY <1>1, <1>2, <1>3

LEMMA Appended ==
  ASSUME NEW M, NEW s \in Seq(M), NEW t \in Seq(M)
  PROVE  /\ s \o t \in Seq(M) /\ Len(s) \in Nat /\ Len(t) \in Nat
         /\ DOMAIN (s \o t) = 1..(Len(s) + Len(t)) /\ DOMAIN s = 1..Len(s)
         /\ \A i \in 1..Len(s) : (s \o t)[i] = s[i]
         /\ \A i \in (Len(s) + 1)..(Len(s) + Len(t)) :
               i - Len(s) \in 1..Len(t) /\ (s \o t)[i] = t[i - Len(s)]
  OBVIOUS

LEMMA OpenRoomInv ==
  ASSUME TranscriptInv, NEW r \in Readers, OpenRoom(r)
  PROVE  TranscriptInv'
<1> USE DEF TranscriptInv
<1>1. /\ reader'[r].at = "reading" /\ reader'[r].known = Visible
      /\ reader'[r].shown = <<>> /\ reader'[r].cursor = 0
      /\ reader[r].shown = <<>>
      /\ \A q \in Readers \ {r} : reader'[q] = reader[q]
      /\ posted' = posted /\ drawn' = drawn
  BY DEF OpenRoom, TranscriptTypeOK, ShownIsBehind
<1>2. TranscriptTypeOK'
  <2> DEFINE Row == [at : {"away", "reading", "done"}, cursor : 0..MaxSeq,
                     shown : Seq(Messages), known : SUBSET Messages]
             x == [[reader[r] EXCEPT !.at = "reading"] EXCEPT !.known = Visible]
  <2>1. Visible \in SUBSET Messages
    BY DEF Visible
  <2>2. reader \in [Readers -> Row] /\ reader' = [reader EXCEPT ![r] = x]
    BY DEF OpenRoom, TranscriptTypeOK
  <2>3. x \in Row
    BY <2>1, <2>2
  <2> HIDE DEF Row, x
  <2>4. reader' \in [Readers -> Row]
    BY <2>2, <2>3
  <2> QED
    BY <1>1, <2>4 DEF TranscriptTypeOK, Row
<1>3. PlacesAreDistinct'
  BY <1>1 DEF PlacesAreDistinct
<1>4. Visible' = Visible
  BY <1>1 DEF Visible
<1>5. ASSUME NEW m \in Visible PROVE posted[m].seq > 0
  BY TranscriptAssumption DEF Visible, PlacesAreDistinct, TranscriptTypeOK
<1>6. DOMAIN reader'[r].shown = {}
  BY <1>1
<1>7. ShownIsBehind'
  BY <1>1, <1>4, <1>6 DEF ShownIsBehind
<1>8. PagesAreWhole'
  BY <1>1, <1>5, <1>6 DEF PagesAreWhole
<1> QED
  BY <1>2, <1>3, <1>7, <1>8

(* One page: what was shown before lies behind the cursor, the page is the  *)
(* head of what lies after it, and what is left lies after the new cursor.  *)
LEMMA ReadPageInv ==
  ASSUME TranscriptInv, NEW r \in Readers, ReadPage(r)
  PROVE  TranscriptInv'
<1> USE DEF TranscriptInv
<1> DEFINE set   == RowsAfter(reader[r].cursor)
           rows  == InOrder(set)
           size  == Cardinality(set)
           more  == Len(rows) > PageSize
           page  == Page(rows)
           shown == reader[r].shown
           old   == reader[r].cursor
           next  == IF more THEN NextCursor(rows) ELSE old
           n     == IF size < PageSize THEN size ELSE PageSize
<1>1. /\ reader[r].at = "reading"
      /\ reader'[r].at = IF more THEN "reading" ELSE "done"
      /\ reader'[r].known = reader[r].known
      /\ reader'[r].shown = shown \o page
      /\ reader'[r].cursor = next
      /\ \A q \in Readers \ {r} : reader'[q] = reader[q]
      /\ posted' = posted /\ drawn' = drawn
  BY DEF ReadPage, TranscriptTypeOK
<1>2. set \in SUBSET Visible /\ \A m \in Visible : m \in set <=> posted[m].seq > old
  BY DEF RowsAfter
<1> HIDE DEF set
<1>3. /\ rows \in Seq(set) /\ Len(rows) = size /\ size \in Nat
      /\ \A i, j \in 1..size : i < j <=> posted[rows[i]].seq < posted[rows[j]].seq
      /\ \A m \in set : \E i \in 1..size : rows[i] = m
  BY <1>2, InOrderFacts
<1> HIDE DEF rows, size
<1>4. n \in Nat /\ n <= size /\ n <= PageSize /\ (more => n = PageSize) /\ (~more => n = size)
  BY <1>3, TranscriptAssumption
<1> HIDE DEF n
<1>5. page \in Seq(set) /\ Len(page) = n /\ \A i \in 1..n : page[i] = rows[i]
  BY <1>3, <1>4, TranscriptAssumption DEF Page, n
<1>6. \A i \in 1..size : rows[i] \in set /\ posted[rows[i]].seq \in 1..MaxSeq
  BY <1>2, <1>3, TranscriptAssumption DEF Visible, TranscriptTypeOK, PlacesAreDistinct
<1>7. old \in 0..MaxSeq /\ shown \in Seq(Messages)
  BY DEF TranscriptTypeOK
<1>8. next \in 0..MaxSeq /\ old <= next
      /\ (more => \A i \in 1..n : posted[rows[i]].seq <= next)
  <2>1. CASE more
    <3>1. PageSize \in 1..size /\ n = PageSize
      BY <1>3, <1>4, <2>1, TranscriptAssumption
    <3>2. next = posted[rows[PageSize]].seq
      BY <2>1 DEF NextCursor
    <3>3. rows[PageSize] \in set /\ posted[rows[PageSize]].seq \in 1..MaxSeq
      BY <1>6, <3>1
    <3>4. old < posted[rows[PageSize]].seq
      BY <1>2, <3>3, <1>7, TranscriptAssumption
    <3>5. \A i \in 1..n : ~(posted[rows[PageSize]].seq < posted[rows[i]].seq)
      BY <1>3, <3>1
    <3>6. \A i \in 1..n : posted[rows[i]].seq \in 1..MaxSeq
      BY <1>3, <1>4, <1>6
    <3> QED
      BY <1>7, <3>2, <3>3, <3>4, <3>5, <3>6, TranscriptAssumption
  <2>2. CASE ~more
    BY <1>7, <2>2, TranscriptAssumption
  <2> QED
    BY <2>1, <2>2
<1> HIDE DEF next, page
<1> DEFINE all == shown \o page
           k   == Len(shown)
<1>9. /\ all \in Seq(Messages) /\ k \in Nat /\ DOMAIN all = 1..(k + n) /\ DOMAIN shown = 1..k
      /\ \A i \in 1..k : all[i] = shown[i]
      /\ \A i \in (k + 1)..(k + n) : i - k \in 1..n /\ all[i] = rows[i - k]
  <2>1. page \in Seq(Messages)
    <3>1. set \subseteq Messages
      BY <1>2 DEF Visible
    <3> QED
      BY <1>5, <3>1
  <2>2. \A i \in (k + 1)..(k + n) : i - k \in 1..n /\ all[i] = page[i - k]
    BY <1>5, <1>7, <2>1, Appended
  <2>3. all \in Seq(Messages) /\ k \in Nat
    BY <1>7, <2>1
  <2>5. DOMAIN shown = 1..k /\ \A i \in 1..k : all[i] = shown[i]
    BY <1>7, <2>1, Appended
  <2>6. DOMAIN all = 1..(k + n)
    <3>1. DOMAIN all = 1..(Len(shown) + Len(page))
      BY <1>7, <2>1, Appended
    <3> QED
      BY <1>5, <3>1
  <2> HIDE DEF all, k
  <2>4. \A i \in (k + 1)..(k + n) : all[i] = rows[i - k]
    BY <1>5, <2>2
  <2> QED
    BY <2>2, <2>3, <2>4, <2>5, <2>6
<1>10. TranscriptTypeOK'
  <2> DEFINE at == IF more THEN "reading" ELSE "done"
             Row == [at : {"away", "reading", "done"}, cursor : 0..MaxSeq,
                     shown : Seq(Messages), known : SUBSET Messages]
             x == [[[reader[r] EXCEPT !.shown = all] EXCEPT !.cursor = next] EXCEPT !.at = at]
  <2>1. reader' = [reader EXCEPT ![r] = x]
    BY DEF ReadPage, all, page, rows, set, next, TranscriptTypeOK
  <2>2. reader \in [Readers -> Row] /\ at \in {"away", "reading", "done"}
    BY DEF TranscriptTypeOK
  <2>3. all \in Seq(Messages) /\ next \in 0..MaxSeq
    BY <1>8, <1>9
  <2> HIDE DEF all, at
  <2>4. x \in Row
    BY <2>2, <2>3
  <2> HIDE DEF x, Row
  <2>5. reader' \in [Readers -> Row]
    BY <2>1, <2>2, <2>4
  <2> QED
    BY <1>1, <2>5 DEF TranscriptTypeOK, Row
<1>11. PlacesAreDistinct' /\ Visible' = Visible
  BY <1>1 DEF PlacesAreDistinct, Visible
<1>12. ASSUME NEW i \in 1..k
       PROVE  all[i] \in Visible /\ posted[all[i]].seq <= old /\ posted[all[i]].seq \in 0..MaxSeq
  <2>1. all[i] = shown[i] /\ i \in DOMAIN shown
    BY <1>9
  <2>2. shown[i] \in Visible /\ posted[shown[i]].seq <= old
    BY <1>1, <2>1 DEF ShownIsBehind
  <2>3. \A m \in Visible : posted[m].seq \in 0..MaxSeq
    BY DEF Visible, TranscriptTypeOK
  <2> QED
    BY <2>1, <2>2, <2>3
<1>13. ASSUME NEW i \in (k + 1)..(k + n)
       PROVE  /\ all[i] \in Visible /\ posted[all[i]].seq > old
              /\ posted[all[i]].seq \in 0..MaxSeq
              /\ more => posted[all[i]].seq <= next
  <2>1. all[i] = rows[i - k] /\ i - k \in 1..n /\ i - k \in 1..size
    <3>1. all[i] = rows[i - k] /\ i - k \in 1..n
      BY <1>9
    <3> QED
      BY <1>3, <1>4, <3>1
  <2>2. rows[i - k] \in set /\ posted[rows[i - k]].seq \in 0..MaxSeq
    BY <1>6, <2>1, TranscriptAssumption
  <2>3. rows[i - k] \in Visible /\ posted[rows[i - k]].seq > old
    BY <1>2, <2>2
  <2>4. more => posted[rows[i - k]].seq <= next
    BY <1>8, <2>1
  <2> QED
    BY <2>1, <2>2, <2>3, <2>4
<1> HIDE DEF all, k, more
<1>14. \A i \in DOMAIN all : i \in 1..k \/ i \in (k + 1)..(k + n)
  BY <1>4, <1>9
<1>15. ShownIsBehind'
  <2>1. ASSUME NEW i \in DOMAIN all
        PROVE  all[i] \in Visible /\ (more => posted[all[i]].seq <= next)
    BY <1>7, <1>8, <1>12, <1>13, <1>14, TranscriptAssumption
  <2>2. reader'[r].shown = all
    BY <1>1 DEF all
  <2> QED
    BY <1>1, <1>11, <2>1, <2>2 DEF ShownIsBehind
<1>16. ASSUME NEW i \in DOMAIN all, NEW j \in DOMAIN all, i < j
       PROVE  posted[all[i]].seq < posted[all[j]].seq
  <2>1. CASE j \in 1..k
    <3>1. i \in 1..k
      BY <1>9, <1>16, <2>1
    <3>2. all[i] = shown[i] /\ all[j] = shown[j] /\ i \in DOMAIN shown /\ j \in DOMAIN shown
      BY <1>9, <2>1, <3>1
    <3> QED
      BY <1>16, <3>2 DEF PagesAreWhole, shown
  <2>2. CASE i \in 1..k /\ j \in (k + 1)..(k + n)
    BY <1>7, <1>12, <1>13, <2>2, TranscriptAssumption
  <2>3. CASE i \in (k + 1)..(k + n) /\ j \in (k + 1)..(k + n)
    <3>1. /\ all[i] = rows[i - k] /\ all[j] = rows[j - k]
          /\ i - k \in 1..size /\ j - k \in 1..size /\ i - k < j - k
      BY <1>3, <1>4, <1>9, <1>16, <2>3
    <3> QED
      BY <1>3, <3>1
  <2> QED
    BY <1>9, <1>14, <1>16, <2>1, <2>2, <2>3
<1>17. ASSUME NEW m \in reader[r].known
       PROVE  (\E i \in DOMAIN all : all[i] = m) \/ (more /\ posted[m].seq > next)
  <2>1. m \in Visible
    BY DEF ShownIsBehind
  <2>2. CASE m \in Range(shown)
    <3>1. PICK i \in DOMAIN shown : shown[i] = m
      BY <2>2 DEF Range
    <3> QED
      BY <1>4, <1>9, <3>1
  <2>3. CASE m \notin Range(shown)
    <3>1. posted[m].seq > old
      BY <2>3 DEF PagesAreWhole, shown, old
    <3>2. PICK i \in 1..size : rows[i] = m
      BY <1>2, <1>3, <2>1, <3>1
    <3>3. CASE i <= n
      <4>1. k + i \in (k + 1)..(k + n) /\ (k + i) - k = i /\ k + i \in DOMAIN all
        BY <1>4, <1>9, <3>2, <3>3
      <4> QED
        BY <1>9, <3>2, <4>1
    <3>4. CASE ~(i <= n)
      <4>1. more /\ n = PageSize
        BY <1>3, <1>4, <3>2, <3>4
      <4>2. PageSize \in 1..size /\ PageSize < i
        BY <1>3, <1>4, <3>2, <3>4, <4>1, TranscriptAssumption
      <4>3. next = posted[rows[PageSize]].seq
        BY <4>1 DEF next, NextCursor
      <4>4. posted[rows[PageSize]].seq < posted[rows[i]].seq
        BY <1>3, <3>2, <4>2
      <4>5. posted[rows[PageSize]].seq \in Int /\ posted[m].seq \in Int
        BY <1>6, <3>2, <4>2
      <4> QED
        BY <3>2, <4>1, <4>3, <4>4, <4>5
    <3> QED
      BY <3>3, <3>4
  <2> QED
    BY <2>2, <2>3
<1>18. PagesAreWhole'
  <2>1. reader'[r].shown = all /\ (more => reader'[r].at = "reading")
    BY <1>1 DEF all, more
  <2>2. ASSUME NEW q \in Readers
        PROVE  /\ \A i, j \in DOMAIN reader'[q].shown :
                     i < j => posted[reader'[q].shown[i]].seq < posted[reader'[q].shown[j]].seq
               /\ \A m \in reader'[q].known :
                     \/ m \in Range(reader'[q].shown)
                     \/ reader'[q].at = "reading" /\ posted[m].seq > reader'[q].cursor
    <3>1. CASE q = r
      BY <1>1, <1>16, <1>17, <2>1, <3>1 DEF Range
    <3>2. CASE q # r
      BY <1>1, <3>2 DEF PagesAreWhole
    <3> QED
      BY <3>1, <3>2
  <2> QED
    BY <1>1, <2>2 DEF PagesAreWhole
<1> QED
  BY <1>10, <1>11, <1>15, <1>18

LEMMA TranscriptNextInv == TranscriptInv /\ [TranscriptNext]_transcriptVars => TranscriptInv'
<1> SUFFICES ASSUME TranscriptInv, [TranscriptNext]_transcriptVars PROVE TranscriptInv'
  OBVIOUS
<1>1. CASE UNCHANGED transcriptVars
  BY <1>1 DEF transcriptVars, TranscriptInv, TranscriptTypeOK, PlacesAreDistinct, ShownIsBehind,
     PagesAreWhole, Visible
<1> QED
  BY <1>1, WriterInv, OpenRoomInv, ReadPageInv DEF TranscriptNext

LEMMA TranscriptInvariant == TranscriptSpec => []TranscriptInv
  BY TranscriptInitInv, TranscriptNextInv, PTL DEF TranscriptSpec

(* The types of messages and readers.                                       *)
THEOREM TranscriptTypesHold == TranscriptSpec => []TranscriptTypeOK
<1>1. TranscriptInv => TranscriptTypeOK
  BY DEF TranscriptInv
<1> QED
  BY <1>1, TranscriptInvariant, PTL

(* Whoever posts, commits or rolls back between the pages, a reader is      *)
(* shown each message once, in order, and none that was there is left out.  *)
THEOREM PagesAreWholeHolds == TranscriptSpec => []PagesAreWhole
<1>1. TranscriptInv => PagesAreWhole
  BY DEF TranscriptInv
<1> QED
  BY <1>1, TranscriptInvariant, PTL
=============================================================================
