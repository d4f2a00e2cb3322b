--------------------------- MODULE DealSafeProofs ---------------------------
(***************************************************************************)
(* Proofs about DealSafe, for any people, operators, deals, amounts, fees, *)
(* policies, bounds and any set of exposed commands.                       *)
(*                                                                         *)
(* First the refinement: whatever a deal does to its value is something    *)
(* the ledger offers, so what is proved of the ledger holds under every    *)
(* interleaving of the deals.  Then the types and the freeze, which are    *)
(* inductive together: only the types say that an unjoined deal is not     *)
(* DISPUTED.  Then what a ruling has decided, and the screens alone        *)
(* (Exposed = {}), where a deal also says what its lock must be; what a    *)
(* disputed deal keeps still until it is ruled over; and what the end of a *)
(* deal says of its USDT, which step pays it, and who it makes poorer.     *)
(***************************************************************************)
EXTENDS DealSafe, ValueLedgerProofs

LedgerStep == LedgerNext \/ UNCHANGED ledgerVars

LEMMA LockIsLedgerStep ==
  ASSUME NEW d \in Deals, NEW u \in Users, NEW a \in Amounts, LockDealValue(d, u, a)
  PROVE  LedgerStep
  BY DEF LedgerStep, LedgerNext, ValueNext

LEMMA SettleIsLedgerStep ==
  ASSUME NEW d \in Deals, NEW b \in Users, ReleaseDealValue(d, b) \/ RefundDealValue(d, b)
  PROVE  LedgerStep
  BY DEF LedgerStep, LedgerNext, ValueNext

LEMMA HoldIsLedgerStep ==
  ASSUME NEW p \in Points, NEW s \in Subjects(p), PlaceHold(s, p)
  PROVE  LedgerStep
  BY DEF LedgerStep, LedgerNext, ControlNext

(* Who is asked about: an owner at the join, a locked deal at settlement.  *)
LEMMA SubjectsOf ==
  /\ Subjects("VALUE_LOCK") = Users
  /\ Subjects("DISPUTE_RESOLVE") = Deals
  /\ Subjects("ESCROW_RELEASE") = {d \in Deals : lock[d].state = "LOCKED"}
  /\ Subjects("ESCROW_REFUND") = {d \in Deals : lock[d].state = "LOCKED"}
  /\ {"VALUE_LOCK", "DISPUTE_RESOLVE", "ESCROW_RELEASE", "ESCROW_REFUND"} = Points
  BY DEF Subjects, Points

(* What keeps the parties of a settlement people: the types of the deal    *)
(* tables, and of the owner the lock row names.                            *)
LEMMA PartiesAreUsers ==
  ASSUME LedgerInv, DealTypeOK, NEW d \in Deals, deal[d] # "NONE"
  PROVE  /\ CryptoSide(d) \in Users
         /\ FiatSide(d) \in Users
         /\ \A u : Counterparty(d, u) \in Users
         /\ lock[d].state = "LOCKED" => lock[d].owner \in Users
  BY DEF LedgerInv, LedgerTypeOK, DealTypeOK, RowsAgree, Counterparty

DealInv == LedgerInv /\ DealTypeOK /\ CaseFreezesDeal

LEMMA JoinLedgerStep ==
  ASSUME DealInv, NEW d \in Deals, NEW u \in Users, JoinDealLink(d, u)
  PROVE  LedgerStep
<1> USE DealAssumption DEF DealInv, DealTypeOK, RowsAgree
<1>1. PICK r \in Roles :
        /\ seats[d][r] = NoUser
        /\ LET seated == [seats[d] EXCEPT ![r] = u]
               owner  == seated["CRYPTO_SIDE"]
           IN  \/ LockDealValue(d, owner, DealAmount[d])
               \/ UNCHANGED ledgerVars
               \/ PlaceHold(owner, "VALUE_LOCK")
  BY DEF JoinDealLink
<1> DEFINE owner == [seats[d] EXCEPT ![r] = u]["CRYPTO_SIDE"]
<1>2. CASE owner \in Users
  <2>1. CASE LockDealValue(d, owner, DealAmount[d])
    BY <1>2, <2>1, LockIsLedgerStep
  <2>2. CASE PlaceHold(owner, "VALUE_LOCK")
    BY <1>2, <2>2, HoldIsLedgerStep, SubjectsOf DEF Points
  <2> QED
    BY <1>1, <2>1, <2>2 DEF LedgerStep
<1>3. owner \in Users
  <2>1. link[d] = "OPEN" /\ seats[d][r] = NoUser
    BY <1>1 DEF JoinDealLink
  <2>2. seats[d][OtherRole(r)] \in Users
    BY <2>1, LedgerAssumption DEF OtherRole, Roles
  <2> QED
    BY <2>2 DEF OtherRole, Roles
<1> QED
  BY <1>2, <1>3

LEMMA ConfirmLedgerStep ==
  ASSUME DealInv, NEW d \in Deals, ConfirmReceipt(d)
  PROVE  LedgerStep
<1>1. FiatSide(d) \in Users
  BY PartiesAreUsers DEF DealInv, ConfirmReceipt
<1>2. CASE ReleaseDealValue(d, FiatSide(d))
  BY <1>1, <1>2, SettleIsLedgerStep
<1>3. CASE ReleaseRefused(d)
  BY <1>3, HoldIsLedgerStep, SubjectsOf DEF ReleaseRefused, Refused, LedgerStep, Points
<1> QED
  BY <1>2, <1>3 DEF ConfirmReceipt, LedgerStep

LEMMA ApproveLedgerStep ==
  ASSUME DealInv, NEW d \in Deals, NEW i, NEW o, ApproveResolution(d, i, o)
  PROVE  LedgerStep
<1> DEFINE ruling == proposals[d][i].disposition
<1>1. deal[d] # "NONE"
  BY DEF ApproveResolution, DealInv, CaseFreezesDeal
<1>2. CASE SettleAsRuled(d, ruling)
  <2>1. lock[d].state = "LOCKED"
    BY <1>2 DEF SettleAsRuled, ReleaseDealValue, RefundDealValue, SettleLock
  <2> QED
    BY <1>1, <1>2, <2>1, PartiesAreUsers, SettleIsLedgerStep DEF SettleAsRuled, DealInv
<1>3. CASE PlaceHold(d, "DISPUTE_RESOLVE")
  BY <1>3, HoldIsLedgerStep, SubjectsOf DEF Points
<1>4. CASE lock[d].state = "LOCKED" /\ PlaceHold(d, RulingPoint(ruling))
  BY <1>4, HoldIsLedgerStep, SubjectsOf DEF RulingPoint, Points
<1> QED
  BY <1>2, <1>3, <1>4 DEF ApproveResolution

LEMMA CommandLedgerStep == DealInv /\ CommandNext => LedgerStep
<1> SUFFICES ASSUME DealInv, CommandNext PROVE LedgerStep
  OBVIOUS
<1>1. ASSUME NEW d \in Deals, NEW u \in Users, NEW a \in Amounts, LockValue(d, u, a)
      PROVE  LedgerStep
  BY <1>1, LockIsLedgerStep, HoldIsLedgerStep, SubjectsOf DEF LockValue, Points
<1>2. ASSUME NEW d \in Deals, NEW s \in Settlements, NEW b \in Users, StartSettleValue(d, s, b)
      PROVE  LedgerStep
  BY <1>2 DEF StartSettleValue, LedgerStep
<1>3. ASSUME NEW call \in settling, FinishSettleValue(call) PROVE LedgerStep
  <2>1. call.deal \in Deals /\ call.beneficiary \in Users
    BY DEF DealInv, DealTypeOK
  <2> QED
    BY <1>3, <2>1, SettleIsLedgerStep, HoldIsLedgerStep, SubjectsOf
       DEF FinishSettleValue, LedgerStep, Points
<1>4. ASSUME NEW d \in Deals, ReverseValue(d) PROVE LedgerStep
  BY <1>4 DEF ReverseValue, LedgerStep, LedgerNext, ValueNext
<1> QED
  BY <1>1, <1>2, <1>3, <1>4 DEF CommandNext

(* Every step of a deal is a step of the ledger, or leaves it alone.       *)
LEMMA DealStepIsLedgerStep == DealInv /\ [DealNext]_dealSafeVars => [LedgerNext]_ledgerVars
<1> SUFFICES ASSUME DealInv, [DealNext]_dealSafeVars PROVE LedgerStep
  BY DEF LedgerStep
<1>1. CASE LinkNext
  BY <1>1, JoinLedgerStep DEF LinkNext, CreateDealLink, CloseDealLink, WindowPasses, LedgerStep
<1>2. CASE PaymentNext
  BY <1>2, ConfirmLedgerStep
     DEF PaymentNext, SubmitPaymentClaim, CancelDeal, ExpireDealIfLapsed, LedgerStep
<1>3. CASE DisputeNext
  BY <1>3, ApproveLedgerStep DEF DisputeNext, RaiseDispute, OpenDisputeCase, OpenCase,
     ProposeResolution, RejectProposal, LedgerStep
<1>4. CASE CommandNext
  BY <1>4, CommandLedgerStep
<1>5. CASE SupportNext
  BY <1>5 DEF SupportNext, LedgerStep, LedgerNext, ValueNext, ControlNext
<1>6. CASE UNCHANGED dealSafeVars
  BY <1>6 DEF dealSafeVars, LedgerStep
<1> QED
  BY <1>1, <1>2, <1>3, <1>4, <1>5, <1>6 DEF DealNext

-----------------------------------------------------------------------------
(* Types and the freeze.                                                   *)

DealTables == DealTypeOK /\ CaseFreezesDeal

LEMMA DealInitInv == DealInit => DealInv
<1> SUFFICES ASSUME DealInit PROVE DealInv
  OBVIOUS
<1>1. LedgerInv
  BY LedgerInitInv DEF DealInit
<1>2. \A d \in Deals : proposals[d] \in Seq(Proposals)
  BY DEF DealInit
<1>3. DealTypeOK /\ CaseFreezesDeal
  BY <1>2 DEF DealInit, DealTypeOK, RowsAgree, CaseFreezesDeal, CaseActive, NoCase, EmptySeats,
     LinkStates, DealStates, CaseStates
<1> QED
  BY <1>1, <1>3 DEF DealInv

(* Outside the links nobody sits down or gets up, so the rows agree as     *)
(* long as no deal appears or vanishes.                                    *)
LEMMA RowsStay ==
  ASSUME DealTypeOK, UNCHANGED <<link, seats>>,
         \A d \in Deals : deal'[d] = "NONE" <=> deal[d] = "NONE"
  PROVE  \A d \in Deals : RowsAgree(d)'
  BY DEF DealTypeOK, RowsAgree, CryptoSide, FiatSide

LEMMA CreateTables ==
  ASSUME DealInv, NEW d \in Deals, NEW u \in Users, NEW r \in Roles, CreateDealLink(d, u, r)
  PROVE  DealTables'
<1> USE DEF DealInv
<1>1. link[d] = "NONE" /\ deal[d] = "NONE" /\ seats[d] = EmptySeats
  BY DEF CreateDealLink, DealTypeOK, RowsAgree
<1>2. link'[d] = "OPEN" /\ seats' = [seats EXCEPT ![d][r] = u]
  BY DEF CreateDealLink, DealTypeOK
<1>3. seats'[d][r] = u /\ seats'[d][OtherRole(r)] = NoUser
  BY <1>1, <1>2 DEF EmptySeats, OtherRole, Roles, DealTypeOK
<1>4. \A e \in Deals : RowsAgree(e)'
  <2> SUFFICES ASSUME NEW e \in Deals PROVE RowsAgree(e)'
    OBVIOUS
  <2>1. CASE e = d
    BY <1>1, <1>2, <1>3, <2>1 DEF CreateDealLink, RowsAgree
  <2>2. CASE e # d
    <3>1. link'[e] = link[e] /\ seats'[e] = seats[e] /\ deal'[e] = deal[e]
      BY <2>2 DEF CreateDealLink, DealTypeOK
    <3> QED
      BY <3>1 DEF RowsAgree, DealTypeOK, CryptoSide, FiatSide
  <2> QED
    BY <2>1, <2>2
<1>5. link' \in [Deals -> LinkStates] /\ usdtLeg' \subseteq Deals
  BY DEF CreateDealLink, DealTypeOK, LinkStates
<1>6. seats' \in [Deals -> [Roles -> Users \cup {NoUser}]]
  BY <1>2 DEF DealTypeOK
<1>7. DealTypeOK'
  BY <1>4, <1>5, <1>6 DEF CreateDealLink, DealTypeOK
<1>8. CaseFreezesDeal'
  BY DEF CreateDealLink, CaseFreezesDeal, CaseActive
<1> QED
  BY <1>7, <1>8 DEF DealTables

LEMMA JoinTables ==
  ASSUME DealInv, NEW d \in Deals, NEW u \in Users, JoinDealLink(d, u)
  PROVE  DealTables'
<1> USE DEF DealInv
<1>1. PICK r \in Roles :
        /\ link[d] = "OPEN" /\ u \notin Participants(d) /\ seats[d][r] = NoUser
        /\ \/ UNCHANGED <<link, deal, seats>>
           \/ /\ link'  = [link EXCEPT ![d] = "CONSUMED"]
              /\ deal'  = [deal EXCEPT ![d] = "FIAT_PENDING"]
              /\ seats' = [seats EXCEPT ![d] = [seats[d] EXCEPT ![r] = u]]
  BY DEF JoinDealLink
<1>2. UNCHANGED <<usdtLeg, overdue, claim, confirmed, dispute, proposals, settling>>
  BY DEF JoinDealLink
<1>3. CASE UNCHANGED <<link, deal, seats>>
  BY <1>2, <1>3, RowsStay DEF DealTables, DealTypeOK, CaseFreezesDeal, CaseActive
<1>4. CASE /\ link'  = [link EXCEPT ![d] = "CONSUMED"]
           /\ deal'  = [deal EXCEPT ![d] = "FIAT_PENDING"]
           /\ seats' = [seats EXCEPT ![d] = [seats[d] EXCEPT ![r] = u]]
  <2>1. seats[d][OtherRole(r)] \in Users
    BY <1>1, LedgerAssumption DEF OtherRole, Roles, DealTypeOK, RowsAgree
  <2>2. seats[d][OtherRole(r)] # u
    BY <1>1, <2>1, LedgerAssumption DEF Participants, OtherRole, Roles
  <2>3. seats'[d][r] = u /\ seats'[d][OtherRole(r)] = seats[d][OtherRole(r)]
    BY <1>4 DEF OtherRole, Roles, DealTypeOK
  <2>4. CryptoSide(d)' \in Users /\ FiatSide(d)' \in Users /\ CryptoSide(d)' # FiatSide(d)'
    BY <2>1, <2>2, <2>3 DEF OtherRole, Roles, CryptoSide, FiatSide
  <2>5. link'[d] = "CONSUMED" /\ deal'[d] = "FIAT_PENDING" /\ deal[d] = "NONE"
    BY <1>1, <1>4 DEF DealTypeOK, RowsAgree
  <2>6. \A e \in Deals \ {d} : seats'[e] = seats[e] /\ link'[e] = link[e] /\ deal'[e] = deal[e]
    BY <1>4 DEF DealTypeOK
  <2>7. \A e \in Deals : RowsAgree(e)'
    <3> SUFFICES ASSUME NEW e \in Deals PROVE RowsAgree(e)'
      OBVIOUS
    <3>1. CASE e = d
      BY <2>4, <2>5, <3>1 DEF RowsAgree
    <3>2. CASE e # d
      <4>1. RowsAgree(e) /\ seats'[e] = seats[e] /\ link'[e] = link[e] /\ deal'[e] = deal[e]
        BY <2>6, <3>2 DEF DealTypeOK
      <4> QED
        BY <4>1 DEF RowsAgree, CryptoSide, FiatSide
    <3> QED
      BY <3>1, <3>2
  <2>8. /\ link' \in [Deals -> LinkStates] /\ deal' \in [Deals -> DealStates]
        /\ seats' \in [Deals -> [Roles -> Users \cup {NoUser}]]
    BY <1>4 DEF LinkStates, DealStates, DealTypeOK
  <2>9. DealTypeOK'
    BY <1>2, <2>7, <2>8 DEF DealTypeOK
  <2>10. CaseFreezesDeal'
    BY <1>2, <2>5, <2>6 DEF CaseFreezesDeal, CaseActive
  <2> QED
    BY <2>9, <2>10 DEF DealTables
<1> QED
  BY <1>1, <1>3, <1>4

LEMMA LinkTables ==
  ASSUME DealInv, LinkNext
  PROVE  DealTables'
<1> USE DEF DealInv
<1>1. ASSUME NEW d \in Deals, CloseDealLink(d) PROVE DealTables'
  <2>1. deal[d] = "NONE" /\ link'[d] = "CLOSED" /\ UNCHANGED <<seats, deal>>
    BY <1>1 DEF CloseDealLink, DealTypeOK, RowsAgree
  <2>2. \A e \in Deals \ {d} : link'[e] = link[e]
    BY <1>1 DEF CloseDealLink, DealTypeOK
  <2>3. \A e \in Deals : RowsAgree(e)'
    BY <2>1, <2>2 DEF RowsAgree, DealTypeOK, CryptoSide, FiatSide
  <2> QED
    BY <1>1, <2>3 DEF CloseDealLink, DealTables, DealTypeOK, LinkStates, CaseFreezesDeal, CaseActive
<1>2. ASSUME NEW d \in Deals, WindowPasses(d) PROVE DealTables'
  BY <1>2, RowsStay DEF WindowPasses, DealTables, DealTypeOK, CaseFreezesDeal, CaseActive
<1> QED
  BY <1>1, <1>2, CreateTables, JoinTables DEF LinkNext

(* A deal that is neither unjoined nor frozen moves on, and is neither     *)
(* afterwards; its case is not touched.                                    *)
LEMMA DealMoves ==
  ASSUME DealInv, NEW d \in Deals, NEW to \in DealStates \ {"NONE", "DISPUTED"},
         deal[d] \notin {"NONE", "DISPUTED"}, deal' = [deal EXCEPT ![d] = to],
         overdue' \subseteq Deals, claim' \in [Deals -> Utrs \cup {NoUtr}], confirmed' \subseteq Deals,
         UNCHANGED <<link, usdtLeg, seats, dispute, proposals, settling>>
  PROVE  DealTables'
<1> USE DEF DealInv
<1>1. deal' \in [Deals -> DealStates]
  BY DEF DealTypeOK
<1>2. \A e \in Deals \ {d} : deal'[e] = deal[e]
  BY DEF DealTypeOK
<1>3. deal'[d] = to
  BY DEF DealTypeOK
<1>4. \A e \in Deals : RowsAgree(e)'
  BY <1>2, <1>3, RowsStay
<1>5. DealTypeOK'
  BY <1>1, <1>4 DEF DealTypeOK
<1>6. CaseFreezesDeal'
  BY <1>2, <1>3 DEF CaseFreezesDeal, CaseActive
<1> QED
  BY <1>5, <1>6 DEF DealTables

LEMMA PaymentTables ==
  ASSUME DealInv, PaymentNext
  PROVE  DealTables'
<1>1. /\ overdue \subseteq Deals /\ confirmed \subseteq Deals
      /\ claim \in [Deals -> Utrs \cup {NoUtr}]
  BY DEF DealInv, DealTypeOK
<1>2. {"FIAT_CLAIMED", "COMPLETED", "CANCELLED", "EXPIRED"} \subseteq DealStates \ {"NONE", "DISPUTED"}
  BY DEF DealStates
<1>3. ASSUME NEW d \in Deals, NEW utr \in Utrs, SubmitPaymentClaim(d, utr) PROVE DealTables'
  BY <1>1, <1>2, <1>3, DealMoves DEF SubmitPaymentClaim
<1>4. ASSUME NEW d \in Deals, ConfirmReceipt(d) PROVE DealTables'
  BY <1>1, <1>2, <1>4, DealMoves DEF ConfirmReceipt
<1>5. ASSUME NEW d \in Deals, CancelDeal(d) PROVE DealTables'
  BY <1>1, <1>2, <1>5, DealMoves DEF CancelDeal
<1>6. ASSUME NEW d \in Deals, ExpireDealIfLapsed(d) PROVE DealTables'
  BY <1>1, <1>2, <1>6, DealMoves DEF ExpireDealIfLapsed
<1> QED
  BY <1>3, <1>4, <1>5, <1>6 DEF PaymentNext

(* Proposals: a sequence of rows stays one when a row is added or decided. *)
LEMMA DecidedIsProposal ==
  ASSUME NEW p \in Proposals, NEW state \in ProposalStates, NEW o \in Operators \cup {NoOperator}
  PROVE  Decided(p, state, o) \in Proposals
  BY DEF Decided, Proposals

LEMMA DecidingKeepsRows ==
  ASSUME NEW rows \in Seq(Proposals), NEW decided, decided = [j \in DOMAIN rows |-> decided[j]],
         \A j \in DOMAIN rows : decided[j] \in Proposals
  PROVE  decided \in Seq(Proposals)
<1>1. DOMAIN rows = 1 .. Len(rows) /\ Len(rows) \in Nat
  OBVIOUS
<1>2. decided \in [1 .. Len(rows) -> Proposals]
  BY <1>1
<1> QED
  BY <1>1, <1>2

(* The case of a deal moves, and the deal freezes or thaws with it.        *)
LEMMA CaseMoves ==
  ASSUME DealInv, NEW d \in Deals, NEW state \in CaseStates, NEW version \in Nat,
         NEW to \in DealStates \ {"NONE"}, NEW rows \in Seq(Proposals), deal[d] # "NONE",
         state \in {"OPEN", "UNDER_REVIEW"} <=> to = "DISPUTED",
         dispute' = [dispute EXCEPT ![d] = [state |-> state, version |-> version]],
         proposals' = [proposals EXCEPT ![d] = rows],
         deal' = [deal EXCEPT ![d] = to],
         overdue' \subseteq overdue,
         UNCHANGED <<link, usdtLeg, seats, claim, confirmed, settling>>
  PROVE  DealTables'
<1> USE DEF DealInv
<1>1. /\ deal' \in [Deals -> DealStates] /\ deal'[d] = to
      /\ dispute' \in [Deals -> [state : CaseStates, version : Nat]]
      /\ dispute'[d].state = state
      /\ proposals' \in [Deals -> Seq(Proposals)]
  BY DEF DealTypeOK
<1>2. \A e \in Deals \ {d} : deal'[e] = deal[e] /\ dispute'[e] = dispute[e]
  BY DEF DealTypeOK
<1>3. \A e \in Deals : RowsAgree(e)'
  BY <1>1, <1>2, RowsStay
<1>4. DealTypeOK'
  BY <1>1, <1>3 DEF DealTypeOK
<1>5. CaseFreezesDeal'
  BY <1>1, <1>2 DEF CaseFreezesDeal, CaseActive
<1> QED
  BY <1>4, <1>5 DEF DealTables

LEMMA OpenTables ==
  ASSUME DealInv, NEW d \in Deals, OpenCase(d)
  PROVE  DealTables'
<1>1. "OPEN" \in CaseStates /\ "DISPUTED" \in DealStates \ {"NONE"} /\ <<>> \in Seq(Proposals)
  BY DEF CaseStates, DealStates
<1>2. overdue' \subseteq overdue
  BY DEF OpenCase
<1> QED
  BY <1>1, <1>2, CaseMoves DEF OpenCase

LEMMA ProposeTables ==
  ASSUME DealInv, NEW d \in Deals, NEW o \in Operators, NEW disposition \in Dispositions,
         ProposeResolution(d, o, disposition)
  PROVE  DealTables'
<1> DEFINE row == [by |-> o, disposition |-> disposition, version |-> dispute[d].version,
                   state |-> "PROPOSED", approver |-> NoOperator]
           rows == Append(proposals[d], row)
           version == dispute[d].version + 1
<1>1. dispute[d].version \in Nat /\ proposals[d] \in Seq(Proposals)
  BY DEF DealInv, DealTypeOK
<1>2. row \in Proposals
  BY <1>1 DEF Proposals, ProposalStates
<1>3. rows \in Seq(Proposals) /\ version \in Nat
  BY <1>1, <1>2
<1>4. deal[d] = "DISPUTED" /\ deal' = [deal EXCEPT ![d] = "DISPUTED"]
  BY DEF ProposeResolution, DealInv, CaseFreezesDeal, DealTypeOK
<1>5. proposals' = [proposals EXCEPT ![d] = rows]
  BY DEF ProposeResolution, DealInv, DealTypeOK
<1>6. dispute' = [dispute EXCEPT ![d] = [state |-> "UNDER_REVIEW", version |-> version]]
  BY DEF ProposeResolution, DealInv, DealTypeOK
<1>7. "UNDER_REVIEW" \in CaseStates /\ "DISPUTED" \in DealStates \ {"NONE"}
  BY DEF CaseStates, DealStates
<1>8. /\ deal[d] # "NONE" /\ overdue' \subseteq overdue
      /\ UNCHANGED <<link, usdtLeg, seats, claim, confirmed, settling>>
  BY <1>4 DEF ProposeResolution
<1> HIDE DEF row, rows, version
<1> QED
  BY <1>3, <1>4, <1>5, <1>6, <1>7, <1>8, CaseMoves

LEMMA RejectTables ==
  ASSUME DealInv, NEW d \in Deals, NEW i \in DOMAIN proposals[d], RejectProposal(d, i)
  PROVE  DealTables'
<1> DEFINE rows == [proposals[d] EXCEPT ![i] = Decided(proposals[d][i], "REJECTED", NoOperator)]
           version == dispute[d].version + 1
<1>1. /\ dispute[d].version \in Nat /\ dispute[d].state \in CaseStates
      /\ proposals[d] \in Seq(Proposals) /\ deal[d] \in DealStates
  BY DEF DealInv, DealTypeOK
<1>2. proposals[d][i] \in Proposals
  BY <1>1
<1>3. Decided(proposals[d][i], "REJECTED", NoOperator) \in Proposals
  BY <1>2, DecidedIsProposal DEF ProposalStates
<1>4. rows \in Seq(Proposals) /\ version \in Nat
  BY <1>1, <1>3
<1>5. UNCHANGED deal
  BY DEF RejectProposal
<1>6. proposals' = [proposals EXCEPT ![d] = rows]
  BY <1>1 DEF RejectProposal, DealInv, DealTypeOK
<1>7. dispute' = [dispute EXCEPT ![d] = [dispute[d] EXCEPT !.version = version]]
  BY DEF RejectProposal
<1>8. overdue' \subseteq overdue /\ UNCHANGED <<link, usdtLeg, seats, claim, confirmed, settling>>
  BY DEF RejectProposal
<1>9. \A e \in Deals : RowsAgree(e)'
  BY <1>5, <1>8, RowsStay DEF DealInv
<1>10. /\ dispute' \in [Deals -> [state : CaseStates, version : Nat]]
       /\ proposals' \in [Deals -> Seq(Proposals)]
  BY <1>1, <1>4, <1>6, <1>7 DEF DealInv, DealTypeOK
<1>11. \A e \in Deals : dispute'[e].state = dispute[e].state
  BY <1>1, <1>7 DEF DealInv, DealTypeOK
<1> QED
  BY <1>5, <1>8, <1>9, <1>10, <1>11 DEF DealInv, DealTables, DealTypeOK, CaseFreezesDeal, CaseActive

LEMMA ApproveTables ==
  ASSUME DealInv, NEW d \in Deals, NEW i \in DOMAIN proposals[d], NEW o \in Operators,
         ApproveResolution(d, i, o)
  PROVE  DealTables'
<1> DEFINE Row(j) == IF j = i THEN Decided(proposals[d][j], "APPROVED", o)
                     ELSE IF j \in LiveProposals(d)
                     THEN Decided(proposals[d][j], "SUPERSEDED", NoOperator)
                     ELSE proposals[d][j]
           rows == [j \in DOMAIN proposals[d] |-> Row(j)]
           version == dispute[d].version + 1
           to == IF proposals[d][i].disposition = "RELEASE" THEN "COMPLETED" ELSE "CANCELLED"
<1>1. CASE UNCHANGED <<proposals, dispute, deal>>
  BY <1>1, RowsStay DEF ApproveResolution, DealInv, DealTables, DealTypeOK, CaseFreezesDeal, CaseActive
<1>2. CASE /\ proposals' = [proposals EXCEPT ![d] = rows]
           /\ dispute' = [dispute EXCEPT ![d] = [state |-> "RESOLVED", version |-> version]]
           /\ deal' = [deal EXCEPT ![d] = to]
  <2>1. dispute[d].version \in Nat /\ proposals[d] \in Seq(Proposals)
    BY DEF DealInv, DealTypeOK
  <2>2. ASSUME NEW j \in DOMAIN proposals[d] PROVE Row(j) \in Proposals
    <3>1. proposals[d][j] \in Proposals
      BY <2>1
    <3> QED
      BY <3>1, DecidedIsProposal DEF ProposalStates
  <2>3. rows \in Seq(Proposals)
    <3>1. rows = [j \in DOMAIN proposals[d] |-> rows[j]] /\ \A j \in DOMAIN proposals[d] : rows[j] = Row(j)
      OBVIOUS
    <3> HIDE DEF rows, Row
    <3> QED
      BY <2>1, <2>2, <3>1, DecidingKeepsRows
  <2>4. version \in Nat /\ to \in DealStates \ {"NONE"} /\ to # "DISPUTED" /\ "RESOLVED" \in CaseStates
    BY <2>1 DEF DealStates, CaseStates
  <2>5. deal[d] # "NONE"
    BY DEF ApproveResolution, DealInv, CaseFreezesDeal
  <2>6. overdue' \subseteq overdue /\ UNCHANGED <<link, usdtLeg, seats, claim, confirmed, settling>>
    BY DEF ApproveResolution
  <2> HIDE DEF rows, version, to
  <2> QED
    BY <1>2, <2>3, <2>4, <2>5, <2>6, CaseMoves
<1>3. \/ UNCHANGED <<proposals, dispute, deal>>
      \/ /\ proposals' = [proposals EXCEPT ![d] = rows]
         /\ dispute' = [dispute EXCEPT ![d] = [state |-> "RESOLVED", version |-> version]]
         /\ deal' = [deal EXCEPT ![d] = to]
  BY DEF ApproveResolution, DealInv, DealTypeOK
<1> QED
  BY <1>1, <1>2, <1>3

LEMMA DisputeTables ==
  ASSUME DealInv, DisputeNext
  PROVE  DealTables'
  BY OpenTables, ProposeTables, RejectTables, ApproveTables DEF DisputeNext, RaiseDispute, OpenDisputeCase

(* The value commands leave the tables alone but for the note of a call in *)
(* flight.                                                                 *)
LEMMA CommandTables ==
  ASSUME DealInv, CommandNext \/ SupportNext
  PROVE  DealTables'
<1>1. /\ UNCHANGED <<link, usdtLeg, seats, deal, overdue, claim, confirmed, dispute, proposals>>
      /\ settling' \subseteq [deal : Deals, settlement : Settlements, beneficiary : Users]
  BY DEF CommandNext, SupportNext, LockValue, StartSettleValue, FinishSettleValue, ReverseValue,
     dealVars, DealInv, DealTypeOK
<1>2. \A e \in Deals : RowsAgree(e)'
  BY <1>1, RowsStay DEF DealInv
<1> QED
  BY <1>1, <1>2 DEF DealInv, DealTables, DealTypeOK, CaseFreezesDeal, CaseActive

LEMMA DealNextInv == DealInv /\ [DealNext]_dealSafeVars => DealInv'
<1> SUFFICES ASSUME DealInv, [DealNext]_dealSafeVars PROVE DealInv'
  OBVIOUS
<1>1. LedgerInv'
  BY DealStepIsLedgerStep, LedgerNextInv DEF DealInv
<1>2. DealTables'
  <2>1. CASE UNCHANGED dealSafeVars
    BY <2>1, RowsStay DEF dealSafeVars, DealInv, DealTables, DealTypeOK, CaseFreezesDeal, CaseActive
  <2> QED
    BY <2>1, LinkTables, PaymentTables, DisputeTables, CommandTables DEF DealNext
<1> QED
  BY <1>1, <1>2 DEF DealInv, DealTables

-----------------------------------------------------------------------------
LEMMA DealInvariant == DealSpec => []DealInv
  BY DealInitInv, DealNextInv, PTL DEF DealSpec

(* The life of a deal implements the ledger: no join, confirmation,        *)
(* ruling, command or operator moves value in a way the ledger alone does  *)
(* not allow.                                                              *)
THEOREM DealImplementsLedger == DealSpec => LedgerSpec
<1>1. DealInit => LedgerInit
  BY DEF DealInit
<1> QED
  BY <1>1, DealInvariant, DealStepIsLedgerStep, PTL DEF DealSpec, LedgerSpec

(* Under every interleaving of any number of deals, each escrow account    *)
(* holds exactly the value its live lock names and its deposits.           *)
THEOREM DealKeepsEscrow == DealSpec => []EscrowBacksLock
  BY DealImplementsLedger, LedgerSafety, PTL

(* Nor do the deals make or lose value: every command, ruling and expiry,  *)
(* in any order, leaves the accounts adding up to what was funded.         *)
THEOREM DealsConserve == DealSpec => []Conservation
  BY DealImplementsLedger, ConservationHolds, PTL

(* So the deals keep the promise about escrow: the value of a deal is      *)
(* taken once and leaves whole, to one person, whichever of confirmation,  *)
(* ruling, release, refund and reversal get to it.                         *)
THEOREM DealsKeepPromise == DealSpec => PromiseKept
  BY DealImplementsLedger, LedgerKeepsPromise, PTL

(* The deal tables keep their types and agree with one another: no deal    *)
(* without a consumed link, no deal with itself, no side without a person. *)
THEOREM DealTypes == DealSpec => []DealTypeOK
<1>1. DealInv => DealTypeOK
  BY DEF DealInv
<1> QED
  BY <1>1, DealInvariant, PTL

(* A deal is DISPUTED exactly while a case of it is open, for any number   *)
(* of operators, proposals and exposed commands.                           *)
THEOREM CaseAlwaysFreezes == DealSpec => []CaseFreezesDeal
<1>1. DealInv => CaseFreezesDeal
  BY DEF DealInv
<1> QED
  BY <1>1, DealInvariant, PTL

-----------------------------------------------------------------------------
(* Cases, proposals and rulings.                                           *)

Finished(d) == deal[d] \in {"COMPLETED", "CANCELLED"}

(* What RulingCarriedOut and LiveProposalIsCurrent say of one deal.        *)
RulingOf(d) ==
    /\ dispute[d].state = "RESOLVED" <=> Approved(d) # {}
    /\ \A i, j \in Approved(d) : i = j
    /\ \A i \in Approved(d) :
          /\ proposals[d][i].approver \in Operators \ {proposals[d][i].by}
          /\ RuledTo(d, proposals[d][i].disposition)

LiveIsCurrent(d) ==
    \A i \in LiveProposals(d) :
        /\ CaseActive(d)
        /\ dispute[d].version = proposals[d][i].version + 1
        /\ LiveProposals(d) = {i}

CaseInv == DealInv /\ \A d \in Deals : RulingOf(d) /\ LiveIsCurrent(d)

LEMMA CaseInitInv == DealInit => CaseInv
<1> SUFFICES ASSUME DealInit PROVE CaseInv
  OBVIOUS
<1>1. \A d \in Deals : dispute[d].state = "NONE" /\ DOMAIN proposals[d] = {}
  BY DEF DealInit, NoCase
<1> QED
  BY <1>1, DealInitInv DEF CaseInv, RulingOf, LiveIsCurrent, Approved, LiveProposals

(* An open case is on a DISPUTED deal, so its commands leave a finished    *)
(* deal alone; and openCase looks.                                         *)
LEMMA FinishedStays ==
  ASSUME CaseInv, [DealNext]_dealSafeVars, NEW d \in Deals, Finished(d)
  PROVE  /\ deal'[d] = deal[d]
         /\ dispute'[d] = dispute[d]
         /\ proposals'[d] = proposals[d]
         /\ seats'[d] = seats[d]
         /\ claim'[d] = claim[d]
         /\ (d \in confirmed') = (d \in confirmed)
<1> USE DEF CaseInv, DealInv, DealTypeOK, Finished
<1> DEFINE Kept == /\ deal'[d] = deal[d]
                   /\ dispute'[d] = dispute[d]
                   /\ proposals'[d] = proposals[d]
                   /\ seats'[d] = seats[d]
                   /\ claim'[d] = claim[d]
                   /\ (d \in confirmed') = (d \in confirmed)
<1>1. link[d] = "CONSUMED" /\ ~CaseActive(d) /\ LiveProposals(d) = {}
  BY DEF RowsAgree, CaseFreezesDeal, LiveIsCurrent
<1>2. CASE LinkNext
  <2>1. ASSUME NEW e \in Deals, NEW u \in Users, NEW r \in Roles, CreateDealLink(e, u, r)
        PROVE  Kept
    BY <1>1, <2>1 DEF CreateDealLink
  <2>2. ASSUME NEW e \in Deals, NEW u \in Users, JoinDealLink(e, u)
        PROVE  Kept
    BY <1>1, <2>2 DEF JoinDealLink
  <2>3. ASSUME NEW e \in Deals, CloseDealLink(e) \/ WindowPasses(e)
        PROVE  Kept
    BY <2>3 DEF CloseDealLink, WindowPasses
  <2> QED
    BY <1>2, <2>1, <2>2, <2>3 DEF LinkNext
<1>3. CASE PaymentNext
  BY <1>3 DEF PaymentNext, SubmitPaymentClaim, ConfirmReceipt, CancelDeal, ExpireDealIfLapsed
<1>4. CASE DisputeNext
  <2>1. ASSUME NEW e \in Deals, OpenCase(e) PROVE Kept
    BY <2>1 DEF OpenCase
  <2>2. ASSUME NEW e \in Deals, NEW o \in Operators, NEW disposition \in Dispositions,
               ProposeResolution(e, o, disposition)
        PROVE  Kept
    BY <1>1, <2>2 DEF ProposeResolution
  <2>3. ASSUME NEW e \in Deals, NEW i \in DOMAIN proposals[e], RejectProposal(e, i)
        PROVE  Kept
    BY <1>1, <2>3 DEF RejectProposal
  <2>4. ASSUME NEW e \in Deals, NEW i \in DOMAIN proposals[e], NEW o \in Operators,
               ApproveResolution(e, i, o)
        PROVE  Kept
    BY <1>1, <2>4 DEF ApproveResolution
  <2> QED
    BY <1>4, <2>1, <2>2, <2>3, <2>4 DEF DisputeNext, RaiseDispute, OpenDisputeCase
<1>5. CASE CommandNext \/ SupportNext
  BY <1>5 DEF CommandNext, SupportNext, LockValue, StartSettleValue, FinishSettleValue, ReverseValue,
     dealVars
<1>6. CASE UNCHANGED dealSafeVars
  BY <1>6 DEF dealSafeVars
<1> QED
  BY <1>2, <1>3, <1>4, <1>5, <1>6 DEF DealNext

LEMMA LocksAreKept ==
  ASSUME DealInv, [DealNext]_dealSafeVars, NEW d \in Deals
  PROVE  LockKept(d)
<1>1. [LedgerNext]_ledgerVars
  BY DealStepIsLedgerStep
<1>2. CASE UNCHANGED ledgerVars
  BY <1>2 DEF ledgerVars, LockKept
<1>3. CASE LedgerNext
  BY <1>3, StepMovesOneLock
     DEF DealInv, OneLockMoves, Untouched, Taken, Ended, Settlements, LockKept
<1> QED
  BY <1>1, <1>2, <1>3

(* A ruling stands for as long as its records do.                          *)
LEMMA RulingStands ==
  ASSUME CaseInv, [DealNext]_dealSafeVars, NEW d \in Deals,
         dispute'[d] = dispute[d], proposals'[d] = proposals[d]
  PROVE  RulingOf(d)' /\ LiveIsCurrent(d)'
<1>1. LiveIsCurrent(d)'
  BY DEF CaseInv, LiveIsCurrent, LiveProposals, CaseActive
<1>2. Approved(d)' = Approved(d)
  BY DEF Approved
<1>3. ASSUME NEW i \in Approved(d) PROVE RuledTo(d, proposals[d][i].disposition)'
  <2>1. RuledTo(d, proposals[d][i].disposition)
    BY DEF CaseInv, RulingOf
  <2>2. deal'[d] = deal[d] /\ seats'[d] = seats[d]
    BY <2>1, FinishedStays DEF RuledTo, Finished
  <2>3. lock'[d] = lock[d]
    BY <2>1, LocksAreKept DEF CaseInv, RuledTo, LockKept
  <2> QED
    BY <2>1, <2>2, <2>3 DEF RuledTo, Counterparty, CryptoSide, FiatSide
<1> QED
  BY <1>1, <1>2, <1>3 DEF CaseInv, RulingOf

(* A case that is open has no approved proposal.                           *)
LEMMA OpenIsUndecided ==
  ASSUME CaseInv, NEW d \in Deals, CaseActive(d)
  PROVE  Approved(d) = {}
  BY DEF CaseInv, RulingOf, CaseActive

LEMMA ProposeCase ==
  ASSUME CaseInv, NEW d \in Deals, NEW o \in Operators, NEW disposition \in Dispositions,
         ProposeResolution(d, o, disposition)
  PROVE  RulingOf(d)' /\ LiveIsCurrent(d)'
<1> DEFINE n == Len(proposals[d]) + 1
           row == [by |-> o, disposition |-> disposition, version |-> dispute[d].version,
                   state |-> "PROPOSED", approver |-> NoOperator]
<1>1. CaseActive(d) /\ LiveProposals(d) = {} /\ Approved(d) = {}
  BY OpenIsUndecided DEF ProposeResolution
<1>2. proposals[d] \in Seq(Proposals) /\ dispute[d].version \in Nat
  BY DEF CaseInv, DealInv, DealTypeOK
<1>3. proposals'[d] = Append(proposals[d], row)
  BY DEF ProposeResolution, CaseInv, DealInv, DealTypeOK
<1>4. dispute'[d] = [state |-> "UNDER_REVIEW", version |-> dispute[d].version + 1]
  BY DEF ProposeResolution, CaseInv, DealInv, DealTypeOK
<1>5. /\ DOMAIN proposals'[d] = 1 .. n /\ n \in Nat \ {0}
      /\ DOMAIN proposals[d] = 1 .. n - 1
      /\ proposals'[d][n] = row
      /\ \A i \in 1 .. n - 1 : proposals'[d][i] = proposals[d][i]
  <2> DEFINE old == proposals[d]
             new == proposals'[d]
  <2>1. row \in Proposals
    BY <1>2 DEF Proposals, ProposalStates
  <2>2. old \in Seq(Proposals) /\ new = Append(old, row)
    BY <1>2, <1>3
  <2> HIDE DEF old, new, row
  <2>3. /\ DOMAIN new = 1 .. Len(old) + 1 /\ Len(old) \in Nat
        /\ DOMAIN old = 1 .. Len(old)
        /\ new[Len(old) + 1] = row
        /\ \A i \in 1 .. Len(old) : new[i] = old[i]
    BY <2>1, <2>2
  <2>4. n = Len(old) + 1 /\ n - 1 = Len(old)
    BY <2>3 DEF old
  <2> HIDE DEF n
  <2>5. /\ DOMAIN new = 1 .. n /\ n \in Nat \ {0}
        /\ DOMAIN old = 1 .. n - 1
        /\ new[n] = row
        /\ \A i \in 1 .. n - 1 : new[i] = old[i]
    BY <2>3, <2>4
  <2> QED
    BY <2>5 DEF old, new
<1> HIDE DEF n
<1>6. n \in DOMAIN proposals'[d] /\ \A i \in DOMAIN proposals'[d] \ {n} : i \in 1 .. n - 1
  BY <1>5
<1>7. /\ row.state = "PROPOSED"
      /\ \A i \in 1 .. n - 1 : proposals'[d][i].state \notin {"PROPOSED", "APPROVED"}
  BY <1>1, <1>5 DEF LiveProposals, Approved
<1> HIDE DEF row
<1>8. LiveProposals(d)' = {n}
  BY <1>5, <1>6, <1>7 DEF LiveProposals
<1>9. Approved(d)' = {}
  BY <1>5, <1>6, <1>7 DEF Approved
<1>10. RulingOf(d)'
  BY <1>4, <1>9 DEF RulingOf
<1>11. LiveIsCurrent(d)'
  BY <1>4, <1>5, <1>8 DEF LiveIsCurrent, CaseActive, row
<1> QED
  BY <1>10, <1>11

LEMMA RejectCase ==
  ASSUME CaseInv, NEW d \in Deals, NEW i \in DOMAIN proposals[d], RejectProposal(d, i)
  PROVE  RulingOf(d)' /\ LiveIsCurrent(d)'
<1>1. LiveProposals(d) = {i} /\ CaseActive(d) /\ Approved(d) = {}
  BY OpenIsUndecided DEF RejectProposal, CaseInv, LiveIsCurrent
<1>2. proposals'[d] = [proposals[d] EXCEPT ![i] = Decided(proposals[d][i], "REJECTED", NoOperator)]
  BY DEF RejectProposal, CaseInv, DealInv, DealTypeOK
<1>3. /\ DOMAIN proposals'[d] = DOMAIN proposals[d]
      /\ proposals'[d][i].state = "REJECTED"
      /\ \A j \in DOMAIN proposals[d] \ {i} : proposals'[d][j] = proposals[d][j]
  BY <1>2 DEF Decided
<1>4. dispute'[d].state = dispute[d].state
  <2>1. dispute[d] \in [state : CaseStates, version : Nat]
        /\ dispute'[d] = [dispute[d] EXCEPT !.version = dispute[d].version + 1]
    BY DEF RejectProposal, CaseInv, DealInv, DealTypeOK
  <2> QED
    BY <2>1
<1>5. LiveProposals(d)' = {}
  BY <1>1, <1>3 DEF LiveProposals
<1>6. Approved(d)' = {}
  BY <1>1, <1>3 DEF Approved
<1> QED
  BY <1>1, <1>4, <1>5, <1>6 DEF RulingOf, LiveIsCurrent, CaseActive

(* The one step that rules: the only live proposal becomes the only        *)
(* approved one, and the value goes where it says.                         *)
LEMMA ApproveCase ==
  ASSUME CaseInv, [DealNext]_dealSafeVars, NEW d \in Deals, NEW i \in DOMAIN proposals[d],
         NEW o \in Operators, ApproveResolution(d, i, o)
  PROVE  RulingOf(d)' /\ LiveIsCurrent(d)'
<1> DEFINE ruling == proposals[d][i].disposition
<1>1. CASE UNCHANGED <<proposals, dispute, deal>>
  BY <1>1, RulingStands
<1>2. CASE ~UNCHANGED <<proposals, dispute, deal>>
  <2>1. LiveProposals(d) = {i} /\ Approved(d) = {} /\ proposals[d][i].by # o
    BY OpenIsUndecided DEF ApproveResolution, CaseInv, LiveIsCurrent
  <2>2. /\ SettleAsRuled(d, ruling)
        /\ dispute'[d].state = "RESOLVED"
        /\ deal'[d] = IF ruling = "RELEASE" THEN "COMPLETED" ELSE "CANCELLED"
        /\ UNCHANGED seats
    BY <1>2 DEF ApproveResolution, CaseInv, DealInv, DealTypeOK
  <2>3. /\ DOMAIN proposals'[d] = DOMAIN proposals[d]
        /\ proposals'[d][i] = Decided(proposals[d][i], "APPROVED", o)
        /\ \A j \in DOMAIN proposals[d] \ {i} : proposals'[d][j] = proposals[d][j]
    BY <1>2, <2>1 DEF ApproveResolution, CaseInv, DealInv, DealTypeOK
  <2>4. /\ lock[d] \in LockRows /\ proposals[d][i] \in Proposals
    BY DEF CaseInv, DealInv, LedgerInv, LedgerTypeOK, DealTypeOK
  <2>5. /\ lock'[d].owner = lock[d].owner
        /\ ruling = "RELEASE" => /\ lock'[d].state = "RELEASED"
                                 /\ lock'[d].beneficiary = Counterparty(d, lock[d].owner)
        /\ ruling # "RELEASE" => /\ lock'[d].state = "REFUNDED"
                                 /\ lock'[d].beneficiary = lock[d].owner
    BY <2>2, <2>4 DEF SettleAsRuled, ReleaseDealValue, RefundDealValue, SettleLock, LockRows,
                      CaseInv, DealInv, LedgerInv, LedgerTypeOK
  <2>6. Approved(d)' = {i} /\ LiveProposals(d)' = {}
    BY <2>1, <2>3 DEF Approved, LiveProposals, Decided
  <2>7. /\ proposals'[d][i].disposition = ruling
        /\ proposals'[d][i].approver = o /\ proposals'[d][i].by = proposals[d][i].by
    BY <2>3 DEF Decided
  <2>8. RuledTo(d, ruling)'
    <3>1. Counterparty(d, lock[d].owner) = Counterparty(d, lock[d].owner)'
      BY <2>2, <2>5 DEF Counterparty, CryptoSide, FiatSide
    <3>2. RuledTo(d, proposals[d][i].disposition)' <=>
            IF proposals'[d][i].disposition = "RELEASE"
            THEN /\ deal'[d] = "COMPLETED" /\ lock'[d].state = "RELEASED"
                 /\ lock'[d].beneficiary = Counterparty(d, lock[d].owner)'
            ELSE /\ deal'[d] = "CANCELLED" /\ lock'[d].state = "REFUNDED"
                 /\ lock'[d].beneficiary = lock'[d].owner
      BY DEF RuledTo
    <3> QED
      BY <2>2, <2>5, <2>7, <3>1, <3>2
  <2>9. RulingOf(d)'
    BY <2>1, <2>2, <2>6, <2>7, <2>8 DEF RulingOf
  <2>10. LiveIsCurrent(d)'
    BY <2>6 DEF LiveIsCurrent
  <2> QED
    BY <2>9, <2>10
<1> QED
  BY <1>1, <1>2

LEMMA CaseNextInv == CaseInv /\ [DealNext]_dealSafeVars => CaseInv'
<1> SUFFICES ASSUME CaseInv, [DealNext]_dealSafeVars PROVE CaseInv'
  OBVIOUS
<1>1. DealInv'
  BY DealNextInv DEF CaseInv
<1>2. ASSUME NEW d \in Deals PROVE RulingOf(d)' /\ LiveIsCurrent(d)'
  <2>1. CASE dispute'[d] = dispute[d] /\ proposals'[d] = proposals[d]
    BY <2>1, RulingStands
  <2>2. ASSUME NEW e \in Deals, e # d, DisputeNext,
               \/ OpenCase(e) \/ \E o, x : ProposeResolution(e, o, x)
               \/ \E i : RejectProposal(e, i) \/ \E o : ApproveResolution(e, i, o)
        PROVE  dispute'[d] = dispute[d] /\ proposals'[d] = proposals[d]
    BY <2>2 DEF OpenCase, ProposeResolution, RejectProposal, ApproveResolution, CaseInv, DealInv,
                DealTypeOK
  <2>3. ASSUME OpenCase(d) PROVE RulingOf(d)' /\ LiveIsCurrent(d)'
    <3>1. dispute'[d].state = "OPEN" /\ DOMAIN proposals'[d] = {}
      BY <2>3 DEF OpenCase, CaseInv, DealInv, DealTypeOK
    <3> QED
      BY <3>1 DEF RulingOf, LiveIsCurrent, Approved, LiveProposals
  <2>4. CASE DisputeNext
    BY <2>1, <2>2, <2>3, <2>4, ProposeCase, RejectCase, ApproveCase
       DEF DisputeNext, RaiseDispute, OpenDisputeCase
  <2>5. CASE LinkNext \/ PaymentNext
    BY <2>1, <2>5 DEF LinkNext, PaymentNext, CreateDealLink, JoinDealLink, CloseDealLink,
       WindowPasses, SubmitPaymentClaim, ConfirmReceipt, CancelDeal, ExpireDealIfLapsed
  <2>6. CASE CommandNext \/ SupportNext
    BY <2>1, <2>6 DEF CommandNext, SupportNext, LockValue, StartSettleValue, FinishSettleValue,
       ReverseValue, dealVars
  <2>7. CASE UNCHANGED dealSafeVars
    BY <2>1, <2>7 DEF dealSafeVars
  <2> QED
    BY <2>4, <2>5, <2>6, <2>7 DEF DealNext
<1> QED
  BY <1>1, <1>2 DEF CaseInv

LEMMA CaseInvariant == DealSpec => []CaseInv
  BY CaseInitInv, CaseNextInv, PTL DEF DealSpec

(* A resolved case was resolved by one proposal that a second operator     *)
(* approved, and deal, lock and payee say what it said, for any number of  *)
(* cases, proposals, operators and exposed value commands.                 *)
THEOREM RulingIsCarriedOut == DealSpec => []RulingCarriedOut
<1>1. CaseInv => RulingCarriedOut
  BY DEF CaseInv, RulingOf, RulingCarriedOut
<1> QED
  BY <1>1, CaseInvariant, PTL

(* A live proposal is the only one, on the version of its case that it     *)
(* produced, so it can always be approved or rejected.                     *)
THEOREM LiveProposalStaysCurrent == DealSpec => []LiveProposalIsCurrent
<1>1. CaseInv => LiveProposalIsCurrent
  BY DEF CaseInv, LiveIsCurrent, LiveProposalIsCurrent
<1> QED
  BY <1>1, CaseInvariant, PTL

(* Nothing moves a completed or cancelled deal or its records again.       *)
THEOREM TerminalIsFinalHolds == DealSpec => TerminalIsFinal
<1> DEFINE Kept == \A d \in Deals : deal[d] \in {"COMPLETED", "CANCELLED"} =>
                     /\ deal'[d] = deal[d]
                     /\ dispute'[d] = dispute[d]
                     /\ claim'[d] = claim[d]
                     /\ (d \in confirmed') = (d \in confirmed)
<1>1. CaseInv /\ [DealNext]_dealSafeVars => [Kept]_dealSafeVars
  BY FinishedStays DEF Finished
<1> QED
  BY <1>1, CaseInvariant, PTL DEF DealSpec, TerminalIsFinal

-----------------------------------------------------------------------------
(* The screens alone: what a deal then says of its lock.                   *)

Unfinished == {"FIAT_PENDING", "FIAT_CLAIMED", "EXPIRED", "DISPUTED"}

RuledSo(d, disposition) ==
    \E i \in Approved(d) : /\ proposals[d][i].disposition = disposition
                           /\ proposals[d][i].approver # proposals[d][i].by

LockOfDeal(d) ==
    /\ lock[d].state # "NONE" <=> deal[d] # "NONE" /\ d \in usdtLeg
    /\ lock[d].state # "NONE" => /\ lock[d].owner = CryptoSide(d)
                                 /\ lock[d].amount = DealAmount[d]
    /\ d \in usdtLeg /\ deal[d] \in Unfinished => lock[d].state = "LOCKED"

PaidFor(d) ==
    /\ deal[d] = "FIAT_CLAIMED" => claim[d] # NoUtr
    /\ lock[d].state = "RELEASED" =>
          /\ lock[d].beneficiary = FiatSide(d)
          /\ (d \in confirmed /\ claim[d] # NoUtr) \/ RuledSo(d, "RELEASE")
    /\ lock[d].state = "REFUNDED" =>
          /\ lock[d].beneficiary = CryptoSide(d)
          /\ RuledSo(d, "REFUND")

ClaimsDiffer == \A d, e \in Deals : claim[d] # NoUtr /\ claim[d] = claim[e] => d = e

ScreenInv ==
    /\ CaseInv
    /\ settling = {}
    /\ ClaimsDiffer
    /\ \A d \in Deals : LockOfDeal(d) /\ PaidFor(d)

LEMMA ScreenInitInv == DealInit => ScreenInv
<1> SUFFICES ASSUME DealInit PROVE ScreenInv
  OBVIOUS
<1>1. \A d \in Deals : lock[d].state = "NONE" /\ deal[d] = "NONE" /\ claim[d] = NoUtr
  BY DEF DealInit, LedgerInit, NoLock
<1>2. settling = {} /\ CaseInv
  BY CaseInitInv DEF DealInit
<1> QED
  BY <1>1, <1>2 DEF ScreenInv, ClaimsDiffer, LockOfDeal, PaidFor, Unfinished

LEMMA RuledSoStands ==
  ASSUME CaseInv, [DealNext]_dealSafeVars, NEW d \in Deals, NEW x, RuledSo(d, x)
  PROVE  RuledSo(d, x)'
<1>1. PICK i \in Approved(d) : proposals[d][i].disposition = x
                               /\ proposals[d][i].approver # proposals[d][i].by
  BY DEF RuledSo
<1>2. Finished(d)
  BY <1>1 DEF CaseInv, RulingOf, RuledTo, Finished
<1>3. proposals'[d] = proposals[d]
  BY <1>2, FinishedStays
<1> QED
  BY <1>1, <1>3 DEF RuledSo, Approved

(* A step that leaves the lock of a deal alone.                            *)
LEMMA LockUntouched ==
  ASSUME ScreenInv, [DealNext]_dealSafeVars, NEW d \in Deals, lock'[d] = lock[d],
         deal[d] = "NONE" <=> deal'[d] = "NONE",
         deal[d] # "NONE" => seats'[d] = seats[d] /\ (d \in usdtLeg' <=> d \in usdtLeg),
         deal'[d] \in Unfinished => deal[d] \in Unfinished,
         deal'[d] = "FIAT_CLAIMED" => claim'[d] # NoUtr,
         claim[d] # NoUtr => claim'[d] # NoUtr,
         d \in confirmed => d \in confirmed'
  PROVE  LockOfDeal(d)' /\ PaidFor(d)'
<1> USE DEF ScreenInv
<1>1. LockOfDeal(d)'
  BY DEF LockOfDeal, CryptoSide, Unfinished
<1>2. PaidFor(d)'
  <2>1. lock[d].state # "NONE" => seats'[d] = seats[d]
    BY DEF LockOfDeal
  <2> QED
    BY <2>1, RuledSoStands DEF PaidFor, CryptoSide, FiatSide
<1> QED
  BY <1>1, <1>2

LEMMA JoinLock ==
  ASSUME ScreenInv, [DealNext]_dealSafeVars, NEW d \in Deals, NEW u \in Users, JoinDealLink(d, u),
         NEW e \in Deals
  PROVE  LockOfDeal(e)' /\ PaidFor(e)'
<1> USE DEF ScreenInv, CaseInv, DealInv, DealTypeOK
<1>1. /\ link[d] = "OPEN" /\ deal[d] = "NONE" /\ lock[d].state = "NONE"
      /\ UNCHANGED <<usdtLeg, claim, confirmed>>
  BY DEF JoinDealLink, RowsAgree, LockOfDeal
<1>2. CASE e # d
  <2>1. lock'[e] = lock[e]
    BY <1>2 DEF JoinDealLink, LockDealValue, PlaceHold, accountVars, ledgerVars, LedgerInv, LedgerTypeOK
  <2>2. deal'[e] = deal[e] /\ seats'[e] = seats[e]
    BY <1>2 DEF JoinDealLink
  <2> QED
    BY <1>1, <2>1, <2>2, LockUntouched DEF PaidFor
<1>3. CASE e = d /\ deal'[d] = "NONE"
  <2>1. lock'[d] = lock[d]
    BY <1>3 DEF JoinDealLink, PlaceHold, accountVars
  <2> QED
    BY <1>1, <1>3, <2>1, LockUntouched DEF PaidFor, Unfinished
<1>4. CASE e = d /\ deal'[d] # "NONE"
  <2>1. PICK r \in Roles :
          /\ deal' = [deal EXCEPT ![d] = "FIAT_PENDING"]
          /\ seats' = [seats EXCEPT ![d] = [seats[d] EXCEPT ![r] = u]]
          /\ \/ /\ d \in usdtLeg
                /\ LockDealValue(d, [seats[d] EXCEPT ![r] = u]["CRYPTO_SIDE"], DealAmount[d])
             \/ d \notin usdtLeg /\ UNCHANGED ledgerVars
    BY <1>1, <1>4 DEF JoinDealLink
  <2>2. deal'[d] = "FIAT_PENDING" /\ CryptoSide(d)' = [seats[d] EXCEPT ![r] = u]["CRYPTO_SIDE"]
    BY <2>1 DEF CryptoSide
  <2>3. CASE d \in usdtLeg
    <3>1. lock'[d] = [state |-> "LOCKED", owner |-> CryptoSide(d)', amount |-> DealAmount[d],
                      beneficiary |-> NoUser]
      BY <2>1, <2>2, <2>3 DEF LockDealValue, LedgerInv, LedgerTypeOK
    <3> QED
      BY <1>1, <1>4, <2>2, <2>3, <3>1 DEF LockOfDeal, PaidFor
  <2>4. CASE d \notin usdtLeg
    <3>1. lock'[d].state = "NONE"
      BY <1>1, <2>1, <2>4 DEF ledgerVars
    <3> QED
      BY <1>1, <1>4, <2>2, <2>4, <3>1 DEF LockOfDeal, PaidFor
  <2> QED
    BY <2>3, <2>4
<1> QED
  BY <1>2, <1>3, <1>4

LEMMA LinkLocks ==
  ASSUME ScreenInv, LinkNext, NEW e \in Deals
  PROVE  LockOfDeal(e)' /\ PaidFor(e)'
<1> USE DEF ScreenInv, CaseInv, DealInv, DealTypeOK
<1>1. [DealNext]_dealSafeVars
  BY DEF DealNext
<1>2. ASSUME NEW d \in Deals, NEW u \in Users, NEW r \in Roles, CreateDealLink(d, u, r)
      PROVE  LockOfDeal(e)' /\ PaidFor(e)'
  <2>1. deal[d] = "NONE" /\ UNCHANGED <<deal, claim, confirmed, lock>>
    BY <1>2 DEF CreateDealLink, RowsAgree, ledgerVars
  <2>2. deal[e] # "NONE" => seats'[e] = seats[e] /\ (e \in usdtLeg' <=> e \in usdtLeg)
    BY <1>2, <2>1 DEF CreateDealLink
  <2> QED
    BY <1>1, <2>1, <2>2, LockUntouched DEF PaidFor
<1>3. ASSUME NEW d \in Deals, CloseDealLink(d) \/ WindowPasses(d)
      PROVE  LockOfDeal(e)' /\ PaidFor(e)'
  <2>1. UNCHANGED <<deal, claim, confirmed, lock, seats, usdtLeg>>
    BY <1>3 DEF CloseDealLink, WindowPasses, ledgerVars
  <2> QED
    BY <1>1, <2>1, LockUntouched DEF PaidFor
<1> QED
  BY <1>1, <1>2, <1>3, JoinLock DEF LinkNext

(* A confirmation pays the fiat side for the transfer it claimed, or is    *)
(* refused and leaves the lock.                                            *)
LEMMA ConfirmLock ==
  ASSUME ScreenInv, [DealNext]_dealSafeVars, NEW d \in Deals, ConfirmReceipt(d), NEW e \in Deals
  PROVE  LockOfDeal(e)' /\ PaidFor(e)'
<1> USE DEF ScreenInv, CaseInv, DealInv, DealTypeOK, LedgerInv, LedgerTypeOK
<1>1. /\ deal[d] = "FIAT_CLAIMED" /\ deal' = [deal EXCEPT ![d] = "COMPLETED"]
      /\ confirmed' = confirmed \cup {d} /\ UNCHANGED <<usdtLeg, seats, claim>>
  BY DEF ConfirmReceipt
<1>2. \/ UNCHANGED lock
      \/ ReleaseDealValue(d, FiatSide(d))
  BY DEF ConfirmReceipt, ReleaseRefused, Refused, PlaceHold, ledgerVars, accountVars
<1>3. CASE lock'[e] = lock[e]
  BY <1>1, <1>3, LockUntouched DEF PaidFor, Unfinished
<1>4. CASE lock'[e] # lock[e]
  <2>1. e = d /\ lock[d].state = "LOCKED" /\ lock'[d].state = "RELEASED"
        /\ lock'[d].beneficiary = FiatSide(d) /\ lock'[d].owner = lock[d].owner
        /\ lock'[d].amount = lock[d].amount
    BY <1>2, <1>4 DEF ReleaseDealValue, SettleLock, LockRows
  <2>2. FiatSide(d)' = FiatSide(d) /\ CryptoSide(d)' = CryptoSide(d)
    BY <1>1 DEF FiatSide, CryptoSide
  <2>3. deal'[d] = "COMPLETED" /\ d \in confirmed' /\ claim'[d] # NoUtr
    BY <1>1 DEF PaidFor
  <2>4. LockOfDeal(d)'
    BY <1>1, <2>1, <2>2, <2>3 DEF LockOfDeal, Unfinished
  <2>5. PaidFor(d)'
    BY <2>1, <2>2, <2>3 DEF PaidFor
  <2> QED
    BY <2>1, <2>4, <2>5
<1> QED
  BY <1>3, <1>4

LEMMA PaymentLocks ==
  ASSUME ScreenInv, PaymentNext, NEW e \in Deals
  PROVE  LockOfDeal(e)' /\ PaidFor(e)'
<1> USE DEF ScreenInv, CaseInv, DealInv, DealTypeOK
<1>1. [DealNext]_dealSafeVars
  BY DEF DealNext
<1>2. ASSUME NEW d \in Deals, NEW utr \in Utrs, SubmitPaymentClaim(d, utr)
      PROVE  LockOfDeal(e)' /\ PaidFor(e)'
  <2>1. UNCHANGED <<confirmed, lock, seats, usdtLeg>>
    BY <1>2 DEF SubmitPaymentClaim, ledgerVars
  <2>2. (e = d /\ deal[e] = "FIAT_PENDING" /\ deal'[e] = "FIAT_CLAIMED" /\ claim'[e] = utr)
        \/ (deal'[e] = deal[e] /\ claim'[e] = claim[e])
    BY <1>2 DEF SubmitPaymentClaim
  <2>3. utr # NoUtr
    BY DealAssumption
  <2> QED
    BY <1>1, <2>1, <2>2, <2>3, LockUntouched DEF PaidFor, Unfinished
<1>3. ASSUME NEW d \in Deals, CancelDeal(d) \/ ExpireDealIfLapsed(d)
      PROVE  LockOfDeal(e)' /\ PaidFor(e)'
  <2>1. UNCHANGED <<claim, confirmed, lock, seats, usdtLeg>>
    BY <1>3 DEF CancelDeal, ExpireDealIfLapsed, ledgerVars
  <2>2. (deal[e] = "FIAT_PENDING" /\ deal'[e] \in {"CANCELLED", "EXPIRED"}) \/ deal'[e] = deal[e]
    BY <1>3 DEF CancelDeal, ExpireDealIfLapsed
  <2> QED
    BY <1>1, <2>1, <2>2, LockUntouched DEF PaidFor, Unfinished
<1> QED
  BY <1>1, <1>2, <1>3, ConfirmLock DEF PaymentNext

(* A ruling settles the lock as it says; everything else about a case      *)
(* leaves the lock.                                                        *)
LEMMA RulingLock ==
  ASSUME ScreenInv, [DealNext]_dealSafeVars, NEW d \in Deals, NEW i \in DOMAIN proposals[d],
         NEW o \in Operators, ApproveResolution(d, i, o), NEW e \in Deals
  PROVE  LockOfDeal(e)' /\ PaidFor(e)'
<1> USE DEF ScreenInv, CaseInv, DealInv, DealTypeOK, LedgerInv, LedgerTypeOK
<1>1. UNCHANGED <<usdtLeg, seats, claim, confirmed>> /\ deal[d] = "DISPUTED"
  BY DEF ApproveResolution, CaseFreezesDeal
<1>2. \/ UNCHANGED <<lock, deal>>
      \/ /\ SettleAsRuled(d, proposals[d][i].disposition)
         /\ dispute'[d].state = "RESOLVED"
         /\ deal' = [deal EXCEPT ![d] = IF proposals[d][i].disposition = "RELEASE"
                                        THEN "COMPLETED" ELSE "CANCELLED"]
  BY DEF ApproveResolution, PlaceHold, accountVars
<1>3. CASE UNCHANGED <<lock, deal>> \/ e # d
  <2>1. lock'[e] = lock[e] /\ deal'[e] = deal[e]
    BY <1>2, <1>3 DEF SettleAsRuled, ReleaseDealValue, RefundDealValue, SettleLock
  <2> QED
    BY <1>1, <2>1, LockUntouched DEF PaidFor
<1>4. CASE e = d /\ ~UNCHANGED <<lock, deal>>
  <2>1. /\ dispute'[d].state = "RESOLVED"
        /\ lock[d].state = "LOCKED" /\ lock'[d].state # "NONE"
        /\ lock'[d].owner = lock[d].owner /\ lock'[d].amount = lock[d].amount
        /\ deal'[d] \in {"COMPLETED", "CANCELLED"}
    BY <1>2, <1>4 DEF SettleAsRuled, ReleaseDealValue, RefundDealValue, SettleLock, LockRows
  <2>2. RulingOf(d)'
    BY CaseNextInv
  <2>3. FiatSide(d)' = FiatSide(d) /\ CryptoSide(d)' = CryptoSide(d)
    BY <1>1 DEF FiatSide, CryptoSide
  <2>4. LockOfDeal(d)'
    BY <1>1, <2>1, <2>3 DEF LockOfDeal, Unfinished
  <2>5. PICK j \in Approved(d)' : /\ proposals'[d][j].approver \in Operators \ {proposals'[d][j].by}
                                  /\ RuledTo(d, proposals[d][j].disposition)'
    BY <2>1, <2>2 DEF RulingOf
  <2>6. proposals'[d][j].disposition \in {"RELEASE", "REFUND"}
    <3>1. proposals'[d] \in Seq(Proposals) /\ j \in DOMAIN proposals'[d]
      BY CaseNextInv, <2>5 DEF Approved
    <3>2. proposals'[d][j] \in Proposals
      BY <3>1
    <3> QED
      BY <3>2 DEF Proposals, Dispositions
  <2>7. lock'[d].owner = CryptoSide(d)'
    BY <2>1, <2>4 DEF LockOfDeal
  <2>8. PaidFor(d)'
    <3>1. CASE proposals'[d][j].disposition = "RELEASE"
      <4>1. lock'[d].state = "RELEASED" /\ lock'[d].beneficiary = FiatSide(d)'
        BY <2>5, <2>7, <3>1 DEF RuledTo, Counterparty
      <4>2. RuledSo(d, "RELEASE")'
        BY <2>5, <3>1 DEF RuledSo
      <4> QED
        BY <2>1, <4>1, <4>2 DEF PaidFor
    <3>2. CASE proposals'[d][j].disposition = "REFUND"
      <4>1. lock'[d].state = "REFUNDED" /\ lock'[d].beneficiary = CryptoSide(d)'
        BY <2>5, <2>7, <3>2 DEF RuledTo
      <4>2. RuledSo(d, "REFUND")'
        BY <2>5, <3>2 DEF RuledSo
      <4> QED
        BY <2>1, <4>1, <4>2 DEF PaidFor
    <3> QED
      BY <2>6, <3>1, <3>2
  <2> QED
    BY <1>4, <2>4, <2>8
<1> QED
  BY <1>3, <1>4

LEMMA DisputeLocks ==
  ASSUME ScreenInv, Exposed = {}, DisputeNext, NEW e \in Deals
  PROVE  LockOfDeal(e)' /\ PaidFor(e)'
<1> USE DEF ScreenInv, CaseInv, DealInv, DealTypeOK
<1>1. [DealNext]_dealSafeVars
  BY DEF DealNext
<1>2. ASSUME NEW d \in Deals, RaiseDispute(d)
      PROVE  LockOfDeal(e)' /\ PaidFor(e)'
  <2>1. UNCHANGED <<usdtLeg, seats, claim, confirmed, lock>>
    BY <1>2 DEF RaiseDispute, OpenCase, ledgerVars
  <2>2. (deal[e] \in {"FIAT_PENDING", "FIAT_CLAIMED"} /\ deal'[e] = "DISPUTED") \/ deal'[e] = deal[e]
    BY <1>2 DEF RaiseDispute, OpenCase, DealStates, TerminalStates
  <2> QED
    BY <1>1, <2>1, <2>2, LockUntouched DEF PaidFor, Unfinished
<1>3. ASSUME NEW d \in Deals,
             \/ \E o \in Operators, x \in Dispositions : ProposeResolution(d, o, x)
             \/ \E i \in DOMAIN proposals[d] : RejectProposal(d, i)
      PROVE  LockOfDeal(e)' /\ PaidFor(e)'
  <2>1. UNCHANGED <<usdtLeg, seats, deal, claim, confirmed, lock>>
    BY <1>3 DEF ProposeResolution, RejectProposal, ledgerVars
  <2> QED
    BY <1>1, <2>1, LockUntouched DEF PaidFor
<1> QED
  BY <1>1, <1>2, <1>3, RulingLock DEF DisputeNext, OpenDisputeCase

LEMMA SupportLocks ==
  ASSUME ScreenInv, Exposed = {}, CommandNext \/ SupportNext
  PROVE  /\ UNCHANGED <<lock, settling, claim>>
         /\ \A e \in Deals : LockOfDeal(e)' /\ PaidFor(e)'
<1>1. ~CommandNext
  BY DEF CommandNext, LockValue, StartSettleValue, FinishSettleValue, ReverseValue, ScreenInv
<1>2. UNCHANGED dealVars /\ UNCHANGED lock
  BY <1>1 DEF SupportNext, FundSandboxBalance, Pause, Resume, ReleaseHold, accountVars
<1>3. [DealNext]_dealSafeVars
  BY DEF DealNext
<1> QED
  BY <1>2, <1>3, LockUntouched DEF dealVars, ScreenInv, PaidFor

(* Neither a link step nor a dispute step touches a claim or a value       *)
(* command in progress.                                                    *)
LEMMA LinkKeeps == LinkNext => UNCHANGED <<settling, claim>>
<1>1. ASSUME NEW d \in Deals, NEW u \in Users,
             (\E r \in Roles : CreateDealLink(d, u, r)) \/ JoinDealLink(d, u)
      PROVE  UNCHANGED <<settling, claim>>
  BY <1>1 DEF CreateDealLink, JoinDealLink
<1>2. ASSUME NEW d \in Deals, CloseDealLink(d) \/ WindowPasses(d)
      PROVE  UNCHANGED <<settling, claim>>
  BY <1>2 DEF CloseDealLink, WindowPasses
<1> QED
  BY <1>1, <1>2 DEF LinkNext

LEMMA DisputeKeeps == DisputeNext => UNCHANGED <<settling, claim>>
<1>1. ASSUME NEW d \in Deals, RaiseDispute(d) \/ OpenDisputeCase(d)
      PROVE  UNCHANGED <<settling, claim>>
  BY <1>1 DEF RaiseDispute, OpenDisputeCase, OpenCase
<1>2. ASSUME NEW d \in Deals, NEW o \in Operators, NEW x \in Dispositions, ProposeResolution(d, o, x)
      PROVE  UNCHANGED <<settling, claim>>
  BY <1>2 DEF ProposeResolution
<1>3. ASSUME NEW d \in Deals, NEW i \in DOMAIN proposals[d], RejectProposal(d, i)
      PROVE  UNCHANGED <<settling, claim>>
  BY <1>3 DEF RejectProposal
<1>4. ASSUME NEW d \in Deals, NEW i \in DOMAIN proposals[d], NEW o \in Operators,
             ApproveResolution(d, i, o)
      PROVE  UNCHANGED <<settling, claim>>
  BY <1>4 DEF ApproveResolution
<1> QED
  BY <1>1, <1>2, <1>3, <1>4 DEF DisputeNext

LEMMA ScreenNextInv ==
  ASSUME Exposed = {}
  PROVE  ScreenInv /\ [DealNext]_dealSafeVars => ScreenInv'
<1> SUFFICES ASSUME ScreenInv, [DealNext]_dealSafeVars PROVE ScreenInv'
  OBVIOUS
<1>1. CaseInv'
  BY CaseNextInv DEF ScreenInv
<1>2. \A e \in Deals : LockOfDeal(e)' /\ PaidFor(e)'
  <2>1. CASE UNCHANGED dealSafeVars
    <3>1. UNCHANGED <<usdtLeg, seats, deal, claim, confirmed, lock>>
      BY <2>1 DEF dealSafeVars, ledgerVars
    <3> QED
      BY <3>1, LockUntouched DEF ScreenInv, PaidFor
  <2> QED
    BY <2>1, LinkLocks, PaymentLocks, DisputeLocks, SupportLocks DEF DealNext
<1>3. settling' = {} /\ ClaimsDiffer'
  <2>1. CASE UNCHANGED <<settling, claim>>
    BY <2>1 DEF ScreenInv, ClaimsDiffer
  <2>2. ASSUME NEW d \in Deals, NEW utr \in Utrs, SubmitPaymentClaim(d, utr)
        PROVE  settling' = {} /\ ClaimsDiffer'
    <3>1. /\ claim'[d] = utr
          /\ \A e \in Deals \ {d} : claim'[e] = claim[e] /\ claim[e] # utr
          /\ settling' = {}
      BY <2>2 DEF SubmitPaymentClaim, ScreenInv, CaseInv, DealInv, DealTypeOK
    <3>2. ASSUME NEW e \in Deals, NEW f \in Deals, claim'[e] # NoUtr, claim'[e] = claim'[f]
          PROVE  e = f
      <4>1. CASE e # d /\ f # d
        <5>1. claim[e] # NoUtr /\ claim[e] = claim[f]
          BY <3>1, <3>2, <4>1
        <5> QED
          BY <5>1 DEF ScreenInv, ClaimsDiffer
      <4>2. CASE e = d \/ f = d
        BY <3>1, <3>2, <4>2
      <4> QED
        BY <4>1, <4>2
    <3> QED
      BY <3>1, <3>2 DEF ClaimsDiffer
  <2>3. CASE PaymentNext
    <3>1. ASSUME NEW d \in Deals, ConfirmReceipt(d) \/ CancelDeal(d) \/ ExpireDealIfLapsed(d)
          PROVE  UNCHANGED <<settling, claim>>
      BY <3>1 DEF ConfirmReceipt, CancelDeal, ExpireDealIfLapsed
    <3> QED
      BY <2>1, <2>2, <2>3, <3>1 DEF PaymentNext
  <2>4. CASE LinkNext
    BY <2>1, <2>4, LinkKeeps
  <2>5. CASE DisputeNext
    BY <2>1, <2>5, DisputeKeeps
  <2>6. CASE UNCHANGED dealSafeVars
    BY <2>1, <2>6 DEF dealSafeVars
  <2> QED
    BY <2>1, <2>3, <2>4, <2>5, <2>6, SupportLocks DEF DealNext
<1> QED
  BY <1>1, <1>2, <1>3 DEF ScreenInv

LEMMA ScreenInvariant ==
  ASSUME Exposed = {}
  PROVE  DealSpec => []ScreenInv
<1>1. ScreenInv /\ [DealNext]_dealSafeVars => ScreenInv'
  BY ScreenNextInv
<1> QED
  BY <1>1, ScreenInitInv, PTL DEF DealSpec

(* From the screens alone, a join is whole or nothing: a USDT deal has the *)
(* lock over its full amount, from its crypto side, as soon as it exists.  *)
THEOREM JoinIsWholeHolds ==
  ASSUME Exposed = {}
  PROVE  DealSpec => []JoinIsWhole
<1>1. ScreenInv => JoinIsWhole
  BY DEF ScreenInv, LockOfDeal, JoinIsWhole
<1>2. DealSpec => []ScreenInv
  BY ScreenInvariant
<1> QED
  BY <1>1, <1>2, PTL

(* From the screens alone, an open case over a USDT deal has a live lock,  *)
(* so it can be ruled on.                                                  *)
THEOREM DisputeStaysResolvable ==
  ASSUME Exposed = {}
  PROVE  DealSpec => []DisputeIsResolvable
<1>1. ScreenInv => DisputeIsResolvable
  <2> SUFFICES ASSUME ScreenInv, NEW d \in usdtLeg, CaseActive(d)
               PROVE  lock[d].state = "LOCKED"
    BY DEF DisputeIsResolvable
  <2>1. d \in Deals /\ deal[d] \in Unfinished
    BY DEF ScreenInv, CaseInv, DealInv, DealTypeOK, CaseFreezesDeal, Unfinished
  <2> QED
    BY <2>1 DEF ScreenInv, LockOfDeal
<1>2. DealSpec => []ScreenInv
  BY ScreenInvariant
<1> QED
  BY <1>1, <1>2, PTL

(* From the screens alone, value leaves escrow only for the fiat side on a *)
(* claim of its own and a confirmation, or as two operators ruled.         *)
THEOREM PaidOnlyOnAgreement ==
  ASSUME Exposed = {}
  PROVE  DealSpec => []PaidOnlyOnAgreementOrRuling
<1>1. ScreenInv => PaidOnlyOnAgreementOrRuling
  BY DEF ScreenInv, PaidFor, ClaimsDiffer, RuledSo, PaidOnlyOnAgreementOrRuling
<1>2. DealSpec => []ScreenInv
  BY ScreenInvariant
<1> QED
  BY <1>1, <1>2, PTL

-----------------------------------------------------------------------------
(* What a case freezes.  No link and no payment step is open to a deal in  *)
(* dispute, so only a ruling, which closes the case, reaches its value.    *)
(* The commands that lock, settle or reverse value do not look at the deal *)
(* (assertNotFrozen reads the case outside the transaction): the theorem   *)
(* is about deployments that do not offer them.                            *)
FreezeInv == DealInv /\ settling = {}

LEMMA FrozenThroughDispute ==
  ASSUME DealInv, DisputeNext, NEW d \in Deals, CaseActive(d), CaseActive(d)'
  PROVE  lock'[d] = lock[d] /\ deal'[d] = deal[d]
<1> USE DEF DealInv, DealTypeOK
<1>1. deal[d] = "DISPUTED"
  BY DEF CaseFreezesDeal
<1>2. ASSUME NEW e \in Deals, OpenCase(e)
      PROVE  lock'[d] = lock[d] /\ deal'[d] = deal[d]
  BY <1>1, <1>2 DEF OpenCase, ledgerVars, accountVars
<1>3. ASSUME NEW e \in Deals,
             \/ \E o \in Operators, x \in Dispositions : ProposeResolution(e, o, x)
             \/ \E i \in DOMAIN proposals[e] : RejectProposal(e, i)
      PROVE  lock'[d] = lock[d] /\ deal'[d] = deal[d]
  BY <1>3 DEF ProposeResolution, RejectProposal, ledgerVars, accountVars
<1>4. ASSUME NEW e \in Deals, NEW i \in DOMAIN proposals[e], NEW o \in Operators,
             ApproveResolution(e, i, o)
      PROVE  lock'[d] = lock[d] /\ deal'[d] = deal[d]
  <2> DEFINE ruling == proposals[e][i].disposition
  <2>1. CASE UNCHANGED <<dispute, deal, lock>>
    BY <2>1
  <2>2. CASE /\ SettleAsRuled(e, ruling)
             /\ dispute' = [dispute EXCEPT ![e] = [state |-> "RESOLVED", version |-> @.version + 1]]
             /\ deal' = [deal EXCEPT ![e] = IF ruling = "RELEASE" THEN "COMPLETED" ELSE "CANCELLED"]
    <3>1. e # d
      <4>1. dispute'[e].state = "RESOLVED"
        BY <2>2
      <4> QED
        BY <4>1 DEF CaseActive
    <3>2. lock \in [Deals -> LockRows] /\ \A f \in Deals \ {e} : lock'[f] = lock[f]
      BY <2>2 DEF SettleAsRuled, ReleaseDealValue, RefundDealValue, SettleLock, LedgerInv, LedgerTypeOK
    <3> QED
      BY <2>2, <3>1, <3>2
  <2>3. PlaceHold(e, "DISPUTE_RESOLVE") \/ PlaceHold(e, RulingPoint(ruling)) => UNCHANGED lock
    BY DEF PlaceHold, accountVars
  <2> QED
    BY <1>4, <2>1, <2>2, <2>3 DEF ApproveResolution
<1> QED
  BY <1>2, <1>3, <1>4 DEF DisputeNext, RaiseDispute, OpenDisputeCase

(* Nor does a link step move a deal that exists, nor a payment step one    *)
(* that is not before its payment.                                         *)
LEMMA LinksLeaveDeals ==
  ASSUME DealInv, LinkNext, NEW d \in Deals, deal[d] # "NONE"
  PROVE  lock'[d] = lock[d] /\ deal'[d] = deal[d]
<1> USE DEF DealInv, DealTypeOK
<1>1. link[d] = "CONSUMED"
  BY DEF RowsAgree
<1>2. ASSUME NEW e \in Deals, NEW u \in Users, JoinDealLink(e, u)
      PROVE  lock'[d] = lock[d] /\ deal'[d] = deal[d]
  <2>1. e # d
    BY <1>1, <1>2 DEF JoinDealLink
  <2>2. \A a, w : LockDealValue(e, w, a) => lock'[d] = lock[d]
    BY <2>1 DEF LockDealValue, LedgerInv, LedgerTypeOK
  <2>3. \A w : PlaceHold(w, "VALUE_LOCK") => lock' = lock
    BY DEF PlaceHold, accountVars
  <2>4. lock'[d] = lock[d]
    BY <1>2, <2>2, <2>3 DEF JoinDealLink, ledgerVars, accountVars
  <2>5. deal'[d] = deal[d]
    BY <1>2, <2>1 DEF JoinDealLink
  <2> QED
    BY <2>4, <2>5
<1>3. ASSUME NEW e \in Deals,
             \/ \E u \in Users, r \in Roles : CreateDealLink(e, u, r)
             \/ CloseDealLink(e)
             \/ WindowPasses(e)
      PROVE  lock'[d] = lock[d] /\ deal'[d] = deal[d]
  BY <1>3 DEF CreateDealLink, CloseDealLink, WindowPasses, ledgerVars, accountVars
<1> QED
  BY <1>2, <1>3 DEF LinkNext

LEMMA PaymentLeavesOthers ==
  ASSUME DealInv, PaymentNext, NEW d \in Deals, deal[d] \notin {"FIAT_PENDING", "FIAT_CLAIMED"}
  PROVE  lock'[d] = lock[d] /\ deal'[d] = deal[d]
<1> USE DEF DealInv, DealTypeOK
<1>1. ASSUME NEW e \in Deals, ConfirmReceipt(e)
      PROVE  lock'[d] = lock[d] /\ deal'[d] = deal[d]
  <2>1. e # d
    BY <1>1 DEF ConfirmReceipt
  <2>2. ReleaseDealValue(e, FiatSide(e)) => lock'[d] = lock[d]
    BY <2>1 DEF ReleaseDealValue, SettleLock, LedgerInv, LedgerTypeOK
  <2>3. ReleaseRefused(e) => lock' = lock
    BY DEF ReleaseRefused, Refused, PlaceHold, ledgerVars, accountVars
  <2> QED
    BY <1>1, <2>1, <2>2, <2>3 DEF ConfirmReceipt, ledgerVars, accountVars
<1>2. ASSUME NEW e \in Deals,
             \/ \E utr \in Utrs : SubmitPaymentClaim(e, utr)
             \/ CancelDeal(e)
             \/ ExpireDealIfLapsed(e)
      PROVE  lock'[d] = lock[d] /\ deal'[d] = deal[d]
  BY <1>2 DEF SubmitPaymentClaim, CancelDeal, ExpireDealIfLapsed, ledgerVars, accountVars
<1> QED
  BY <1>1, <1>2 DEF PaymentNext

LEMMA FrozenStep ==
  ASSUME Exposed \subseteq {"DISPUTE_CASE_OPEN"}, FreezeInv, [DealNext]_dealSafeVars
  PROVE  /\ settling' = {}
         /\ \A d \in Deals : CaseActive(d) /\ CaseActive(d)' =>
               lock'[d] = lock[d] /\ deal'[d] = deal[d]
<1>1. ~CommandNext
  BY DEF CommandNext, LockValue, StartSettleValue, FinishSettleValue, ReverseValue, FreezeInv, CommandOf
<1>2. CASE SupportNext \/ UNCHANGED dealSafeVars
  BY <1>2 DEF SupportNext, FundSandboxBalance, Pause, Resume, ReleaseHold, dealSafeVars, dealVars,
     ledgerVars, accountVars, FreezeInv
<1>3. CASE LinkNext
  <2>1. settling' = settling
    BY <1>3, LinkKeeps
  <2> QED
    BY <1>3, <2>1, LinksLeaveDeals DEF FreezeInv, DealInv, CaseFreezesDeal
<1>4. CASE PaymentNext
  <2>1. settling' = settling
    BY <1>4 DEF PaymentNext, SubmitPaymentClaim, ConfirmReceipt, CancelDeal, ExpireDealIfLapsed
  <2> QED
    BY <1>4, <2>1, PaymentLeavesOthers DEF FreezeInv, DealInv, CaseFreezesDeal
<1>5. CASE DisputeNext
  <2>1. settling' = settling
    BY <1>5, DisputeKeeps
  <2> QED
    BY <1>5, <2>1, FrozenThroughDispute DEF FreezeInv
<1> QED
  BY <1>1, <1>2, <1>3, <1>4, <1>5 DEF DealNext

(* Where no command locks, settles or reverses value on its own, the value *)
(* and the state of a deal stay put for as long as its case stays open:    *)
(* what assertNotFrozen promises of every release, refund, completion and  *)
(* cancellation path.                                                      *)
THEOREM FrozenMeansFrozenHolds ==
  ASSUME Exposed \subseteq {"DISPUTE_CASE_OPEN"}
  PROVE  DealSpec => FrozenMeansFrozen
<1>1. DealInit => FreezeInv
  BY DealInitInv DEF FreezeInv, DealInit
<1>2. FreezeInv /\ [DealNext]_dealSafeVars => FreezeInv'
  BY DealNextInv, FrozenStep DEF FreezeInv
<1>3. FreezeInv /\ [DealNext]_dealSafeVars
      => [\A d \in Deals : CaseActive(d) /\ CaseActive(d)' =>
             lock'[d] = lock[d] /\ deal'[d] = deal[d]]_dealSafeVars
  BY FrozenStep
<1> QED
  BY <1>1, <1>2, <1>3, PTL DEF DealSpec, FrozenMeansFrozen

-----------------------------------------------------------------------------
(* Where a deal ends.                                                      *)
LEMMA EndedThroughDispute ==
  ASSUME Exposed = {}, DealInv, DisputeNext, NEW d \in Deals, deal[d] \in TerminalStates
  PROVE  lock'[d] = lock[d] /\ deal'[d] = deal[d]
<1> USE DEF DealInv, DealTypeOK
<1>1. ASSUME NEW e \in Deals, RaiseDispute(e)
      PROVE  lock'[d] = lock[d] /\ deal'[d] = deal[d]
  BY <1>1 DEF RaiseDispute, OpenCase, ledgerVars, accountVars
<1>2. ASSUME NEW e \in Deals,
             \/ \E o \in Operators, x \in Dispositions : ProposeResolution(e, o, x)
             \/ \E i \in DOMAIN proposals[e] : RejectProposal(e, i)
      PROVE  lock'[d] = lock[d] /\ deal'[d] = deal[d]
  BY <1>2 DEF ProposeResolution, RejectProposal, ledgerVars, accountVars
<1>3. ASSUME NEW e \in Deals, NEW i \in DOMAIN proposals[e], NEW o \in Operators,
             ApproveResolution(e, i, o)
      PROVE  lock'[d] = lock[d] /\ deal'[d] = deal[d]
  <2> DEFINE ruling == proposals[e][i].disposition
  <2>1. e # d
    BY <1>3 DEF ApproveResolution, CaseFreezesDeal, TerminalStates
  <2>2. SettleAsRuled(e, ruling) => lock'[d] = lock[d]
    BY <2>1 DEF SettleAsRuled, ReleaseDealValue, RefundDealValue, SettleLock, LedgerInv, LedgerTypeOK
  <2>3. PlaceHold(e, "DISPUTE_RESOLVE") \/ PlaceHold(e, RulingPoint(ruling)) => UNCHANGED lock
    BY DEF PlaceHold, accountVars
  <2> QED
    BY <1>3, <2>1, <2>2, <2>3 DEF ApproveResolution
<1> QED
  BY <1>1, <1>2, <1>3 DEF DisputeNext, OpenDisputeCase

LEMMA EndedStep ==
  ASSUME Exposed = {}, FreezeInv, [DealNext]_dealSafeVars, NEW d \in Deals,
         deal[d] \in TerminalStates
  PROVE  lock'[d] = lock[d] /\ deal'[d] = deal[d]
<1>1. DealInv /\ deal[d] \notin {"NONE", "FIAT_PENDING", "FIAT_CLAIMED"}
  BY DEF FreezeInv, TerminalStates
<1>2. ~CommandNext
  BY DEF CommandNext, LockValue, StartSettleValue, FinishSettleValue, ReverseValue, FreezeInv, CommandOf
<1>3. CASE SupportNext \/ UNCHANGED dealSafeVars
  BY <1>3 DEF SupportNext, FundSandboxBalance, Pause, Resume, ReleaseHold, dealSafeVars, dealVars,
     ledgerVars, accountVars
<1> QED
  BY <1>1, <1>2, <1>3, LinksLeaveDeals, PaymentLeavesOthers, EndedThroughDispute DEF DealNext

(* From the screens alone, a deal and its value stay as they are once it   *)
(* is completed, cancelled or expired.  So what a cancelled or lapsed deal *)
(* still has in escrow, or one that was completed although its release was *)
(* refused, nothing on a screen ever gives back or pays out (the findings  *)
(* about CancelledHoldsNothing, LapsedDealCanBeReported and                *)
(* CompletionPaysCounterparty are for good).                               *)
THEOREM EndedValueStays ==
  ASSUME Exposed = {}
  PROVE  DealSpec => [][\A d \in Deals : deal[d] \in TerminalStates =>
                           lock'[d] = lock[d] /\ deal'[d] = deal[d]]_dealSafeVars
<1>1. DealInit => FreezeInv
  BY DealInitInv DEF FreezeInv, DealInit
<1>2. FreezeInv /\ [DealNext]_dealSafeVars => FreezeInv'
  BY DealNextInv, FrozenStep DEF FreezeInv
<1>3. FreezeInv /\ [DealNext]_dealSafeVars
      => [\A d \in Deals : deal[d] \in TerminalStates =>
             lock'[d] = lock[d] /\ deal'[d] = deal[d]]_dealSafeVars
  BY EndedStep
<1> QED
  BY <1>1, <1>2, <1>3, PTL DEF DealSpec

-----------------------------------------------------------------------------
(* What the state of a deal says of its lock, the screens alone.           *)

(* No screen reverses a lock, a receipt is only confirmed by completing    *)
(* the deal, and only a confirmation or a ruling completes it.             *)
EndRight(d) ==
    /\ lock[d].state # "REVERSED"
    /\ d \in confirmed => deal[d] = "COMPLETED"
    /\ deal[d] = "COMPLETED" => d \in confirmed \/ Approved(d) # {}

EndInv == ScreenInv /\ \A d \in Deals : EndRight(d)

LEMMA EndInitInv == DealInit => EndInv
<1> SUFFICES ASSUME DealInit PROVE EndInv
  OBVIOUS
<1>1. \A d \in Deals : lock[d].state = "NONE" /\ deal[d] = "NONE" /\ d \notin confirmed
  BY DEF DealInit, LedgerInit, NoLock
<1> QED
  BY <1>1, ScreenInitInv DEF EndInv, EndRight

LEMMA LinkEnds ==
  ASSUME EndInv, LinkNext, NEW d \in Deals
  PROVE  /\ lock'[d].state # "REVERSED"
         /\ UNCHANGED <<confirmed, proposals>>
         /\ deal'[d] = "COMPLETED" <=> deal[d] = "COMPLETED"
<1> USE DEF EndInv, ScreenInv, CaseInv, DealInv, DealTypeOK
<1>1. ASSUME NEW e \in Deals, NEW u \in Users, JoinDealLink(e, u)
      PROVE  /\ lock'[d].state # "REVERSED" /\ UNCHANGED <<confirmed, proposals>>
             /\ deal'[d] = "COMPLETED" <=> deal[d] = "COMPLETED"
  <2>1. \A a, w : LockDealValue(e, w, a) => lock'[d].state # "REVERSED"
    BY DEF LockDealValue, LedgerInv, LedgerTypeOK, EndRight
  <2>2. \A w : PlaceHold(w, "VALUE_LOCK") => lock' = lock
    BY DEF PlaceHold, accountVars
  <2>3. lock'[d].state # "REVERSED"
    BY <1>1, <2>1, <2>2 DEF JoinDealLink, ledgerVars, EndRight
  <2>4. deal[e] = "NONE" /\ UNCHANGED <<confirmed, proposals>>
    BY <1>1 DEF JoinDealLink, RowsAgree
  <2>5. UNCHANGED deal \/ deal' = [deal EXCEPT ![e] = "FIAT_PENDING"]
    BY <1>1 DEF JoinDealLink
  <2> QED
    BY <2>3, <2>4, <2>5
<1>2. ASSUME NEW e \in Deals,
             \/ \E u \in Users, r \in Roles : CreateDealLink(e, u, r)
             \/ CloseDealLink(e)
             \/ WindowPasses(e)
      PROVE  UNCHANGED <<lock, deal, confirmed, proposals>>
  BY <1>2 DEF CreateDealLink, CloseDealLink, WindowPasses, ledgerVars
<1> QED
  BY <1>1, <1>2 DEF LinkNext, EndRight

LEMMA PaymentEnds ==
  ASSUME EndInv, PaymentNext, NEW d \in Deals
  PROVE  /\ lock'[d].state # "REVERSED"
         /\ proposals' = proposals
         /\ d \in confirmed /\ d \notin confirmed' => FALSE
         /\ \/ /\ deal'[d] = "COMPLETED" <=> deal[d] = "COMPLETED"
               /\ d \in confirmed' => d \in confirmed
            \/ deal'[d] = "COMPLETED" /\ d \in confirmed' /\ ConfirmReceipt(d)
<1> USE DEF EndInv, ScreenInv, CaseInv, DealInv, DealTypeOK
<1>1. ASSUME NEW e \in Deals, ConfirmReceipt(e)
      PROVE  /\ lock'[d].state # "REVERSED" /\ proposals' = proposals
             /\ deal' = [deal EXCEPT ![e] = "COMPLETED"]
             /\ confirmed' = confirmed \cup {e}
  <2>1. ReleaseDealValue(e, FiatSide(e)) => lock'[d].state # "REVERSED"
    BY DEF ReleaseDealValue, SettleLock, LedgerInv, LedgerTypeOK, LockRows, EndRight
  <2>2. ReleaseRefused(e) => lock' = lock
    BY DEF ReleaseRefused, Refused, PlaceHold, ledgerVars, accountVars
  <2> QED
    BY <1>1, <2>1, <2>2 DEF ConfirmReceipt, ledgerVars, EndRight
<1>2. ASSUME NEW e \in Deals,
             \/ \E utr \in Utrs : SubmitPaymentClaim(e, utr)
             \/ CancelDeal(e)
             \/ ExpireDealIfLapsed(e)
      PROVE  /\ UNCHANGED <<lock, confirmed, proposals>>
             /\ deal'[d] = "COMPLETED" <=> deal[d] = "COMPLETED"
  BY <1>2 DEF SubmitPaymentClaim, CancelDeal, ExpireDealIfLapsed, ledgerVars
<1> QED
  BY <1>1, <1>2 DEF PaymentNext, EndRight

LEMMA DisputeEnds ==
  ASSUME Exposed = {}, EndInv, DisputeNext, NEW d \in Deals
  PROVE  /\ lock'[d].state # "REVERSED"
         /\ UNCHANGED confirmed
         /\ \/ deal'[d] = deal[d]
            \/ deal[d] # "COMPLETED" /\ deal'[d] # "COMPLETED"
            \/ /\ deal[d] = "DISPUTED" /\ deal'[d] = "COMPLETED"
               /\ ReleaseDealValue(d, Counterparty(d, lock[d].owner))
               /\ Approved(d)' # {}
<1> USE DEF EndInv, ScreenInv, CaseInv, DealInv, DealTypeOK
<1>1. ASSUME NEW e \in Deals, RaiseDispute(e)
      PROVE  /\ UNCHANGED <<lock, confirmed>>
             /\ deal[e] # "COMPLETED" /\ deal' = [deal EXCEPT ![e] = "DISPUTED"]
  BY <1>1 DEF RaiseDispute, OpenCase, ledgerVars
<1>2. ASSUME NEW e \in Deals,
             \/ \E o \in Operators, x \in Dispositions : ProposeResolution(e, o, x)
             \/ \E i \in DOMAIN proposals[e] : RejectProposal(e, i)
      PROVE  UNCHANGED <<lock, confirmed, deal>>
  BY <1>2 DEF ProposeResolution, RejectProposal, ledgerVars
<1>3. ASSUME NEW e \in Deals, NEW i \in DOMAIN proposals[e], NEW o \in Operators,
             ApproveResolution(e, i, o)
      PROVE  /\ lock'[d].state # "REVERSED"
             /\ UNCHANGED confirmed
             /\ \/ deal'[d] = deal[d]
                \/ deal[d] # "COMPLETED" /\ deal'[d] # "COMPLETED"
                \/ /\ deal[d] = "DISPUTED" /\ deal'[d] = "COMPLETED"
                   /\ ReleaseDealValue(d, Counterparty(d, lock[d].owner))
                   /\ Approved(d)' # {}
  <2> DEFINE ruling == proposals[e][i].disposition
  <2>1. deal[e] = "DISPUTED" /\ UNCHANGED confirmed
    BY <1>3 DEF ApproveResolution, CaseFreezesDeal
  <2>2. SettleAsRuled(e, ruling) => lock'[d].state # "REVERSED"
    <3>1. \A b : ReleaseDealValue(e, b) => lock'[d].state # "REVERSED"
      BY DEF ReleaseDealValue, SettleLock, LedgerInv, LedgerTypeOK, LockRows, EndRight
    <3>2. \A b : RefundDealValue(e, b) => lock'[d].state # "REVERSED"
      BY DEF RefundDealValue, SettleLock, LedgerInv, LedgerTypeOK, LockRows, EndRight
    <3> HIDE DEF ruling
    <3> QED
      BY <3>1, <3>2 DEF SettleAsRuled
  <2>3. PlaceHold(e, "DISPUTE_RESOLVE") \/ PlaceHold(e, RulingPoint(ruling)) => UNCHANGED lock
    BY DEF PlaceHold, accountVars
  <2>4. lock'[d].state # "REVERSED"
    BY <1>3, <2>2, <2>3 DEF ApproveResolution, EndRight
  <2>5. CASE UNCHANGED deal
    BY <2>1, <2>4, <2>5
  <2>6. CASE /\ SettleAsRuled(e, ruling)
             /\ proposals' = [proposals EXCEPT ![e] = [j \in DOMAIN proposals[e] |->
                   IF j = i THEN Decided(proposals[e][j], "APPROVED", o)
                   ELSE IF j \in LiveProposals(e)
                   THEN Decided(proposals[e][j], "SUPERSEDED", NoOperator)
                   ELSE proposals[e][j]]]
             /\ deal' = [deal EXCEPT ![e] = IF ruling = "RELEASE" THEN "COMPLETED" ELSE "CANCELLED"]
    <3>1. i \in Approved(e)'
      BY <2>6 DEF Approved, Decided
    <3> QED
      BY <2>1, <2>4, <2>6, <3>1 DEF SettleAsRuled
  <2> QED
    BY <1>3, <2>5, <2>6 DEF ApproveResolution
<1> QED
  BY <1>1, <1>2, <1>3 DEF DisputeNext, OpenDisputeCase, EndRight

LEMMA EndNextInv ==
  ASSUME Exposed = {}
  PROVE  EndInv /\ [DealNext]_dealSafeVars => EndInv'
<1> SUFFICES ASSUME EndInv, [DealNext]_dealSafeVars PROVE EndInv'
  OBVIOUS
<1>1. ScreenInv'
  BY ScreenNextInv DEF EndInv
<1>2. ASSUME NEW d \in Deals PROVE EndRight(d)'
  <2>1. deal[d] = "COMPLETED" => deal'[d] = "COMPLETED" /\ Approved(d)' = Approved(d)
    BY FinishedStays DEF EndInv, ScreenInv, Finished, Approved
  <2>2. CASE LinkNext
    BY <2>1, <2>2, LinkEnds DEF EndInv, EndRight
  <2>3. CASE PaymentNext
    BY <2>1, <2>3, PaymentEnds DEF EndInv, EndRight
  <2>4. CASE DisputeNext
    BY <2>1, <2>4, DisputeEnds DEF EndInv, EndRight
  <2>5. CASE CommandNext \/ SupportNext
    <3>1. ~CommandNext
      BY DEF CommandNext, LockValue, StartSettleValue, FinishSettleValue, ReverseValue, ScreenInv, EndInv
    <3>2. UNCHANGED dealVars /\ UNCHANGED lock
      BY <2>5, <3>1 DEF SupportNext, FundSandboxBalance, Pause, Resume, ReleaseHold, accountVars
    <3> QED
      BY <3>2 DEF dealVars, EndInv, EndRight, Approved
  <2>6. CASE UNCHANGED dealSafeVars
    BY <2>6 DEF dealSafeVars, ledgerVars, EndInv, EndRight, Approved
  <2> QED
    BY <2>2, <2>3, <2>4, <2>5, <2>6 DEF DealNext
<1> QED
  BY <1>1, <1>2 DEF EndInv

LEMMA EndInvariant ==
  ASSUME Exposed = {}
  PROVE  DealSpec => []EndInv
<1>1. EndInv /\ [DealNext]_dealSafeVars => EndInv'
  BY EndNextInv
<1> QED
  BY <1>1, EndInitInv, PTL DEF DealSpec

LiveLock(d) ==
    /\ lock[d].state = "LOCKED"
    /\ lock[d].owner = CryptoSide(d) /\ lock[d].amount = DealAmount[d]
    /\ dispute[d].state # "RESOLVED"

PaidTo(d, settlement, u) == lock[d].state = settlement /\ lock[d].beneficiary = u

(* Where the USDT of a deal is, read off the state of the deal.            *)
DealTellsItsLock ==
    \A d \in usdtLeg :
        /\ deal[d] = "COMPLETED" => \/ PaidTo(d, "RELEASED", FiatSide(d))
                                    \/ LiveLock(d) /\ d \in confirmed
        /\ deal[d] = "CANCELLED" => \/ PaidTo(d, "REFUNDED", CryptoSide(d)) /\ RuledSo(d, "REFUND")
                                    \/ LiveLock(d)
        /\ deal[d] \in Unfinished => LiveLock(d)

(* From the screens alone, the USDT of a completed deal is with its fiat   *)
(* side, or in escrow because the release of a confirmed receipt was       *)
(* refused; that of a cancelled deal went back by a ruling, or is in       *)
(* escrow still; and until then, in an expired deal too, all of it is in   *)
(* escrow.  There is no third place: this is what of                       *)
(* CompletionPaysCounterparty and CancelledHoldsNothing is true.           *)
THEOREM DealTellsItsLockHolds ==
  ASSUME Exposed = {}
  PROVE  DealSpec => []DealTellsItsLock
<1>1. ASSUME EndInv, NEW d \in usdtLeg
      PROVE  /\ deal[d] = "COMPLETED" => \/ PaidTo(d, "RELEASED", FiatSide(d))
                                         \/ LiveLock(d) /\ d \in confirmed
             /\ deal[d] = "CANCELLED" => \/ PaidTo(d, "REFUNDED", CryptoSide(d)) /\ RuledSo(d, "REFUND")
                                         \/ LiveLock(d)
             /\ deal[d] \in Unfinished => LiveLock(d)
  <2>1. /\ d \in Deals /\ DealTypeOK /\ LedgerTypeOK
        /\ LockOfDeal(d) /\ PaidFor(d) /\ RulingOf(d) /\ EndRight(d)
    BY <1>1 DEF EndInv, ScreenInv, CaseInv, DealInv, LedgerInv, DealTypeOK
  <2>2. lock[d].state \in {"NONE", "LOCKED", "RELEASED", "REFUNDED"}
    BY <2>1 DEF LedgerTypeOK, LockRows, LockStates, EndRight
  <2>3. /\ RuledSo(d, "RELEASE") => RuledTo(d, "RELEASE")
        /\ RuledSo(d, "REFUND") => RuledTo(d, "REFUND")
    BY <2>1 DEF RuledSo, RulingOf
  <2>4. dispute[d].state = "RESOLVED" => lock[d].state # "LOCKED" /\ deal[d] \in {"COMPLETED", "CANCELLED"}
    BY <2>1 DEF RulingOf, RuledTo
  <2>5. deal[d] # "NONE" /\ lock[d].state = "LOCKED" => LiveLock(d)
    BY <2>1, <2>4 DEF LiveLock, LockOfDeal
  <2>6. CASE deal[d] = "COMPLETED"
    <3>1. lock[d].state \in {"LOCKED", "RELEASED"}
      BY <2>1, <2>2, <2>3, <2>6 DEF LockOfDeal, PaidFor, RuledTo
    <3>2. lock[d].state = "LOCKED" => d \in confirmed
      BY <2>1, <2>4, <2>6 DEF EndRight, RulingOf
    <3> QED
      BY <2>1, <2>5, <2>6, <3>1, <3>2 DEF PaidTo, PaidFor, Unfinished
  <2>7. CASE deal[d] = "CANCELLED"
    <3>1. lock[d].state \in {"LOCKED", "REFUNDED"}
      BY <2>1, <2>2, <2>3, <2>7 DEF LockOfDeal, PaidFor, RuledTo, EndRight
    <3> QED
      BY <2>1, <2>5, <2>7, <3>1 DEF PaidTo, PaidFor, Unfinished
  <2>8. CASE deal[d] \in Unfinished
    BY <2>1, <2>5, <2>8 DEF LockOfDeal, Unfinished
  <2> QED
    BY <2>6, <2>7, <2>8
<1>2. EndInv => DealTellsItsLock
  BY <1>1 DEF DealTellsItsLock
<1>3. DealSpec => []EndInv
  BY EndInvariant
<1> QED
  BY <1>2, <1>3, PTL

-----------------------------------------------------------------------------
(* When a completion pays, and who pays.                                   *)

(* A switch, a standing hold or the policy may keep the release back.      *)
ReleaseGated(d) ==
    ~Evaluated(d, "ESCROW_RELEASE") \/ Verdicts["ESCROW_RELEASE"] \cap {"HOLD", "REJECT"} # {}

(* The step that completes a deal pays its fiat side, unless the gate      *)
(* stands between.                                                         *)
CompletionPaysUnlessGated ==
    [][\A d \in usdtLeg : deal[d] # "COMPLETED" /\ deal'[d] = "COMPLETED" =>
          PaidTo(d, "RELEASED", FiatSide(d))' \/ ReleaseGated(d)]_dealSafeVars

LEMMA ReleaseReleases ==
  ASSUME LedgerTypeOK, NEW d \in Deals, NEW b, ReleaseDealValue(d, b)
  PROVE  lock'[d].state = "RELEASED"
  BY DEF ReleaseDealValue, SettleLock, LedgerTypeOK, LockRows

LEMMA CompletionReleases ==
  ASSUME Exposed = {}, EndInv, [DealNext]_dealSafeVars, NEW d \in usdtLeg,
         deal[d] # "COMPLETED", deal'[d] = "COMPLETED"
  PROVE  lock'[d].state = "RELEASED" \/ ReleaseGated(d)
<1>1. /\ d \in Deals /\ LedgerTypeOK /\ LockOfDeal(d)
      /\ Verdicts["ESCROW_RELEASE"] \subseteq {"ALLOW", "HOLD", "REJECT"}
  BY LedgerAssumption DEF EndInv, ScreenInv, CaseInv, DealInv, LedgerInv, DealTypeOK, Points
<1>2. ~LinkNext
  BY <1>1, LinkEnds
<1>3. CASE PaymentNext
  <2>1. ConfirmReceipt(d)
    BY <1>1, <1>3, PaymentEnds
  <2>2. lock[d].state = "LOCKED"
    BY <1>1, <2>1 DEF ConfirmReceipt, LockOfDeal, Unfinished
  <2>3. ReleaseDealValue(d, FiatSide(d)) \/ Refused(d, "ESCROW_RELEASE")
    BY <2>1, <2>2 DEF ConfirmReceipt, ReleaseRefused
  <2>4. Refused(d, "ESCROW_RELEASE") => ReleaseGated(d)
    BY DEF Refused, PlaceHold, ReleaseGated
  <2> QED
    BY <1>1, <2>3, <2>4, ReleaseReleases
<1>4. CASE DisputeNext
  BY <1>1, <1>4, DisputeEnds, ReleaseReleases
<1>5. ~CommandNext
  BY DEF CommandNext, LockValue, StartSettleValue, FinishSettleValue, ReverseValue, EndInv, ScreenInv
<1>6. ~SupportNext /\ ~UNCHANGED dealSafeVars
  BY DEF SupportNext, dealSafeVars, dealVars
<1> QED
  BY <1>2, <1>3, <1>4, <1>5, <1>6 DEF DealNext

(* From the screens alone a refusing gate is the only way a deal completes *)
(* unpaid: no race, no ruling, no missing lock, no fee.  confirmReceiptIn  *)
(* completes first and releases second, and that order costs the fiat side *)
(* its USDT exactly where a switch is down, a hold stands or the policy    *)
(* says HOLD or REJECT.                                                    *)
THEOREM CompletionPaysUnlessGatedHolds ==
  ASSUME Exposed = {}
  PROVE  DealSpec => CompletionPaysUnlessGated
<1>1. ASSUME EndInv, EndInv', [DealNext]_dealSafeVars, NEW d \in usdtLeg,
             deal[d] # "COMPLETED", deal'[d] = "COMPLETED"
      PROVE  PaidTo(d, "RELEASED", FiatSide(d))' \/ ReleaseGated(d)
  <2>1. d \in Deals
    BY <1>1 DEF EndInv, ScreenInv, CaseInv, DealInv, DealTypeOK
  <2>2. PaidFor(d)'
    BY <1>1, <2>1 DEF EndInv, ScreenInv
  <2> QED
    BY <1>1, <2>2, CompletionReleases DEF PaidTo, PaidFor
<1>2. EndInv /\ EndInv' /\ [DealNext]_dealSafeVars
      => [\A d \in usdtLeg : deal[d] # "COMPLETED" /\ deal'[d] = "COMPLETED" =>
             PaidTo(d, "RELEASED", FiatSide(d))' \/ ReleaseGated(d)]_dealSafeVars
  BY <1>1
<1>3. DealSpec => []EndInv
  BY EndInvariant
<1> QED
  BY <1>2, <1>3, PTL DEF DealSpec, CompletionPaysUnlessGated

(* What a person can lose on the screens: the amount of a deal they give,  *)
(* when it is joined, or on one they are paid for, a fee above the price.  *)
Gives(u, d) ==
    /\ deal[d] = "NONE" /\ deal'[d] # "NONE"
    /\ u = CryptoSide(d)'
    /\ balance'[u] = balance[u] - DealAmount[d]

PaysTheFee(u, d) ==
    /\ lock[d].state = "LOCKED" /\ lock'[d].state = "RELEASED"
    /\ u = FiatSide(d)'
    /\ balance'[u] = balance[u] + DealAmount[d] - Fee[d]

PoorerOnlyByJoining ==
    [][\A u \in Users : balance'[u] < balance[u] =>
          \E d \in Deals : Gives(u, d) \/ PaysTheFee(u, d)]_dealSafeVars

LEMMA LegStays ==
  ASSUME Exposed = {}, ScreenInv, DealNext, ~LinkNext
  PROVE  usdtLeg' = usdtLeg
<1>1. ~CommandNext
  BY DEF CommandNext, LockValue, StartSettleValue, FinishSettleValue, ReverseValue, ScreenInv
<1>2. CASE PaymentNext
  BY <1>2 DEF PaymentNext, SubmitPaymentClaim, ConfirmReceipt, CancelDeal, ExpireDealIfLapsed
<1>3. CASE DisputeNext
  BY <1>3 DEF DisputeNext, RaiseDispute, OpenDisputeCase, OpenCase, ProposeResolution,
     RejectProposal, ApproveResolution
<1>4. CASE SupportNext
  BY <1>4 DEF SupportNext, dealVars
<1> QED
  BY <1>1, <1>2, <1>3, <1>4 DEF DealNext

LEMMA ScreenMakesPoorer ==
  ASSUME Exposed = {}, ScreenInv, ScreenInv', [DealNext]_dealSafeVars,
         NEW u \in Users, balance'[u] < balance[u]
  PROVE  \E d \in Deals : Gives(u, d) \/ PaysTheFee(u, d)
<1>1. DealInv /\ LedgerInv /\ balance \in [Users -> Nat]
  BY DEF ScreenInv, CaseInv, DealInv, LedgerInv, LedgerTypeOK
<1>2. balance' # balance
  BY <1>1
<1>3. LedgerNext /\ DealNext
  BY <1>1, <1>2, DealStepIsLedgerStep DEF ledgerVars, accountVars, dealSafeVars
<1>4. PICK d \in Deals : PoorerBy(u, d)
  BY <1>1, <1>3, StepMakesPoorer
<1>5. LockOfDeal(d) /\ PaidFor(d) /\ LockOfDeal(d)' /\ PaidFor(d)'
  BY DEF ScreenInv
<1>6. CASE lock[d].state = "NONE" /\ lock'[d].state = "LOCKED"
  <2>1. lock'[d].owner = u /\ balance'[u] = balance[u] - lock'[d].amount
    BY <1>4, <1>6 DEF PoorerBy
  <2>2. deal'[d] # "NONE" /\ d \in usdtLeg' /\ u = CryptoSide(d)' /\ lock'[d].amount = DealAmount[d]
    BY <1>5, <1>6, <2>1 DEF LockOfDeal
  <2>3. deal[d] = "NONE"
    <3>1. CASE LinkNext
      <4>1. deal[d] # "NONE" => lock'[d] = lock[d]
        BY <1>1, <3>1, LinksLeaveDeals
      <4> QED
        BY <1>6, <4>1
    <3>2. CASE ~LinkNext
      BY <1>3, <1>5, <1>6, <2>2, <3>2, LegStays DEF LockOfDeal
    <3> QED
      BY <3>1, <3>2
  <2> QED
    BY <2>1, <2>2, <2>3 DEF Gives
<1>7. CASE lock[d].state = "LOCKED" /\ lock'[d].state = "RELEASED"
  BY <1>4, <1>5, <1>7 DEF PoorerBy, PaysTheFee, LockOfDeal, PaidFor
<1> QED
  BY <1>4, <1>6, <1>7 DEF PoorerBy

(* Nobody is charged for a deal they do not give in or are not paid by:    *)
(* refusals, rulings, expiries and confirmations, in any order, take       *)
(* nothing from a balance, and the join takes the price once.              *)
THEOREM PoorerOnlyByJoiningHolds ==
  ASSUME Exposed = {}
  PROVE  DealSpec => PoorerOnlyByJoining
<1>1. ScreenInv /\ ScreenInv' /\ [DealNext]_dealSafeVars
      => [\A u \in Users : balance'[u] < balance[u] =>
             \E d \in Deals : Gives(u, d) \/ PaysTheFee(u, d)]_dealSafeVars
  BY ScreenMakesPoorer
<1>2. DealSpec => []ScreenInv
  BY ScreenInvariant
<1> QED
  BY <1>1, <1>2, PTL DEF DealSpec, PoorerOnlyByJoining

(* With the commands exposed as well, the ledger's own bounds remain: a    *)
(* balance pays for its owner's lock or fee only, and the revenue stays    *)
(* within the fees of the released deals.                                  *)
THEOREM DealsChargeOnlyTheirOwn == DealSpec => PoorerOnlyByOwnDeal /\ []RevenueIsOfReleases
  BY DealImplementsLedger, PoorerOnlyByOwnDealHolds, RevenueIsOfReleasesHolds, PTL
=============================================================================
