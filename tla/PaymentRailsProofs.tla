------------------------- MODULE PaymentRailsProofs -------------------------
(***************************************************************************)
(* Proofs about PaymentRails and RailRequests, for any deals, payments,    *)
(* references, requests, workers and bounds.  First the payments and their *)
(* reports, then the queue of calls to the providers.                      *)
(*                                                                         *)
(* What a report does rests on a state read when it was matched;           *)
(* IngestFresh says that the row lock keeps that state true until the      *)
(* transaction ends, and every other fact about payments needs it.  At the *)
(* end, what becomes of a call whose last attempt died with its worker.    *)
(***************************************************************************)
EXTENDS PaymentRails, RailRequests, ValueLedgerProofs

(* The row of a payment under ingestion has not moved since it was read.   *)
IngestFresh ==
    \A i \in Intents : ingest[i] # NoEvent =>
        /\ ingest[i].state = intent[i].state
        /\ i \in instructed
        /\ ingest[i].report = "CONFIRMED" => ingest[i].ref \in Refs

(* What the unique index holds.                                            *)
ClaimsAreUnique ==
    \A x \in Rails, r \in Refs, i, j \in Intents :
        <<x, r, i>> \in claimed /\ <<x, r, j>> \in claimed => i = j

SettledIsClaimed ==
    \A i \in Intents :
        intent[i].state \in Settled => <<Terms[i].rail, intent[i].ref, i>> \in claimed

RailsInv ==
    /\ RailsTypeOK
    /\ IngestFresh
    /\ ClaimsAreUnique
    /\ SettledIsClaimed
    /\ PostedIsConfirmed

LEMMA RailsInitInv == RailsInit => RailsInv
  BY RailsAssumption DEF RailsInit, RailsInv, RailsTypeOK, IntentRows, IntentStates, Settled,
     IngestFresh, ClaimsAreUnique, SettledIsClaimed, PostedIsConfirmed

(* A step that leaves the rails alone.                                     *)
LEMMA RailsIdleInv == RailsInv /\ UNCHANGED railVars => RailsInv'
  BY DEF RailsInv, railVars, RailsTypeOK, IngestFresh, ClaimsAreUnique, SettledIsClaimed,
     PostedIsConfirmed

LEMMA OpenInv ==
  ASSUME NEW i \in Intents, RailsInv, OpenIntent(i)
  PROVE  RailsInv'
<1> USE DEF RailsInv
<1>1. RailsTypeOK'
  BY DEF OpenIntent, RailsTypeOK, IntentRows, IntentStates, Settled
<1>2. IngestFresh'
  BY DEF OpenIntent, IngestFresh, RailsTypeOK
<1>3. ClaimsAreUnique' /\ SettledIsClaimed' /\ PostedIsConfirmed'
  BY DEF OpenIntent, RailsTypeOK, ClaimsAreUnique, SettledIsClaimed, PostedIsConfirmed, Settled
<1> QED
  BY <1>1, <1>2, <1>3

LEMMA IssueInv ==
  ASSUME NEW i \in Intents, RailsInv, IssueInstruction(i)
  PROVE  RailsInv'
<1> USE DEF RailsInv, RowFree
<1>1. RailsTypeOK'
  BY DEF IssueInstruction, RailsTypeOK, IntentRows, IntentStates, Settled
<1>2. IngestFresh'
  BY DEF IssueInstruction, IngestFresh, RailsTypeOK
<1>3. ClaimsAreUnique' /\ SettledIsClaimed' /\ PostedIsConfirmed'
  BY DEF IssueInstruction, RailsTypeOK, ClaimsAreUnique, SettledIsClaimed, PostedIsConfirmed,
     Settled
<1> QED
  BY <1>1, <1>2, <1>3

LEMMA ExpireInv ==
  ASSUME NEW S \in SUBSET Intents, RailsInv, ExpirePaymentIntents(S)
  PROVE  RailsInv'
<1> USE DEF RailsInv, RowFree, Live
<1>1. RailsTypeOK'
  BY DEF ExpirePaymentIntents, RailsTypeOK, IntentRows, IntentStates, Settled, LiveStates
<1>2. IngestFresh'
  BY DEF ExpirePaymentIntents, IngestFresh, RailsTypeOK
<1>3. ClaimsAreUnique' /\ SettledIsClaimed' /\ PostedIsConfirmed'
  BY DEF ExpirePaymentIntents, RailsTypeOK, ClaimsAreUnique, SettledIsClaimed,
     PostedIsConfirmed, Settled, LiveStates
<1> QED
  BY <1>1, <1>2, <1>3

LEMMA MatchInv ==
  ASSUME NEW i \in Intents, NEW report \in Reports, NEW r \in Refs, RailsInv,
         MatchEvent(i, report, r)
  PROVE  RailsInv'
<1> USE DEF RailsInv
<1>1. RailsTypeOK'
  BY RailsAssumption DEF MatchEvent, RailsTypeOK, IntentRows, Events
<1>2. IngestFresh'
  BY DEF MatchEvent, IngestFresh, RailsTypeOK
<1>3. ClaimsAreUnique' /\ SettledIsClaimed' /\ PostedIsConfirmed'
  BY DEF MatchEvent, ClaimsAreUnique, SettledIsClaimed, PostedIsConfirmed
<1> QED
  BY <1>1, <1>2, <1>3

(* A report that moves the payment from one unsettled state to another, or *)
(* from CONFIRMED to REVERSED, and claims nothing.                         *)
LEMMA ReportInv ==
  ASSUME NEW i \in Intents, NEW s \in IntentStates, RailsInv, ingest[i] # NoEvent,
         intent' = [intent EXCEPT ![i].state = s],
         s \in Settled <=> intent[i].state \in Settled,
         s \in {"NONE", "REQUESTED"} => s = intent[i].state,
         EndIngest(i), UNCHANGED <<journal, claimed>>, incidents' \subseteq Deals
  PROVE  RailsInv'
<1> USE DEF RailsInv, EndIngest
<1>1. RailsTypeOK'
  BY DEF RailsTypeOK, IntentRows, IngestFresh
<1>2. IngestFresh'
  BY DEF IngestFresh, RailsTypeOK
<1>3. ClaimsAreUnique' /\ SettledIsClaimed' /\ PostedIsConfirmed'
  BY DEF RailsTypeOK, ClaimsAreUnique, SettledIsClaimed, PostedIsConfirmed, IntentRows
<1> QED
  BY <1>1, <1>2, <1>3

LEMMA ConfirmInv ==
  ASSUME NEW i \in Intents, RailsInv, ConfirmPayment(i)
  PROVE  RailsInv'
<1> USE DEF RailsInv, EndIngest, Reported
<1>1. /\ intent[i].state \in {"INSTRUCTED", "OBSERVED"}
      /\ ingest[i].ref \in Refs
      /\ i \in instructed
      /\ i \notin journal
  BY DEF ConfirmPayment, IngestFresh, PostedIsConfirmed, Settled
<1>2. intent' = [intent EXCEPT ![i] = [state |-> "CONFIRMED", ref |-> ingest[i].ref]]
  BY <1>1 DEF ConfirmPayment, RailsTypeOK
<1>3. Terms[i].rail \in Rails
  BY RailsAssumption
<1>4. claimed' = claimed \cup {<<Terms[i].rail, ingest[i].ref, i>>}
  BY DEF ConfirmPayment
<1>5. journal' = IF Terms[i].rail = "USDT" THEN journal \cup {i} ELSE journal
  BY <1>1 DEF ConfirmPayment, PostOnce
<1>6. RailsTypeOK'
  BY <1>1, <1>2, <1>3, <1>4, <1>5, RailsAssumption
     DEF ConfirmPayment, RailsTypeOK, IntentRows, IntentStates, Settled
<1>7. IngestFresh'
  BY <1>2 DEF ConfirmPayment, IngestFresh, RailsTypeOK
<1>8. ClaimsAreUnique'
  BY <1>4 DEF ConfirmPayment, ClaimTaken, ClaimsAreUnique
<1>9. SettledIsClaimed' /\ PostedIsConfirmed'
  BY <1>1, <1>2, <1>4, <1>5 DEF RailsTypeOK, SettledIsClaimed, PostedIsConfirmed, Settled
<1> QED
  BY <1>6, <1>7, <1>8, <1>9

LEMMA IngestInv ==
  ASSUME NEW i \in Intents, RailsInv, IngestNext(i)
  PROVE  RailsInv'
<1>1. ASSUME NEW report \in Reports, NEW r \in Refs, MatchEvent(i, report, r) PROVE RailsInv'
  BY <1>1, MatchInv
<1>2. CASE ApplyFailed(i)
  <2> DEFINE s == IF Live(i) THEN "FAILED" ELSE intent[i].state
  <2>1. s \in IntentStates /\ intent[i].state \notin Settled /\ s \notin Settled
    BY <1>2 DEF ApplyFailed, Reported, RailsInv, IngestFresh, RailsTypeOK, IntentRows,
       IntentStates, Settled
  <2>2. s \in {"NONE", "REQUESTED"} => s = intent[i].state
    OBVIOUS
  <2>3. intent' = [intent EXCEPT ![i].state = s]
    BY <1>2 DEF ApplyFailed, RailsInv, RailsTypeOK
  <2> HIDE DEF s
  <2> QED
    BY <1>2, <2>1, <2>2, <2>3, ReportInv DEF ApplyFailed, Reported, RailsInv, RailsTypeOK
<1>3. CASE ApplyPending(i)
  <2> DEFINE s == IF intent[i].state = "INSTRUCTED" THEN "OBSERVED" ELSE intent[i].state
  <2>1. s \in IntentStates /\ intent[i].state \notin Settled /\ s \notin Settled
    BY <1>3 DEF ApplyPending, Reported, RailsInv, IngestFresh, RailsTypeOK, IntentRows,
       IntentStates, Settled
  <2>2. s \in {"NONE", "REQUESTED"} => s = intent[i].state
    OBVIOUS
  <2>3. intent' = [intent EXCEPT ![i].state = s]
    BY <1>3 DEF ApplyPending, RailsInv, RailsTypeOK
  <2> HIDE DEF s
  <2> QED
    BY <1>3, <2>1, <2>2, <2>3, ReportInv DEF ApplyPending, Reported, RailsInv, RailsTypeOK
<1>4. CASE ConfirmPayment(i)
  BY <1>4, ConfirmInv
<1>5. CASE ApplyReorg(i)
  <2>1. intent[i].state = "CONFIRMED" /\ ingest[i] # NoEvent
    BY <1>5 DEF ApplyReorg, Reorganised, Reported, RailsInv, IngestFresh
  <2>2. intent' = [intent EXCEPT ![i].state = "REVERSED"] /\ EndIngest(i)
        /\ UNCHANGED <<journal, claimed, incidents>>
    BY <1>5 DEF ApplyReorg
  <2> QED
    BY <2>1, <2>2, ReportInv DEF IntentStates, Settled, RailsInv, RailsTypeOK
<1>6. CASE RaiseIncident(i)
  <2>1. intent[i].state = "CONFIRMED" /\ ingest[i] # NoEvent
    BY <1>6 DEF RaiseIncident, Reorganised, Reported, RailsInv, IngestFresh
  <2>2. intent' = [intent EXCEPT ![i].state = "CONFIRMED"] /\ EndIngest(i)
        /\ UNCHANGED <<journal, claimed>> /\ incidents' \subseteq Deals
    BY <1>6, <2>1, RailsAssumption DEF RaiseIncident, RailsInv, RailsTypeOK, IntentRows, DealOf
  <2> QED
    BY <2>1, <2>2, ReportInv DEF IntentStates, Settled
<1>7. CASE DismissEvent(i)
  <2>1. ingest[i] # NoEvent
    BY <1>7 DEF DismissEvent, Reported
  <2>2. intent' = [intent EXCEPT ![i].state = intent[i].state] /\ EndIngest(i)
        /\ UNCHANGED <<journal, claimed>> /\ incidents' \subseteq Deals
    BY <1>7 DEF DismissEvent, RailsInv, RailsTypeOK, IntentRows
  <2>3. intent[i].state \in IntentStates
    BY DEF RailsInv, RailsTypeOK, IntentRows
  <2> QED
    BY <2>1, <2>2, <2>3, ReportInv
<1> QED
  BY <1>1, <1>2, <1>3, <1>4, <1>5, <1>6, <1>7 DEF IngestNext

LEMMA RailsNextInv == RailsInv /\ [RailsNext]_railsVars => RailsInv'
<1> SUFFICES ASSUME RailsInv, [RailsNext]_railsVars PROVE RailsInv'
  OBVIOUS
<1>1. ASSUME NEW i \in Intents, OpenIntent(i) \/ IssueInstruction(i) \/ IngestNext(i)
      PROVE  RailsInv'
  BY <1>1, OpenInv, IssueInv, IngestInv
<1>2. ASSUME NEW S \in SUBSET Intents, ExpirePaymentIntents(S) PROVE RailsInv'
  BY <1>2, ExpireInv
<1>3. ASSUME NEW d \in Deals, CloseDeal(d) PROVE RailsInv'
  BY <1>3 DEF CloseDeal, RailsInv, RailsTypeOK, IngestFresh, ClaimsAreUnique,
     SettledIsClaimed, PostedIsConfirmed
<1>4. CASE LedgerMoves
  BY <1>4, RailsIdleInv DEF LedgerMoves
<1>5. CASE UNCHANGED railsVars
  BY <1>5, RailsIdleInv DEF railsVars
<1> QED
  BY <1>1, <1>2, <1>3, <1>4, <1>5 DEF RailsNext

LEMMA RailsInvariant == RailsSpec => []RailsInv
  BY RailsInitInv, RailsNextInv, PTL DEF RailsSpec

(* The tables of the rails keep their types and their checks.              *)
THEOREM RailsTypes == RailsSpec => []RailsTypeOK
<1>1. RailsInv => RailsTypeOK
  BY DEF RailsInv
<1> QED
  BY <1>1, RailsInvariant, PTL

(* No two payments ever rest on one reference, however many ingestions     *)
(* overlap: it follows from the unique index alone.                        *)
THEOREM OneMovementOnePaymentHolds == RailsSpec => []OneMovementOnePayment
<1>1. RailsInv => OneMovementOnePayment
  BY RailsAssumption DEF RailsInv, RailsTypeOK, IntentRows, ClaimsAreUnique, SettledIsClaimed,
     OneMovementOnePayment
<1> QED
  BY <1>1, RailsInvariant, PTL

(* The journal has an entry for exactly the token payments confirmed.      *)
THEOREM PostedIsConfirmedHolds == RailsSpec => []PostedIsConfirmed
<1>1. RailsInv => PostedIsConfirmed
  BY DEF RailsInv
<1> QED
  BY <1>1, RailsInvariant, PTL

(* Setting the state of one row, when it was not final or stays as it is.  *)
LEMMA OneRowKept ==
  ASSUME RailsTypeOK, NEW i \in Intents, NEW s,
         intent' = [intent EXCEPT ![i].state = s],
         intent[i].state \in {"FAILED", "EXPIRED", "REVERSED"} => s = intent[i].state,
         intent[i].state = "CONFIRMED" => s \in Settled
  PROVE  \A j \in Intents : OutcomeKept(j)
<1> SUFFICES ASSUME NEW j \in Intents PROVE OutcomeKept(j)
  OBVIOUS
<1>1. CASE j = i
  <2>1. intent[i] \in [state : IntentStates, ref : Refs \cup {NoRef}]
    BY DEF RailsTypeOK, IntentRows
  <2>2. intent'[i] = [intent[i] EXCEPT !.state = s]
    BY DEF RailsTypeOK
  <2>3. s = intent[i].state => intent'[i] = intent[i]
    BY <2>1, <2>2
  <2>4. intent'[i].state = s /\ intent'[i].ref = intent[i].ref
    BY <2>1, <2>2
  <2> QED
    BY <1>1, <2>3, <2>4 DEF OutcomeKept
<1>2. CASE j # i
  <2>1. intent'[j] = intent[j]
    BY <1>2 DEF RailsTypeOK
  <2> QED
    BY <2>1 DEF OutcomeKept, Settled
<1> QED
  BY <1>1, <1>2

(* What was decided of a payment stays decided.                            *)
THEOREM OutcomeIsFinalHolds == RailsSpec => OutcomeIsFinal
<1>1. ASSUME RailsInv, RailsNext PROVE \A i \in Intents : OutcomeKept(i)
  <2> USE <1>1 DEF RailsInv, RailsTypeOK, OutcomeKept
  <2>1. ASSUME NEW i \in Intents, OpenIntent(i) \/ IssueInstruction(i)
        PROVE  \A j \in Intents : OutcomeKept(j)
    <3>1. CASE OpenIntent(i)
      BY <3>1, OneRowKept DEF OpenIntent
    <3>2. CASE IssueInstruction(i)
      BY <3>2, OneRowKept DEF IssueInstruction
    <3> QED
      BY <2>1, <3>1, <3>2
  <2>2. ASSUME NEW S \in SUBSET Intents, ExpirePaymentIntents(S)
        PROVE  \A j \in Intents : OutcomeKept(j)
    <3>1. ASSUME NEW j \in Intents PROVE j \in S \/ intent'[j] = intent[j]
      BY <2>2 DEF ExpirePaymentIntents
    <3>2. ASSUME NEW j \in S PROVE intent[j].state \in LiveStates
      BY <2>2 DEF ExpirePaymentIntents, Live
    <3> QED
      BY <3>1, <3>2 DEF LiveStates, Settled
  <2>3. ASSUME NEW i \in Intents, IngestNext(i) PROVE \A j \in Intents : OutcomeKept(j)
    <3>0. ingest[i] # NoEvent => ingest[i].state = intent[i].state
      BY DEF IngestFresh
    <3>1. CASE ApplyFailed(i)
      <4> DEFINE s == IF Live(i) THEN "FAILED" ELSE intent[i].state
      <4>1. intent' = [intent EXCEPT ![i].state = s] /\ intent[i].state # "CONFIRMED"
        BY <3>0, <3>1 DEF ApplyFailed, Reported, Settled
      <4>2. intent[i].state \in {"FAILED", "EXPIRED", "REVERSED"} => s = intent[i].state
        BY DEF Live, LiveStates
      <4> HIDE DEF s
      <4> QED
        BY <4>1, <4>2, OneRowKept
    <3>2. CASE ApplyPending(i)
      <4> DEFINE s == IF intent[i].state = "INSTRUCTED" THEN "OBSERVED" ELSE intent[i].state
      <4>1. /\ intent' = [intent EXCEPT ![i].state = s]
            /\ intent[i].state \in {"INSTRUCTED", "OBSERVED"}
        BY <3>0, <3>2 DEF ApplyPending, Reported
      <4> HIDE DEF s
      <4> QED
        BY <4>1, OneRowKept
    <3>3. CASE ConfirmPayment(i)
      <4>1. /\ intent[i].state \in {"INSTRUCTED", "OBSERVED"}
            /\ \A j \in Intents \ {i} : intent'[j] = intent[j]
        BY <3>0, <3>3 DEF ConfirmPayment, Reported
      <4> QED
        BY <4>1 DEF Settled
    <3>4. CASE ApplyReorg(i)
      <4>1. /\ intent' = [intent EXCEPT ![i].state = "REVERSED"]
            /\ intent[i].state = "CONFIRMED"
        BY <3>0, <3>4 DEF ApplyReorg, Reorganised, Reported
      <4> QED
        BY <4>1, OneRowKept DEF Settled
    <3>5. CASE UNCHANGED intent
      BY <3>5 DEF Settled
    <3> QED
      BY <2>3, <3>1, <3>2, <3>3, <3>4, <3>5 DEF IngestNext, MatchEvent, RaiseIncident, DismissEvent
  <2>4. CASE UNCHANGED intent
    BY <2>4 DEF Settled
  <2> QED
    BY <2>1, <2>2, <2>3, <2>4 DEF RailsNext, CloseDeal, LedgerMoves, railVars
<1>2. RailsInv /\ [RailsNext]_railsVars => [\A i \in Intents : OutcomeKept(i)]_railsVars
  BY <1>1
<1> QED
  BY <1>2, RailsInvariant, PTL DEF RailsSpec, OutcomeIsFinal

-----------------------------------------------------------------------------
(* Whatever the rails do to value is a step of the ledger.                 *)
LEMMA RailsStepIsLedgerStep == [RailsNext]_railsVars => [LedgerNext]_ledgerVars
<1> SUFFICES ASSUME [RailsNext]_railsVars PROVE LedgerNext \/ UNCHANGED ledgerVars
  OBVIOUS
<1>1. ASSUME NEW i \in Intents PROVE DealOf(i) \in Deals /\ Terms[i].amount \in Amounts
  BY RailsAssumption DEF DealOf
<1>2. ASSUME NEW i \in Intents, OpenIntent(i) \/ IssueInstruction(i) \/ IngestNext(i)
      PROVE  LedgerNext \/ UNCHANGED ledgerVars
  <2>1. CASE ConfirmPayment(i)
    BY <1>1, <2>1 DEF ConfirmPayment, PostOnce, LedgerNext, ValueNext
  <2>2. CASE ApplyReorg(i)
    BY <1>1, <2>2 DEF ApplyReorg, LedgerNext, ValueNext
  <2>3. CASE UNCHANGED ledgerVars
    BY <2>3
  <2> QED
    BY <1>2, <2>1, <2>2, <2>3 DEF OpenIntent, IssueInstruction, IngestNext, MatchEvent,
       ApplyFailed, ApplyPending, RaiseIncident, DismissEvent
<1>3. CASE LedgerMoves
  BY <1>3 DEF LedgerMoves, LedgerNext, ValueNext
<1>4. CASE UNCHANGED railsVars
  BY <1>4 DEF railsVars
<1> QED
  BY <1>2, <1>3, <1>4 DEF RailsNext, ExpirePaymentIntents, CloseDeal

(* The rails implement the ledger: no report of a provider moves value in  *)
(* a way the ledger alone does not allow.                                  *)
THEOREM RailsImplementLedger == RailsSpec => RailsKeepLedger
<1>1. RailsInit => LedgerInit
  BY DEF RailsInit
<1> QED
  BY <1>1, RailsStepIsLedgerStep, PTL DEF RailsSpec, RailsKeepLedger, LedgerSpec

(* So every escrow account still holds exactly its live lock and its       *)
(* deposits, whatever arrives from outside and in whatever order.          *)
THEOREM RailsKeepEscrow == RailsSpec => []EscrowBacksLock
  BY RailsImplementLedger, LedgerSafety, PTL DEF RailsKeepLedger

(* Conservation and the rails: nothing from outside makes or loses value. *)
THEOREM RailsConserve == RailsSpec => []Conservation
  BY RailsImplementLedger, ConservationHolds, PTL DEF RailsKeepLedger

(* And the rails keep the promise about escrow.                            *)
THEOREM RailsKeepPromise == RailsSpec => PromiseKept
  BY RailsImplementLedger, LedgerKeepsPromise, PTL DEF RailsKeepLedger

-----------------------------------------------------------------------------
(* The deposits of a deal, entry by entry.                                 *)
LEMMA DemandsAreWhole ==
  ASSUME NEW i \in Intents
  PROVE  DealOf(i) \in Deals /\ Terms[i].amount \in Int
<1>1. Terms[i].deal \in Deals /\ Terms[i].amount \in Amounts
  BY RailsAssumption
<1>2. Amounts \subseteq Int
  BY LedgerAssumption
<1> QED
  BY <1>1, <1>2 DEF DealOf

LEMMA AmountsAdd ==
  ASSUME NEW S \in SUBSET Intents
  PROVE  /\ IsFiniteSet(S)
         /\ \A i \in Intents : DemandAmount[i] = Terms[i].amount /\ DemandAmount[i] \in Int
         /\ SumFunctionOnSet(DemandAmount, S) \in Int
<1>1. \A i \in Intents : DemandAmount[i] = Terms[i].amount /\ DemandAmount[i] \in Int
  BY DemandsAreWhole DEF DemandAmount
<1>2. IsFiniteSet(S)
  BY IntentsAreFinite, FS_Subset
<1> QED
  BY <1>1, <1>2, SumType

(* No payment enters or leaves CONFIRMED and no deposit is posted.         *)
LEMMA DepositsIdle ==
  ASSUME DepositsAreConfirmed, UNCHANGED deposit,
         \A i \in Intents : Terms[i].rail = "USDT" =>
            (intent'[i].state = "CONFIRMED" <=> intent[i].state = "CONFIRMED")
  PROVE  DepositsAreConfirmed'
<1>1. ASSUME NEW d \in Deals PROVE Credited(d)' = Credited(d)
  BY DEF Credited
<1> QED
  BY <1>1 DEF DepositsAreConfirmed

LEMMA ConfirmKeepsDeposits ==
  ASSUME RailsInv, LedgerTypeOK, DepositsAreConfirmed, NEW i \in Intents, ConfirmPayment(i)
  PROVE  DepositsAreConfirmed'
<1>1. /\ intent[i].state \in {"INSTRUCTED", "OBSERVED"}
      /\ i \notin journal
  BY DEF ConfirmPayment, RailsInv, IngestFresh, PostedIsConfirmed, Settled, Reported
<1>2. /\ intent'[i].state = "CONFIRMED"
      /\ \A j \in Intents \ {i} : intent'[j] = intent[j]
  BY <1>1 DEF ConfirmPayment, RailsInv, RailsTypeOK
<1>3. CASE Terms[i].rail # "USDT"
  BY <1>2, <1>3, DepositsIdle DEF ConfirmPayment, PostOnce, ledgerVars
<1>4. CASE Terms[i].rail = "USDT"
  <2> DEFINE e == DealOf(i)
  <2>1. e \in Deals /\ Terms[i].amount \in Int
    BY DemandsAreWhole
  <2>2. PostConfirmedValue(e, Terms[i].amount)
    BY <1>1, <1>4 DEF ConfirmPayment, PostOnce
  <2>3. deposit'[e] = deposit[e] + Terms[i].amount /\ \A d \in Deals \ {e} : deposit'[d] = deposit[d]
    BY <2>1, <2>2 DEF PostConfirmedValue, LedgerTypeOK
  <2>4. Credited(e)' = Credited(e) \cup {i} /\ i \notin Credited(e)
    BY <1>1, <1>2, <1>4 DEF Credited
  <2>5. ASSUME NEW d \in Deals \ {e} PROVE Credited(d)' = Credited(d)
    BY <1>2 DEF Credited
  <2>6. Credited(e) \in SUBSET Intents
    BY DEF Credited
  <2>7. SumFunctionOnSet(DemandAmount, Credited(e) \cup {i})
        = Terms[i].amount + SumFunctionOnSet(DemandAmount, Credited(e))
    BY <2>4, <2>6, AmountsAdd, SumAdd
  <2>8. SumFunctionOnSet(DemandAmount, Credited(e)) \in Int
    BY <2>6, AmountsAdd
  <2>9. deposit[e] = SumFunctionOnSet(DemandAmount, Credited(e))
    BY <2>1 DEF DepositsAreConfirmed
  <2>10. deposit'[e] = SumFunctionOnSet(DemandAmount, Credited(e)')
    BY <2>1, <2>3, <2>4, <2>7, <2>8, <2>9
  <2> QED
    BY <2>3, <2>5, <2>10 DEF DepositsAreConfirmed
<1> QED
  BY <1>3, <1>4

LEMMA ReorgKeepsDeposits ==
  ASSUME RailsInv, LedgerTypeOK, DepositsAreConfirmed, NEW i \in Intents, ApplyReorg(i)
  PROVE  DepositsAreConfirmed'
<1>1. intent[i].state = "CONFIRMED"
  BY DEF ApplyReorg, Reorganised, Reported, RailsInv, IngestFresh
<1>2. /\ intent'[i].state = "REVERSED"
      /\ \A j \in Intents \ {i} : intent'[j] = intent[j]
  BY DEF ApplyReorg, RailsInv, RailsTypeOK, IntentRows
<1>3. i \in journal <=> Terms[i].rail = "USDT"
  BY <1>1 DEF RailsInv, PostedIsConfirmed, Settled
<1>4. CASE Terms[i].rail # "USDT"
  BY <1>2, <1>3, <1>4, DepositsIdle DEF ApplyReorg, ledgerVars
<1>5. CASE Terms[i].rail = "USDT"
  <2> DEFINE e == DealOf(i)
  <2>1. e \in Deals /\ Terms[i].amount \in Int
    BY DemandsAreWhole
  <2>2. ReverseDeposit(e, Terms[i].amount)
    BY <1>3, <1>5 DEF ApplyReorg
  <2>3. /\ deposit'[e] = deposit[e] - Terms[i].amount
        /\ \A d \in Deals \ {e} : deposit'[d] = deposit[d]
    BY <2>1, <2>2 DEF ReverseDeposit, LedgerTypeOK
  <2>4. Credited(e)' = Credited(e) \ {i} /\ i \in Credited(e)
    BY <1>1, <1>2, <1>5 DEF Credited
  <2>5. ASSUME NEW d \in Deals \ {e} PROVE Credited(d)' = Credited(d)
    BY <1>2 DEF Credited
  <2>6. Credited(e) \in SUBSET Intents /\ Credited(e) \ {i} \in SUBSET Intents
    BY DEF Credited
  <2>7. SumFunctionOnSet(DemandAmount, Credited(e))
        = Terms[i].amount + SumFunctionOnSet(DemandAmount, Credited(e) \ {i})
    BY <2>4, <2>6, AmountsAdd, SumRemove
  <2>8. SumFunctionOnSet(DemandAmount, Credited(e) \ {i}) \in Int
    BY <2>6, AmountsAdd
  <2>9. deposit[e] = SumFunctionOnSet(DemandAmount, Credited(e))
    BY <2>1 DEF DepositsAreConfirmed
  <2>10. deposit'[e] = SumFunctionOnSet(DemandAmount, Credited(e)')
    BY <2>1, <2>3, <2>4, <2>7, <2>8, <2>9
  <2> QED
    BY <2>3, <2>5, <2>10 DEF DepositsAreConfirmed
<1> QED
  BY <1>4, <1>5

LEMMA StepKeepsDeposits ==
  ASSUME RailsInv, RailsInv', LedgerTypeOK, DepositsAreConfirmed, [RailsNext]_railsVars
  PROVE  DepositsAreConfirmed'
<1> USE DEF RailsInv, RailsTypeOK
<1>1. ASSUME NEW i \in Intents, OpenIntent(i) PROVE DepositsAreConfirmed'
  <2>1. \A j \in Intents : intent'[j].state = "CONFIRMED" <=> intent[j].state = "CONFIRMED"
    BY <1>1 DEF OpenIntent, IntentRows
  <2> QED
    BY <1>1, <2>1, DepositsIdle DEF OpenIntent, ledgerVars
<1>2. ASSUME NEW i \in Intents, IssueInstruction(i) PROVE DepositsAreConfirmed'
  <2>1. \A j \in Intents : intent'[j].state = "CONFIRMED" <=> intent[j].state = "CONFIRMED"
    BY <1>2 DEF IssueInstruction, IntentRows
  <2> QED
    BY <1>2, <2>1, DepositsIdle DEF IssueInstruction, ledgerVars
<1>3. ASSUME NEW S \in SUBSET Intents, ExpirePaymentIntents(S) PROVE DepositsAreConfirmed'
  <2>1. \A j \in Intents : intent'[j].state = "CONFIRMED" <=> intent[j].state = "CONFIRMED"
    BY <1>3 DEF ExpirePaymentIntents, IntentRows, Live, LiveStates
  <2> QED
    BY <1>3, <2>1, DepositsIdle DEF ExpirePaymentIntents, ledgerVars
<1>4. ASSUME NEW i \in Intents, ApplyFailed(i) PROVE DepositsAreConfirmed'
  <2>1. \A j \in Intents : intent'[j].state = "CONFIRMED" <=> intent[j].state = "CONFIRMED"
    BY <1>4 DEF ApplyFailed, IntentRows, Live, LiveStates
  <2> QED
    BY <1>4, <2>1, DepositsIdle DEF ApplyFailed, ledgerVars
<1>5. ASSUME NEW i \in Intents, ApplyPending(i) PROVE DepositsAreConfirmed'
  <2>1. \A j \in Intents : intent'[j].state = "CONFIRMED" <=> intent[j].state = "CONFIRMED"
    BY <1>5 DEF ApplyPending, IntentRows
  <2> QED
    BY <1>5, <2>1, DepositsIdle DEF ApplyPending, ledgerVars
<1>6. ASSUME NEW i \in Intents,
             \/ \E report \in Reports, r \in Refs : MatchEvent(i, report, r)
             \/ RaiseIncident(i)
             \/ DismissEvent(i)
      PROVE  DepositsAreConfirmed'
  BY <1>6, DepositsIdle DEF MatchEvent, RaiseIncident, DismissEvent, ledgerVars
<1>7. ASSUME NEW i \in Intents, IngestNext(i) PROVE DepositsAreConfirmed'
  BY <1>4, <1>5, <1>6, <1>7, ConfirmKeepsDeposits, ReorgKeepsDeposits DEF IngestNext
<1>8. ASSUME NEW d \in Deals, CloseDeal(d) PROVE DepositsAreConfirmed'
  BY <1>8, DepositsIdle DEF CloseDeal, ledgerVars
<1>9. CASE LedgerMoves
  <2>1. UNCHANGED <<deposit, intent>>
    BY <1>9 DEF LedgerMoves, railVars, ControlNext, Pause, Resume, PlaceHold, ReleaseHold,
       accountVars, FundSandboxBalance, LockDealValue, ReleaseDealValue, RefundDealValue,
       SettleLock, ReverseLock
  <2> QED
    BY <2>1, DepositsIdle
<1>10. CASE UNCHANGED railsVars
  BY <1>10, DepositsIdle DEF railsVars, railVars, ledgerVars
<1> QED
  BY <1>1, <1>2, <1>3, <1>7, <1>8, <1>9, <1>10 DEF RailsNext

LEMMA NothingDepositedAtFirst == RailsInit => DepositsAreConfirmed
<1> SUFFICES ASSUME RailsInit, NEW d \in Deals
             PROVE  deposit[d] = SumFunctionOnSet(DemandAmount, Credited(d))
  BY DEF DepositsAreConfirmed
<1>1. Credited(d) = {}
  BY DEF RailsInit, Credited
<1> QED
  BY <1>1, SumEmpty DEF RailsInit, LedgerInit

(* The deposits the ledger holds for a deal are, to the unit, its token    *)
(* payments that stand confirmed: the ledger's figure and the rails' rows  *)
(* are written by different statements, and no overlap of ingestions,      *)
(* expiries and reorganisations parts them.                                *)
THEOREM DepositsAreConfirmedHolds == RailsSpec => []DepositsAreConfirmed
<1>1. LedgerTypeOK /\ RailsInv /\ RailsInv' /\ DepositsAreConfirmed /\ [RailsNext]_railsVars
      => DepositsAreConfirmed'
  BY StepKeepsDeposits
<1>2. RailsSpec => []LedgerTypeOK
  BY RailsImplementLedger, LedgerSafety, PTL DEF RailsKeepLedger
<1> QED
  BY <1>1, <1>2, NothingDepositedAtFirst, RailsInvariant, PTL DEF RailsSpec

-----------------------------------------------------------------------------
(* What the queue of provider calls keeps: its types, and that a row says  *)
(* what happened.                                                          *)
RailQueueInv == RailQueueTypeOK /\ RailOutcomeIsTrue

RailStates == {"absent", "PENDING", "SUCCEEDED", "FAILED"}
RailRow == [state : RailStates, attempts : 0..MaxAttempts, due : BOOLEAN]

(* What a write of one field makes of a row.                                *)
LEMMA RowWritten ==
  ASSUME NEW row \in RailRow, NEW s, NEW b
  PROVE  /\ [row EXCEPT !.state = s]
            = [state |-> s, attempts |-> row.attempts, due |-> row.due]
         /\ [row EXCEPT !.due = b]
            = [state |-> row.state, attempts |-> row.attempts, due |-> b]
<1>1. [row EXCEPT !.state = s] = [state |-> s, attempts |-> row.attempts, due |-> row.due]
  BY DEF RailRow
<1>2. [row EXCEPT !.due = b] = [state |-> row.state, attempts |-> row.attempts, due |-> b]
  BY DEF RailRow
<1> QED
  BY <1>1, <1>2

LEMMA RailRows == RailQueueTypeOK <=> /\ rail \in [Requests -> RailRow]
                                      /\ leased \in [RailWorkers -> SUBSET Requests]
                                      /\ performed \subseteq Requests
  BY DEF RailQueueTypeOK, RailRow, RailStates

LEMMA RailQueueInitInv == RailQueueInit => RailQueueInv
  BY RailRequestAssumption DEF RailQueueInit, RailQueueInv, RailQueueTypeOK, RailOutcomeIsTrue

(* A new row and the passing of time decide nothing.                       *)
LEMMA QueueGrowsInv ==
  ASSUME NEW r \in Requests, RailQueueInv, EnqueueRailRequest(r) \/ BecomeDue(r)
  PROVE  RailQueueInv'
<1> DEFINE fresh == [state |-> "PENDING", attempts |-> 0, due |-> TRUE]
           ready == [rail[r] EXCEPT !.due = TRUE]
<1>1. rail \in [Requests -> RailRow]
  BY RailRows DEF RailQueueInv
<1>2. fresh \in RailRow
  BY RailRequestAssumption DEF RailRow, RailStates
<1>3. /\ rail[r] \in RailRow
      /\ ready = [state |-> rail[r].state, attempts |-> rail[r].attempts, due |-> TRUE]
  BY <1>1, RowWritten
<1>4. ready \in RailRow
  BY <1>3 DEF RailRow
<1>5. ready.state = rail[r].state /\ ready.attempts = rail[r].attempts
  BY <1>3
<1>6. \/ rail' = [rail EXCEPT ![r] = fresh]
      \/ rail' = [rail EXCEPT ![r] = ready]
  BY DEF EnqueueRailRequest, BecomeDue
<1>7. UNCHANGED <<leased, performed>>
  BY DEF EnqueueRailRequest, BecomeDue
<1> HIDE DEF ready
<1>8. RailQueueTypeOK'
  <2>1. rail \in [Requests -> RailRow]
    BY <1>1
  <2>2. rail' \in [Requests -> RailRow]
    BY <1>2, <1>4, <1>6, <2>1
  <2>3. leased' \in [RailWorkers -> SUBSET Requests] /\ performed' \subseteq Requests
    BY <1>7 DEF RailQueueInv, RailQueueTypeOK
  <2> QED
    BY <2>2, <2>3 DEF RailQueueTypeOK, RailRow, RailStates
<1>9. RailOutcomeIsTrue'
  BY <1>1, <1>5, <1>6, <1>7 DEF RailQueueInv, RailOutcomeIsTrue
<1> QED
  BY <1>8, <1>9 DEF RailQueueInv

(* A lease counts an attempt only on rows that are not decided and, thanks *)
(* to the check on the row, never more than are allowed.                   *)
LEMMA LeaseInv ==
  ASSUME NEW w \in RailWorkers, NEW B \in Batches, RailQueueInv, Lease(w, B)
  PROVE  RailQueueInv'
<1>1. B \subseteq Requests /\ \A r \in B : Pending(r)
  BY DEF Batches, DueRequests
<1>2. rail \in [Requests -> RailRow] /\ Countable(B)
  BY RailRows DEF RailQueueInv, Lease
<1> DEFINE counted(r) ==
             [state |-> "PENDING", attempts |-> rail[r].attempts + 1, due |-> FALSE]
<1>3. rail' = [r \in Requests |-> IF r \in B THEN counted(r) ELSE rail[r]]
  BY DEF Lease
<1>4. ASSUME NEW r \in B
      PROVE  rail[r].attempts + 1 \in 0..MaxAttempts
  <2>1. rail[r] \in RailRow
    BY <1>1, <1>2
  <2>2. rail[r].attempts < MaxAttempts
    BY <1>2 DEF Countable
  <2> QED
    BY <2>1, <2>2, RailRequestAssumption DEF RailRow
<1>5. \A r \in B : counted(r) \in RailRow
  BY <1>4 DEF RailRow, RailStates
<1>6. \A r \in B : counted(r).state = "PENDING"
  OBVIOUS
<1> HIDE DEF counted
<1>7. rail' \in [Requests -> RailRow]
  BY <1>2, <1>3, <1>5
<1>8. RailQueueTypeOK'
  BY <1>1, <1>7 DEF Lease, RailQueueInv, RailQueueTypeOK, RailRow, RailStates
<1>9. RailOutcomeIsTrue'
  BY <1>3, <1>6 DEF Lease, RailQueueInv, RailOutcomeIsTrue
<1> QED
  BY <1>8, <1>9 DEF RailQueueInv

(* Whoever ends an attempt, and however late, only decides a row that is   *)
(* still open, and gives it up only when its attempts are spent.           *)
LEMMA AttemptEndsInv ==
  ASSUME NEW w \in RailWorkers, NEW r \in leased[w], NEW acted \in BOOLEAN, RailQueueInv,
         Succeed(w, r) \/ Fail(w, r, acted)
  PROVE  RailQueueInv'
<1>1. r \in Requests /\ rail \in [Requests -> RailRow] /\ rail[r] \in RailRow
  BY RailRows DEF RailQueueInv, RailQueueTypeOK
<1> DEFINE made   == [rail[r] EXCEPT !.state = "SUCCEEDED"]
           verdict == IF GivenUp(r) THEN "FAILED" ELSE "PENDING"
           missed == [state |-> verdict, attempts |-> rail[r].attempts, due |-> FALSE]
<1>2. made \in RailRow /\ made.state = "SUCCEEDED"
  <2>1. made = [state |-> "SUCCEEDED", attempts |-> rail[r].attempts, due |-> rail[r].due]
    BY <1>1, RowWritten
  <2> QED
    BY <1>1, <2>1 DEF RailRow, RailStates
<1>3. verdict \in {"FAILED", "PENDING"}
  OBVIOUS
<1>4. missed \in RailRow /\ missed.state # "SUCCEEDED"
  BY <1>1, <1>3 DEF RailRow, RailStates
<1>5. missed.state = "FAILED" => missed.attempts = MaxAttempts
  <2>1. rail[r].attempts \in 0..MaxAttempts
    BY <1>1 DEF RailRow
  <2> QED
    BY <1>3, <2>1, RailRequestAssumption DEF GivenUp
<1>6. leased' \in [RailWorkers -> SUBSET Requests]
      /\ performed \subseteq performed' /\ performed' \subseteq Requests
  BY <1>1 DEF Succeed, Fail, RailQueueInv, RailQueueTypeOK
<1>7. \/ rail' = rail
      \/ rail' = [rail EXCEPT ![r] = made] /\ r \in performed'
      \/ rail' = [rail EXCEPT ![r] = missed]
  BY <1>1 DEF Succeed, Fail
<1> HIDE DEF made, missed
<1>8. RailQueueTypeOK'
  BY <1>1, <1>2, <1>4, <1>6, <1>7 DEF RailQueueTypeOK, RailRow, RailStates
<1>9. RailOutcomeIsTrue'
  BY <1>1, <1>2, <1>4, <1>5, <1>6, <1>7 DEF RailQueueInv, RailOutcomeIsTrue
<1> QED
  BY <1>8, <1>9 DEF RailQueueInv

LEMMA WorkerDiesInv ==
  ASSUME NEW w \in RailWorkers, NEW acted \in {{}} \cup {{r} : r \in leased[w]},
         RailQueueInv, RailWorkerDies(w, acted)
  PROVE  RailQueueInv'
<1>1. acted \subseteq Requests
  BY DEF RailQueueInv, RailQueueTypeOK
<1>2. RailQueueTypeOK'
  BY <1>1 DEF RailWorkerDies, RailQueueInv, RailQueueTypeOK
<1>3. RailOutcomeIsTrue'
  BY DEF RailWorkerDies, RailQueueInv, RailQueueTypeOK, RailOutcomeIsTrue
<1> QED
  BY <1>2, <1>3 DEF RailQueueInv

LEMMA RailQueueStepInv == RailQueueInv /\ [RailQueueNext]_railQueueVars => RailQueueInv'
<1> SUFFICES ASSUME RailQueueInv, [RailQueueNext]_railQueueVars
             PROVE  RailQueueInv'
  OBVIOUS
<1>1. CASE UNCHANGED railQueueVars
  BY <1>1 DEF railQueueVars, RailQueueInv, RailQueueTypeOK, RailOutcomeIsTrue
<1>2. CASE RailQueueNext
  BY <1>2, QueueGrowsInv, LeaseInv, AttemptEndsInv, WorkerDiesInv DEF RailQueueNext
<1> QED
  BY <1>1, <1>2

LEMMA RailQueueInvariant == RailQueueSpec => []RailQueueInv
  BY RailQueueInitInv, RailQueueStepInv, PTL DEF RailQueueSpec

(* The types of the queue of provider calls.                                *)
THEOREM RailQueueTypesHold == RailQueueSpec => []RailQueueTypeOK
<1>1. RailQueueInv => RailQueueTypeOK
  BY DEF RailQueueInv
<1> QED
  BY <1>1, RailQueueInvariant, PTL

(* RailOutcomeIsTrue holds in every reachable state: what rail_request     *)
(* says of a provider call is what happened (runRailRequests).             *)
THEOREM RailOutcomeIsTrueHolds == RailQueueSpec => []RailOutcomeIsTrue
<1>1. RailQueueInv => RailOutcomeIsTrue
  BY DEF RailQueueInv
<1> QED
  BY <1>1, RailQueueInvariant, PTL

-----------------------------------------------------------------------------
(* What becomes of a call whose last attempt was counted and then lost.    *)

(* Its row has no attempt left and no worker is going to report one.       *)
AttemptsSpent(r) ==
    /\ Pending(r)
    /\ rail[r].attempts = MaxAttempts
    /\ \A w \in RailWorkers : r \notin leased[w]

Undecided == {r \in Requests : rail[r].state \notin {"SUCCEEDED", "FAILED"}}

(* It is due, and every batch is large enough to include it.               *)
QueueStuckOn(r) ==
    /\ AttemptsSpent(r)
    /\ rail[r].due
    /\ Cardinality(Undecided) <= BatchLimit

NoAttemptCounted == \A r \in Requests : rail'[r].attempts <= rail[r].attempts

(* No batch that is leased contains it, so no worker comes to hold it.     *)
LEMMA SpentStays ==
  ASSUME RailQueueInv, RailQueueNext, NEW r \in Requests, AttemptsSpent(r)
  PROVE  AttemptsSpent(r)' /\ (rail[r].due => rail'[r].due)
<1>1. /\ rail \in [Requests -> RailRow] /\ leased \in [RailWorkers -> SUBSET Requests]
      /\ Pending(r) /\ rail[r].attempts = MaxAttempts
      /\ \A w \in RailWorkers : r \notin leased[w]
  BY RailRows DEF RailQueueInv, AttemptsSpent
<1> DEFINE Stays == /\ rail'[r].state = "PENDING" /\ rail'[r].attempts = MaxAttempts
                    /\ rail[r].due => rail'[r].due
                    /\ \A w \in RailWorkers : r \notin leased'[w]
<1>2. ASSUME NEW q \in Requests, EnqueueRailRequest(q)
      PROVE  Stays
  BY <1>1, <1>2 DEF EnqueueRailRequest, Pending
<1>3. ASSUME NEW q \in Requests, BecomeDue(q)
      PROVE  Stays
  <2>1. rail' = [rail EXCEPT ![q] = [state    |-> rail[q].state,
                                     attempts |-> rail[q].attempts,
                                     due      |-> TRUE]]
    BY <1>1, <1>3, RowWritten DEF BecomeDue
  <2>2. UNCHANGED leased
    BY <1>3 DEF BecomeDue
  <2>3. CASE q = r
    BY <1>1, <2>1, <2>2, <2>3 DEF Pending
  <2>4. CASE q # r
    BY <1>1, <2>1, <2>2, <2>4 DEF Pending
  <2> QED
    BY <2>3, <2>4
<1>4. ASSUME NEW w \in RailWorkers, NEW B \in Batches, Lease(w, B)
      PROVE  Stays
  <2>1. r \notin B
    BY <1>1, <1>4, RailRequestAssumption DEF Lease, Countable
  <2> QED
    BY <1>1, <1>4, <2>1 DEF Lease, Pending
<1>5. ASSUME NEW w \in RailWorkers, NEW q \in leased[w],
             Succeed(w, q) \/ \E acted \in BOOLEAN : Fail(w, q, acted)
      PROVE  Stays
  <2>1. q \in Requests /\ q # r
    BY <1>1
  <2>2. UNCHANGED rail \/ \E row : rail' = [rail EXCEPT ![q] = row]
    BY <1>5 DEF Succeed, Fail
  <2>3. leased' = [leased EXCEPT ![w] = leased[w] \ {q}]
    BY <1>5 DEF Succeed, Fail
  <2> QED
    BY <1>1, <2>1, <2>2, <2>3 DEF Pending
<1>6. ASSUME NEW w \in RailWorkers, NEW acted, RailWorkerDies(w, acted)
      PROVE  Stays
  BY <1>1, <1>6 DEF RailWorkerDies, Pending
<1>7. Stays
  BY <1>2, <1>3, <1>4, <1>5, <1>6 DEF RailQueueNext
<1> QED
  BY <1>7 DEF AttemptsSpent, Pending

(* SUCCEEDED and FAILED are final: no step adds to the undecided requests. *)
LEMMA UndecidedShrinks ==
  ASSUME RailQueueInv, RailQueueNext
  PROVE  /\ Undecided' \subseteq Undecided
         /\ IsFiniteSet(Undecided) /\ IsFiniteSet(DueRequests)
         /\ Cardinality(Undecided') <= Cardinality(Undecided)
<1>1. rail \in [Requests -> RailRow]
  BY RailRows DEF RailQueueInv
<1>2. ASSUME NEW q \in Requests, q \notin Undecided
      PROVE  rail'[q].state = rail[q].state
  <2>1. ~Pending(q) /\ rail[q].state # "absent"
    BY <1>2 DEF Undecided, Pending
  <2>2. ASSUME NEW p \in Requests, EnqueueRailRequest(p) \/ BecomeDue(p)
        PROVE  rail'[q].state = rail[q].state
    <3>1. p # q /\ \E row : rail' = [rail EXCEPT ![p] = row]
      BY <2>1, <2>2 DEF EnqueueRailRequest, BecomeDue
    <3> QED
      BY <1>1, <3>1
  <2>3. ASSUME NEW w \in RailWorkers, NEW B \in Batches, Lease(w, B)
        PROVE  rail'[q].state = rail[q].state
    <3>1. q \notin B
      BY <2>1 DEF Batches, DueRequests
    <3> QED
      BY <2>3, <3>1 DEF Lease
  <2>4. ASSUME NEW w \in RailWorkers, NEW p \in leased[w],
               Succeed(w, p) \/ \E acted \in BOOLEAN : Fail(w, p, acted)
        PROVE  rail'[q].state = rail[q].state
    <3>1. UNCHANGED rail \/ (Pending(p) /\ \E row : rail' = [rail EXCEPT ![p] = row])
      BY <2>4 DEF Succeed, Fail
    <3> QED
      BY <1>1, <2>1, <3>1
  <2>5. ASSUME NEW w \in RailWorkers, NEW acted, RailWorkerDies(w, acted)
        PROVE  rail'[q].state = rail[q].state
    BY <2>5 DEF RailWorkerDies
  <2> QED
    BY <2>2, <2>3, <2>4, <2>5 DEF RailQueueNext
<1>3. Undecided' \subseteq Undecided
  BY <1>2 DEF Undecided
<1>4. IsFiniteSet(Undecided) /\ IsFiniteSet(DueRequests)
  BY RailRequestAssumption, FS_Subset DEF Undecided, DueRequests
<1> QED
  BY <1>3, <1>4, FS_Subset

(* Few enough to fit in one batch, the due requests are leased together,   *)
(* and with them the one whose count refuses the statement.                *)
LEMMA StuckLeasesNothing ==
  ASSUME RailQueueInv, NEW r \in Requests, QueueStuckOn(r),
         NEW w \in RailWorkers, NEW B \in Batches
  PROVE  ~Lease(w, B)
<1>1. DueRequests \subseteq Undecided /\ r \in DueRequests
  BY DEF DueRequests, Undecided, Pending, QueueStuckOn, AttemptsSpent
<1>2. IsFiniteSet(Undecided) /\ IsFiniteSet(DueRequests)
  BY RailRequestAssumption, FS_Subset DEF Undecided, DueRequests
<1>3. /\ Cardinality(DueRequests) <= Cardinality(Undecided)
      /\ Cardinality(DueRequests) \in Nat /\ Cardinality(Undecided) \in Nat
  BY <1>1, <1>2, FS_Subset, FS_CardinalityType
<1>4. B \subseteq DueRequests /\ Cardinality(B) = Cardinality(DueRequests)
  BY <1>3, RailRequestAssumption DEF Batches, QueueStuckOn
<1>5. B = DueRequests
  BY <1>2, <1>4, FS_Subset
<1> QED
  BY <1>1, <1>5, RailRequestAssumption DEF Lease, Countable, QueueStuckOn, AttemptsSpent

LEMMA StuckStays ==
  ASSUME RailQueueInv, RailQueueNext, NEW r \in Requests, QueueStuckOn(r)
  PROVE  QueueStuckOn(r)' /\ NoAttemptCounted
<1>1. AttemptsSpent(r)' /\ rail'[r].due
  BY SpentStays DEF QueueStuckOn
<1>2. Cardinality(Undecided') <= BatchLimit
  <2>1. IsFiniteSet(Undecided')
    BY UndecidedShrinks, FS_Subset
  <2>2. Cardinality(Undecided) \in Nat /\ Cardinality(Undecided') \in Nat
    BY <2>1, UndecidedShrinks, FS_CardinalityType
  <2> QED
    BY <2>2, UndecidedShrinks, RailRequestAssumption DEF QueueStuckOn
<1>3. NoAttemptCounted
  <2>1. rail \in [Requests -> RailRow] /\ \A q \in Requests : rail[q].attempts \in Nat
    BY RailRows, RailRequestAssumption DEF RailQueueInv, RailRow
  <2>2. ASSUME NEW q \in Requests, EnqueueRailRequest(q)
        PROVE  NoAttemptCounted
    BY <2>1, <2>2 DEF EnqueueRailRequest, NoAttemptCounted
  <2>3. ASSUME NEW q \in Requests, BecomeDue(q)
        PROVE  NoAttemptCounted
    <3>1. rail' = [rail EXCEPT ![q] = [state    |-> rail[q].state,
                                       attempts |-> rail[q].attempts,
                                       due      |-> TRUE]]
      BY <2>1, <2>3, RowWritten DEF BecomeDue
    <3> QED
      BY <2>1, <3>1 DEF NoAttemptCounted
  <2>4. ASSUME NEW w \in RailWorkers, NEW q \in leased[w],
               Succeed(w, q) \/ \E acted \in BOOLEAN : Fail(w, q, acted)
        PROVE  NoAttemptCounted
    <3>1. q \in Requests
      BY DEF RailQueueInv, RailQueueTypeOK
    <3>2. \/ UNCHANGED rail
          \/ rail' = [rail EXCEPT ![q] = [rail[q] EXCEPT !.state = "SUCCEEDED"]]
          \/ \E s : rail' = [rail EXCEPT ![q] = [state    |-> s,
                                                attempts |-> rail[q].attempts,
                                                due      |-> FALSE]]
      BY <2>1, <2>4, <3>1 DEF Succeed, Fail
    <3>3. rail[q] \in RailRow
      BY <2>1, <3>1
    <3>4. [rail[q] EXCEPT !.state = "SUCCEEDED"].attempts = rail[q].attempts
      BY <3>3, RowWritten
    <3>5. UNCHANGED rail \/ \E row : /\ row.attempts = rail[q].attempts
                                    /\ rail' = [rail EXCEPT ![q] = row]
      BY <3>2, <3>4
    <3> QED
      BY <2>1, <3>1, <3>5 DEF NoAttemptCounted
  <2>5. ASSUME NEW w \in RailWorkers, NEW acted, RailWorkerDies(w, acted)
        PROVE  NoAttemptCounted
    BY <2>1, <2>5 DEF RailWorkerDies, NoAttemptCounted
  <2> QED
    BY <2>2, <2>3, <2>4, <2>5, StuckLeasesNothing DEF RailQueueNext
<1> QED
  BY <1>1, <1>2, <1>3 DEF QueueStuckOn

(* A call whose worker died after the last attempt was counted is stuck in *)
(* PENDING for good: no worker makes it, none records it as FAILED, and so *)
(* no operator is shown it (runRailRequests).                              *)
THEOREM LostCallIsLostForEver ==
  ASSUME NEW r \in Requests
  PROVE  RailQueueSpec => [](AttemptsSpent(r) => [](AttemptsSpent(r)))
<1>1. RailQueueInv /\ AttemptsSpent(r) /\ [RailQueueNext]_railQueueVars => AttemptsSpent(r)'
  <2>1. CASE RailQueueNext
    BY <2>1, SpentStays
  <2>2. CASE UNCHANGED railQueueVars
    BY <2>2 DEF railQueueVars, AttemptsSpent, Pending
  <2> QED
    BY <2>1, <2>2
<1> QED
  BY <1>1, RailQueueInvariant, PTL DEF RailQueueSpec

(* Once such a call is due while one batch holds all that is undecided,    *)
(* what is still to be enqueued included, no provider call is ever         *)
(* attempted again: the lease takes every due row, and                     *)
(* rail_request_attempts refuses the statement that counts them.           *)
THEOREM StuckQueueIsStuckForEver ==
  ASSUME NEW r \in Requests
  PROVE  RailQueueSpec =>
           [](QueueStuckOn(r) => [](QueueStuckOn(r)) /\ [][NoAttemptCounted]_railQueueVars)
<1>1. RailQueueInv /\ QueueStuckOn(r) /\ [RailQueueNext]_railQueueVars
        => QueueStuckOn(r)' /\ [NoAttemptCounted]_railQueueVars
  <2>1. CASE RailQueueNext
    BY <2>1, StuckStays
  <2>2. CASE UNCHANGED railQueueVars
    BY <2>2 DEF railQueueVars, QueueStuckOn, AttemptsSpent, Pending, Undecided
  <2> QED
    BY <2>1, <2>2
<1> QED
  BY <1>1, RailQueueInvariant, PTL DEF RailQueueSpec
=============================================================================
