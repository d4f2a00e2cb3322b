---------------------------- MODULE OutboxWorker ----------------------------
(***************************************************************************)
(* The delivery of domain events (server/ops/outboxWorker.ts): passes that *)
(* a scheduler starts, each claiming a batch of due events under a lease,  *)
(* running their handlers outside any transaction and marking the outcome. *)
(* A pass may die between any two steps; its leases outlive it.            *)
(*                                                                         *)
(* Every statement of the worker is one atomic UPDATE, so SKIP LOCKED has  *)
(* no locked row to skip.  Time is what it does: a lease lapses, a backoff *)
(* passes, a handler runs into its timeout.                                *)
(***************************************************************************)
EXTENDS Integers, FiniteSets

CONSTANTS
    Events,       \* outbox rows, numbered in the order they occurred
    Handled,      \* the events a handler is registered for
    Passes,       \* worker identities; each has one pass at a time
    NoPass,
    NoEvent,
    MaxAttempts,  \* max_attempts, 8 in the schema
    BatchLimit,   \* the limit of claimBatch, 20 in the code
    MaxCrashes,   \* bound: passes that die
    MaxReplays    \* bound: dead letters replayed

ASSUME OutboxAssumption ==
    /\ Events \subseteq Nat /\ IsFiniteSet(Events)
    /\ Handled \subseteq Events
    /\ NoPass \notin Passes
    /\ NoEvent \notin Events
    /\ MaxAttempts \in Nat \ {0}
    /\ BatchLimit \in Nat \ {0}
    /\ MaxCrashes \in Nat
    /\ MaxReplays \in Nat

VARIABLES
    row,      \* row[e]: state, attempts and lease_owner of an outbox_event
    lapsed,   \* events whose lease_expires_at has passed
    resting,  \* events whose next_attempt_at has not come
    step,     \* step[w]: where the pass of w stands
    batch,    \* batch[w]: claimed events the pass has not begun
    current,  \* current[w]: the event it is at
    applied,  \* events whose handler has taken effect at least once
    crashes,
    replays

outboxVars == <<row, lapsed, resting, step, batch, current, applied, crashes, replays>>
passVars   == <<step, batch, current>>

States == {"ABSENT", "PENDING", "DELIVERED", "DEAD_LETTER"}
Steps  == {"idle", "claiming", "running", "handling", "handled", "failed"}

Row(state, attempts, lease) == [state |-> state, attempts |-> attempts, lease |-> lease]

OutboxInit ==
    /\ row     = [e \in Events |-> Row("ABSENT", 0, NoPass)]
    /\ lapsed  = {}
    /\ resting = {}
    /\ step    = [w \in Passes |-> "idle"]
    /\ batch   = [w \in Passes |-> {}]
    /\ current = [w \in Passes |-> NoEvent]
    /\ applied = {}
    /\ crashes = 0
    /\ replays = 0

(* A command commits its event with the change that caused it.             *)
AppendEvent(e) ==
    /\ row[e].state = "ABSENT"
    /\ row' = [row EXCEPT ![e] = Row("PENDING", @.attempts, @.lease)]
    /\ UNCHANGED <<lapsed, resting, passVars, applied, crashes, replays>>

-----------------------------------------------------------------------------
(* Time.                                                                   *)

LeaseLapses(e) ==
    /\ row[e].lease # NoPass
    /\ e \notin lapsed
    /\ lapsed' = lapsed \cup {e}
    /\ UNCHANGED <<row, resting, passVars, applied, crashes, replays>>

(* The backoffSeconds of a failed attempt are over.                        *)
BackoffPasses(e) ==
    /\ e \in resting
    /\ resting' = resting \ {e}
    /\ UNCHANGED <<row, lapsed, passVars, applied, crashes, replays>>

-----------------------------------------------------------------------------
(* One tick of the scheduler: recoverStaleLeases, then runOnce.            *)

RecoverStaleLeases(w) ==
    /\ step[w] = "idle"
    /\ step' = [step EXCEPT ![w] = "claiming"]
    /\ row' = [e \in Events |->
                  IF row[e].state = "PENDING" /\ e \in lapsed
                  THEN Row("PENDING", row[e].attempts, NoPass) ELSE row[e]]
    /\ lapsed' = {}
    /\ UNCHANGED <<resting, batch, current, applied, crashes, replays>>

Due == {e \in Events : /\ row[e].state = "PENDING"
                       /\ e \notin resting
                       /\ row[e].lease = NoPass \/ e \in lapsed}

(* The oldest due events, BatchLimit of them if there are as many.         *)
Oldest(due) ==
    {e \in due : Cardinality({f \in due : f < e}) < BatchLimit}

(* The check outbox_event_attempts, which an UPDATE must satisfy on every  *)
(* row it touches.                                                         *)
Claimable(claimed) == \A e \in claimed : row[e].attempts < MaxAttempts

(* Two ways claimBatch could go wrong: the attempt is not counted with the *)
(* claim, and nothing limits the count.                                    *)
MutClaimUncounted(w) ==
    /\ step[w] = "claiming"
    /\ row' = [e \in Events |->
                  IF e \in Oldest(Due) THEN [row[e] EXCEPT !.lease = w] ELSE row[e]]
    /\ lapsed' = lapsed \ Oldest(Due)
    /\ batch' = [batch EXCEPT ![w] = Oldest(Due)]
    /\ step' = [step EXCEPT ![w] = "running"]
    /\ UNCHANGED <<resting, current, applied, crashes, replays>>

(* claimBatch: lease and attempt in one statement over the whole batch; a  *)
(* row that has no attempt left fails the statement, and the pass with it. *)
ClaimBatch(w) ==
    /\ step[w] = "claiming"
    /\ LET claimed == Oldest(Due) IN
       \/ /\ Claimable(claimed)
          /\ row' = [e \in Events |->
                        IF e \in claimed
                        THEN Row("PENDING", row[e].attempts + 1, w) ELSE row[e]]
          /\ lapsed' = lapsed \ claimed
          /\ batch' = [batch EXCEPT ![w] = claimed]
          /\ step' = [step EXCEPT ![w] = "running"]
       \/ /\ ~Claimable(claimed)
          /\ step' = [step EXCEPT ![w] = "idle"]
          /\ UNCHANGED <<row, lapsed, batch>>
    /\ UNCHANGED <<resting, current, applied, crashes, replays>>

(* The DEL-09 way with an event nobody handles.                            *)
MutUnsupportedDelivered(w, e) ==
    /\ step[w] = "running"
    /\ e \in batch[w] \ Handled
    /\ batch' = [batch EXCEPT ![w] = @ \ {e}]
    /\ IF row[e].lease = w /\ row[e].state = "PENDING"
       THEN /\ row' = [row EXCEPT ![e].state = "DELIVERED", ![e].lease = NoPass]
            /\ lapsed' = lapsed \ {e}
       ELSE UNCHANGED <<row, lapsed>>
    /\ UNCHANGED <<resting, step, current, applied, crashes, replays>>

(* markUnsupported: quarantined, if this pass still has the lease.         *)
MarkUnsupported(w, e) ==
    /\ step[w] = "running"
    /\ e \in batch[w] \ Handled
    /\ batch' = [batch EXCEPT ![w] = @ \ {e}]
    /\ IF row[e].lease = w /\ row[e].state = "PENDING"
       THEN /\ row' = [row EXCEPT ![e] = Row("DEAD_LETTER", @.attempts, NoPass)]
            /\ lapsed' = lapsed \ {e}
       ELSE UNCHANGED <<row, lapsed>>
    /\ UNCHANGED <<resting, step, current, applied, crashes, replays>>

(* The pass calls a handler, whatever has become of its lease.             *)
CallHandler(w, e) ==
    /\ step[w] = "running"
    /\ e \in batch[w] \cap Handled
    /\ batch' = [batch EXCEPT ![w] = @ \ {e}]
    /\ current' = [current EXCEPT ![w] = e]
    /\ step' = [step EXCEPT ![w] = "handling"]
    /\ UNCHANGED <<row, lapsed, resting, applied, crashes, replays>>

(* withTimeout: the handler returns, or it throws or runs out of time.  In *)
(* the second case it may have taken effect all the same, or do so later;  *)
(* nothing in the worker ever reads which.                                 *)
HandlerReturns(w) ==
    /\ step[w] = "handling"
    /\ step' = [step EXCEPT ![w] = "handled"]
    /\ applied' = applied \cup {current[w]}
    /\ UNCHANGED <<row, lapsed, resting, batch, current, crashes, replays>>

HandlerFails(w) ==
    /\ step[w] = "handling"
    /\ step' = [step EXCEPT ![w] = "failed"]
    /\ applied' \in {applied, applied \cup {current[w]}}
    /\ UNCHANGED <<row, lapsed, resting, batch, current, crashes, replays>>

(* markDelivered, if this pass still has the lease.                        *)
MarkDelivered(w) ==
    /\ step[w] = "handled"
    /\ step' = [step EXCEPT ![w] = "running"]
    /\ current' = [current EXCEPT ![w] = NoEvent]
    /\ LET e == current[w] IN
       IF row[e].lease = w /\ row[e].state = "PENDING"
       THEN /\ row' = [row EXCEPT ![e] = Row("DELIVERED", @.attempts, NoPass)]
            /\ lapsed' = lapsed \ {e}
       ELSE UNCHANGED <<row, lapsed>>
    /\ UNCHANGED <<resting, batch, applied, crashes, replays>>

(* Two ways markFailed could go wrong: a pass that lost the lease still    *)
(* reports its failure, and an event is given up one attempt early.        *)
MutFailUnleased(w) ==
    /\ step[w] = "failed"
    /\ step' = [step EXCEPT ![w] = "running"]
    /\ current' = [current EXCEPT ![w] = NoEvent]
    /\ LET e == current[w] IN
          /\ row' = [row EXCEPT ![e].lease = NoPass, ![e].state =
                        IF row[e].attempts >= MaxAttempts THEN "DEAD_LETTER" ELSE "PENDING"]
          /\ lapsed' = lapsed \ {e}
          /\ resting' = resting \cup {e}
    /\ UNCHANGED <<batch, applied, crashes, replays>>

MutFailEarly(w) ==
    /\ step[w] = "failed"
    /\ step' = [step EXCEPT ![w] = "running"]
    /\ current' = [current EXCEPT ![w] = NoEvent]
    /\ LET e == current[w] IN
       IF row[e].lease = w
       THEN /\ row' = [row EXCEPT ![e].lease = NoPass, ![e].state =
                          IF row[e].attempts >= MaxAttempts - 1 THEN "DEAD_LETTER" ELSE "PENDING"]
            /\ lapsed' = lapsed \ {e}
            /\ resting' = resting \cup {e}
       ELSE UNCHANGED <<row, lapsed, resting>>
    /\ UNCHANGED <<batch, applied, crashes, replays>>

(* markFailed: back for another attempt, or given up after the last.  The  *)
(* lease is all it asks for; the state of the row it does not look at.     *)
MarkFailed(w) ==
    /\ step[w] = "failed"
    /\ step' = [step EXCEPT ![w] = "running"]
    /\ current' = [current EXCEPT ![w] = NoEvent]
    /\ LET e == current[w] IN
       IF row[e].lease = w
       THEN /\ row' = [row EXCEPT ![e] =
                          Row(IF @.attempts >= MaxAttempts THEN "DEAD_LETTER" ELSE "PENDING",
                              @.attempts, NoPass)]
            /\ lapsed' = lapsed \ {e}
            /\ resting' = resting \cup {e}
       ELSE UNCHANGED <<row, lapsed, resting>>
    /\ UNCHANGED <<batch, applied, crashes, replays>>

EndPass(w) ==
    /\ step[w] = "running"
    /\ batch[w] = {}
    /\ step' = [step EXCEPT ![w] = "idle"]
    /\ UNCHANGED <<row, lapsed, resting, batch, current, applied, crashes, replays>>

-----------------------------------------------------------------------------
(* The process dies.  The rows it had claimed stay leased to it.           *)
Crash(w) ==
    /\ step[w] # "idle"
    /\ crashes < MaxCrashes
    /\ crashes' = crashes + 1
    /\ step' = [step EXCEPT ![w] = "idle"]
    /\ batch' = [batch EXCEPT ![w] = {}]
    /\ current' = [current EXCEPT ![w] = NoEvent]
    /\ UNCHANGED <<row, lapsed, resting, applied, replays>>

(* replayDeadLetter: an operator starts the attempts over.                 *)
ReplayDeadLetter(e) ==
    /\ row[e].state = "DEAD_LETTER"
    /\ replays < MaxReplays
    /\ replays' = replays + 1
    /\ row' = [row EXCEPT ![e] = Row("PENDING", 0, NoPass)]
    /\ lapsed' = lapsed \ {e}
    /\ resting' = resting \ {e}
    /\ UNCHANGED <<passVars, applied, crashes>>

-----------------------------------------------------------------------------
Clock(e) == LeaseLapses(e) \/ BackoffPasses(e)

Progress(w) ==
    \/ RecoverStaleLeases(w)
    \/ ClaimBatch(w)
    \/ \E e \in Events : MarkUnsupported(w, e) \/ CallHandler(w, e)
    \/ HandlerReturns(w) \/ HandlerFails(w)
    \/ MarkDelivered(w) \/ MarkFailed(w)
    \/ EndPass(w)

OutboxNext ==
    \/ \E e \in Events : AppendEvent(e) \/ Clock(e) \/ ReplayDeadLetter(e)
    \/ \E w \in Passes : Progress(w) \/ Crash(w)

OutboxSpec == OutboxInit /\ [][OutboxNext]_outboxVars

(* The scheduler keeps ticking and a pass that lives goes on: no step of   *)
(* it waits for another pass, and a handler is cut off by its timeout.     *)
(* Leases lapse and backoffs end because time passes.                      *)
FairOutboxSpec ==
    /\ OutboxSpec
    /\ \A w \in Passes : WF_outboxVars(Progress(w))
    /\ \A e \in Events : WF_outboxVars(LeaseLapses(e)) /\ WF_outboxVars(BackoffPasses(e))

-----------------------------------------------------------------------------
(* Types, with the checks of the table and the place a pass is at.         *)
OutboxTypeOK ==
    /\ row \in [Events -> [state : States, attempts : 0 .. MaxAttempts, lease : Passes \cup {NoPass}]]
    /\ \A e \in Events : row[e].lease # NoPass => row[e].state = "PENDING"
    /\ lapsed \subseteq {e \in Events : row[e].lease # NoPass}
    /\ resting \subseteq Events
    /\ step \in [Passes -> Steps]
    /\ batch \in [Passes -> SUBSET Events]
    /\ current \in [Passes -> Events \cup {NoEvent}]
    /\ \A w \in Passes : step[w] \in {"handling", "handled", "failed"} <=> current[w] # NoEvent
    /\ applied \subseteq Handled
    /\ crashes \in 0 .. MaxCrashes
    /\ replays \in 0 .. MaxReplays

(* An event recorded as delivered has had its effect: a handler exists and *)
(* has run to its end, however many passes shared the event, and none was  *)
(* marked delivered to be rid of it.                                       *)
DeliveredWasApplied ==
    \A e \in Events : row[e].state = "DELIVERED" => e \in applied

(* Delivered is final.  A pass whose lease lapsed, and whose handler fails *)
(* after another pass has delivered the event, does not bring it back: the *)
(* lease_owner of markFailed is the only thing in the way.                 *)
DeliveredIsFinal ==
    [][\A e \in Events : row[e].state = "DELIVERED" => row'[e] = row[e]]_outboxVars

(* An event somebody handles is given up only when all its attempts are    *)
(* spent, whichever of the passes that shared it reported the failure.     *)
DeadLetterSpentItsAttempts ==
    \A e \in Handled : row[e].state = "DEAD_LETTER" => row[e].attempts = MaxAttempts

Settled(e) == row[e].state \in {"DELIVERED", "DEAD_LETTER"}

(* The last attempt of e was claimed, and no pass is left to report it.    *)
LastAttemptLost(e) ==
    /\ row[e].state = "PENDING"
    /\ row[e].attempts = MaxAttempts
    /\ \A w \in Passes : row[e].lease = w => e \notin batch[w] \cup {current[w]}

(* Every event is settled in the end, through crashes, lapsed leases and   *)
(* failing handlers, unless the last attempt of some event is lost.        *)
EventsSettle ==
    \A e \in Events :
        row[e].state = "PENDING" ~> Settled(e) \/ \E f \in Events : LastAttemptLost(f)

(* What recoverStaleLeases says of itself: a crash is survivable, the      *)
(* lease lapses and another worker picks the event up.                     *)
CrashIsSurvivable ==
    \A e \in Events : row[e].state = "PENDING" ~> Settled(e)
=============================================================================
