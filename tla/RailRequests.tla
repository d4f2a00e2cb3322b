---------------------------- MODULE RailRequests ----------------------------
(* The queue of provider calls.  A worker leases a batch of due requests in *)
(* one transaction, counting an attempt for each, and then performs them    *)
(* one by one with no transaction open.  The lease is two seconds without   *)
(* an owner, so a slow call is made again by whoever comes next; a worker   *)
(* may die at any point.                                                    *)
EXTENDS Naturals, FiniteSets

CONSTANTS Requests, RailWorkers, MaxAttempts, BatchLimit

ASSUME RailRequestAssumption ==
  /\ IsFiniteSet(Requests)
  /\ MaxAttempts \in Nat \ {0}
  /\ BatchLimit \in Nat \ {0}

VARIABLES rail,       \* the rows of rail_request
          leased,     \* what each worker still has to perform
          performed   \* requests the provider carried out at least once

railQueueVars == <<rail, leased, performed>>

Pending(r) == rail[r].state = "PENDING"
DueRequests == {r \in Requests : Pending(r) /\ rail[r].due}

RailQueueInit ==
  /\ rail = [r \in Requests |-> [state |-> "absent", attempts |-> 0, due |-> FALSE]]
  /\ leased = [w \in RailWorkers |-> {}]
  /\ performed = {}

(* The key is UNIQUE, so the same call is enqueued once.                    *)
EnqueueRailRequest(r) ==
  /\ rail[r].state = "absent"
  /\ rail' = [rail EXCEPT ![r] = [state |-> "PENDING", attempts |-> 0, due |-> TRUE]]
  /\ UNCHANGED <<leased, performed>>

(* next_attempt_at passes.                                                  *)
BecomeDue(r) ==
  /\ Pending(r)
  /\ ~rail[r].due
  /\ rail' = [rail EXCEPT ![r].due = TRUE]
  /\ UNCHANGED <<leased, performed>>

Batches == {B \in SUBSET DueRequests :
              Cardinality(B) = IF Cardinality(DueRequests) < BatchLimit
                               THEN Cardinality(DueRequests) ELSE BatchLimit}

(* rail_request_attempts: one more attempt than allowed fails the statement *)
(* that counts it, and with it the lease of the whole batch.                *)
Countable(B) == \A r \in B : rail[r].attempts < MaxAttempts

Lease(w, B) ==
  /\ leased[w] = {}
  /\ B # {}
  /\ Countable(B)
  /\ rail' = [r \in Requests |->
                IF r \in B
                THEN [state |-> "PENDING", attempts |-> rail[r].attempts + 1, due |-> FALSE]
                ELSE rail[r]]
  /\ leased' = [leased EXCEPT ![w] = B]
  /\ UNCHANGED performed

(* The handler returned.  A request that is not PENDING any more is left.   *)
Succeed(w, r) ==
  /\ r \in leased[w]
  /\ performed' = performed \cup {r}
  /\ rail' = IF Pending(r) THEN [rail EXCEPT ![r].state = "SUCCEEDED"] ELSE rail
  /\ leased' = [leased EXCEPT ![w] = @ \ {r}]

(* One attempt too early.                                                   *)
MutGivenUpEarly(r) == rail[r].attempts + 1 >= MaxAttempts

(* The handler threw, whether or not the provider acted.  What decides      *)
(* between another attempt and giving up is the row, not this attempt.      *)
GivenUp(r) == rail[r].attempts >= MaxAttempts

Fail(w, r, acted) ==
  /\ r \in leased[w]
  /\ performed' = IF acted THEN performed \cup {r} ELSE performed
  /\ rail' = IF ~Pending(r) THEN rail
             ELSE [rail EXCEPT ![r] = [state    |-> IF GivenUp(r) THEN "FAILED" ELSE "PENDING",
                                       attempts |-> rail[r].attempts,
                                       due      |-> FALSE]]
  /\ leased' = [leased EXCEPT ![w] = @ \ {r}]

(* The process dies with the rest of its batch, before or after the         *)
(* provider acted on the request it was about to record.                    *)
RailWorkerDies(w, acted) ==
  /\ leased[w] # {}
  /\ performed' = performed \cup acted
  /\ leased' = [leased EXCEPT ![w] = {}]
  /\ UNCHANGED rail

RailQueueNext ==
  \/ \E r \in Requests : EnqueueRailRequest(r) \/ BecomeDue(r)
  \/ \E w \in RailWorkers :
       \/ \E B \in Batches : Lease(w, B)
       \/ \E r \in leased[w] : \/ Succeed(w, r)
                               \/ \E acted \in BOOLEAN : Fail(w, r, acted)
       \/ \E acted \in {{}} \cup {{r} : r \in leased[w]} : RailWorkerDies(w, acted)

RailQueueSpec == RailQueueInit /\ [][RailQueueNext]_railQueueVars

-----------------------------------------------------------------------------
(* Types of the queue.                                                      *)
RailQueueTypeOK ==
  /\ rail \in [Requests -> [state : {"absent", "PENDING", "SUCCEEDED", "FAILED"},
                            attempts : 0..MaxAttempts, due : BOOLEAN]]
  /\ leased \in [RailWorkers -> SUBSET Requests]
  /\ performed \subseteq Requests

(* What the queue says of a call is true, however late, often or in which   *)
(* order the attempts end: one recorded as made was made by the provider,   *)
(* and one given up on had all its attempts (runRailRequests).              *)
RailOutcomeIsTrue ==
  \A r \in Requests :
    /\ rail[r].state = "SUCCEEDED" => r \in performed
    /\ rail[r].state = "FAILED" => rail[r].attempts = MaxAttempts

(* "each worker takes rows nobody else holds, rather than all of them       *)
(* queueing on the same head-of-line row": when requests are due and every  *)
(* worker is free, the next batch can be leased (runRailRequests).          *)
QueueIsNeverBlocked ==
  (\A w \in RailWorkers : leased[w] = {}) => \A B \in Batches : Countable(B)
=============================================================================
