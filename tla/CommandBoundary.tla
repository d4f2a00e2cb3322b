--------------------------- MODULE CommandBoundary --------------------------
(* The command boundary and the client handle in front of it.  A tab mints  *)
(* a command id, keeps it until the server has decided and sends it again   *)
(* when the outcome is unknown; runCommand claims the id, runs the body and *)
(* commits the outcome with it, or replays what an earlier call decided.    *)
(* Calls are lost, time out at the client and go on at the server, and the  *)
(* server fails before, during and after the commit.                        *)
EXTENDS Naturals

CONSTANTS Tabs,       \* open pages that submit commands
          Forms,      \* those with the form that works without JavaScript
          Callers,
          TabUser,    \* who is signed in on a page with a handle
          Ids,        \* command ids, a bounded pool of UUIDs
          Drafts,     \* command type and payload, as far as its hash tells apart
          Slots,      \* server calls in progress at the same time
          Nothing

Outcomes == {"ok", "refused"}
CommandRows == [user : Callers, draft : Drafts, answer : Outcomes]

ASSUME CommandAssumption ==
  /\ Forms \subseteq Tabs
  /\ TabUser \in [Tabs -> Callers]
  /\ Nothing \notin Ids \cup Slots \cup Tabs \cup Callers \cup CommandRows

VARIABLES held,       \* the id a page keeps, or Nothing
          draft,      \* what is typed on the page
          awaiting,   \* the call a page waits for, or Nothing
          call,       \* the server calls
          command,    \* the committed rows of sandbox.command
          effect,     \* committed executions of the body of each command
          minted,     \* who minted each id, or Nothing
          past        \* history: what happened to each id at the pages

tabVars == <<held, draft, awaiting, minted, past>>
commandVars == <<held, draft, awaiting, call, command, effect, minted, past>>

(* What a caller can be given.  "unavailable" is a named error thrown       *)
(* before or inside the body (no session, no adapter): nothing is recorded. *)
Answers == Outcomes \cup {"notYours", "conflict", "unknown", "unavailable"}

(* The history of an id at a page with a handle: the answers it got, that   *)
(* it was sent more than once, that the page was edited while it held the   *)
(* id; and, for every page, that it was reloaded.  No guard reads it.       *)
Happenings == Answers \cup {"again", "edited", "reloaded"}
Happens(t, i, e) ==
  past' = [j \in Ids |-> IF j = i /\ (t \notin Forms \/ e = "reloaded")
                         THEN past[j] \cup {e} ELSE past[j]]

Free == [at |-> "free"]
Calls == [at : {"sent", "running"}, user : Callers, id : Ids, draft : Drafts]
         \cup [at : {"answered"}, user : Callers, id : Ids, draft : Drafts, answer : Answers]

At(s, state) == call[s].at = state

(* An answer nobody waits for any more goes nowhere.                        *)
Reply(s, a) ==
  call' = [call EXCEPT ![s] =
             IF \E t \in Tabs : awaiting[t] = s
             THEN [at |-> "answered", user |-> @.user, id |-> @.id, draft |-> @.draft, answer |-> a]
             ELSE Free]

(* Somebody holds the speculative insertion of this id, not yet committed.  *)
InFlight(i) == \E s \in Slots : At(s, "running") /\ call[s].id = i

(* Every answer taken for a decision.                                       *)
MutDefinitiveAlways(a) == TRUE

Definitive(a) == a # "unknown"

CommandInit ==
  /\ held = [t \in Tabs |-> Nothing]
  /\ draft \in [Tabs -> Drafts]
  /\ awaiting = [t \in Tabs |-> Nothing]
  /\ call = [s \in Slots |-> Free]
  /\ command = [i \in Ids |-> Nothing]
  /\ effect = [i \in Ids |-> 0]
  /\ minted = [i \in Ids |-> Nothing]
  /\ past = [i \in Ids |-> {}]

-----------------------------------------------------------------------------
(* The page.                                                                *)

Edit(t, d) ==
  /\ awaiting[t] = Nothing
  /\ draft[t] # d
  /\ draft' = [draft EXCEPT ![t] = d]
  /\ Happens(t, held[t], "edited")
  /\ UNCHANGED <<held, awaiting, call, command, effect, minted>>

Send(t, s, u, i) ==
  /\ awaiting[t] = Nothing
  /\ At(s, "free")
  /\ call' = [call EXCEPT ![s] = [at |-> "sent", user |-> u, id |-> i, draft |-> draft[t]]]
  /\ awaiting' = [awaiting EXCEPT ![t] = s]
  /\ UNCHANGED <<draft, command, effect>>

Unused == {i \in Ids : minted[i] = Nothing}

(* next(): the id that is held, or a new one.  Which unused id is drawn is  *)
(* immaterial.  The form posts the id of its hidden field, for whichever    *)
(* account the browser is signed in to by then.                             *)
Submit(t, s, u) ==
  /\ t \in Forms \/ u = TabUser[t]
  /\ \/ /\ held[t] # Nothing
        /\ Send(t, s, u, held[t])
        /\ Happens(t, held[t], "again")
        /\ UNCHANGED <<held, minted>>
     \/ /\ held[t] = Nothing
        /\ Unused # {}
        /\ LET i == CHOOSE j \in Unused : TRUE IN
             /\ Send(t, s, u, i)
             /\ held' = [held EXCEPT ![t] = i]
             /\ minted' = [minted EXCEPT ![i] = u]
             /\ UNCHANGED past

(* settleIfDefinitive: an unknown outcome keeps the id.                     *)
Receive(t) ==
  LET s == awaiting[t]
      a == call[s].answer
  IN /\ s # Nothing
     /\ At(s, "answered")
     /\ held' = IF Definitive(a) /\ t \notin Forms THEN [held EXCEPT ![t] = Nothing] ELSE held
     /\ Happens(t, call[s].id, a)
     /\ awaiting' = [awaiting EXCEPT ![t] = Nothing]
     /\ call' = [call EXCEPT ![s] = Free]
     /\ UNCHANGED <<draft, command, effect, minted>>

(* The call throws at the client, whatever the server goes on to do: the    *)
(* line that settles is never reached.                                      *)
TimeOut(t) ==
  /\ awaiting[t] # Nothing
  /\ awaiting' = [awaiting EXCEPT ![t] = Nothing]
  /\ UNCHANGED <<held, draft, call, command, effect, minted, past>>

(* The handle lives in the component: a reload forgets the id.              *)
Reload(t) ==
  /\ held[t] # Nothing
  /\ held' = [held EXCEPT ![t] = Nothing]
  /\ Happens(t, held[t], "reloaded")
  /\ awaiting' = [awaiting EXCEPT ![t] = Nothing]
  /\ UNCHANGED <<draft, call, command, effect, minted>>

-----------------------------------------------------------------------------
(* The server.                                                              *)

(* The session is resolved before the command is built.                     *)
RefuseCaller(s) ==
  /\ At(s, "sent")
  /\ Reply(s, "unavailable")
  /\ UNCHANGED <<tabVars, command, effect>>

(* Looks the id up first and inserts without waiting for one in flight.     *)
MutClaimAtOnce(s) ==
  /\ At(s, "sent")
  /\ command[call[s].id] = Nothing
  /\ call' = [call EXCEPT ![s].at = "running"]
  /\ UNCHANGED <<tabVars, command, effect>>

(* INSERT ... ON CONFLICT DO NOTHING waits for an insertion in flight and   *)
(* returns a row only when no committed one stands in the way.              *)
Claim(s) ==
  /\ At(s, "sent")
  /\ command[call[s].id] = Nothing
  /\ ~InFlight(call[s].id)
  /\ call' = [call EXCEPT ![s] =
               [at |-> "running", user |-> @.user, id |-> @.id, draft |-> @.draft]]
  /\ UNCHANGED <<tabVars, command, effect>>

RecordedAnswer(row, user, d) ==
  IF row.user # user THEN "notYours"
  ELSE IF row.draft # d THEN "conflict"
  ELSE row.answer

Replay(s) ==
  /\ At(s, "sent")
  /\ command[call[s].id] # Nothing
  /\ Reply(s, RecordedAnswer(command[call[s].id], call[s].user, call[s].draft))
  /\ UNCHANGED <<tabVars, command, effect>>

(* What a body has written by the time it returns: all of it when it        *)
(* accepted; when it refused, nothing if it refused at a guard, or what it  *)
(* wrote before (a confirmation completes the deal before its release is    *)
(* refused).                                                                *)
Wrote(o) == IF o = "ok" THEN {1} ELSE {0, 1}

(* The body returned, and what it wrote commits with the row, whether it    *)
(* accepted or refused.  The acknowledgement of the COMMIT may be lost, and *)
(* then withTransaction throws although the row is there.                   *)
Decide(s, o, a) ==
  /\ At(s, "running")
  /\ a \in {o, "unknown"}
  /\ command' = [command EXCEPT ![call[s].id] =
                   [user |-> call[s].user, draft |-> call[s].draft, answer |-> o]]
  /\ \E n \in Wrote(o) : effect' = [effect EXCEPT ![call[s].id] = @ + n]
  /\ Reply(s, a)
  /\ UNCHANGED tabVars

(* The body threw: everything is rolled back, the claim of the id too.      *)
RollBack(s, a) ==
  /\ At(s, "running")
  /\ a \in {"unknown", "unavailable"}
  /\ Reply(s, a)
  /\ UNCHANGED <<tabVars, command, effect>>

(* The request, the process that serves it or its answer is lost.           *)
LoseCall(s) ==
  /\ ~At(s, "free")
  /\ call' = [call EXCEPT ![s] = Free]
  /\ awaiting' = [t \in Tabs |-> IF awaiting[t] = s THEN Nothing ELSE awaiting[t]]
  /\ UNCHANGED <<held, draft, command, effect, minted, past>>

CommandNext ==
  \/ \E t \in Tabs :
       \/ \E d \in Drafts : Edit(t, d)
       \/ \E s \in Slots, u \in Callers : Submit(t, s, u)
       \/ Receive(t)
       \/ TimeOut(t)
       \/ Reload(t)
  \/ \E s \in Slots :
       \/ RefuseCaller(s)
       \/ Claim(s)
       \/ Replay(s)
       \/ \E o \in Outcomes, a \in Answers : Decide(s, o, a)
       \/ \E a \in Answers : RollBack(s, a)
       \/ LoseCall(s)

CommandSpec == CommandInit /\ [][CommandNext]_commandVars

-----------------------------------------------------------------------------
(* Types of the tabs, the calls and the command table.                      *)
CommandTypeOK ==
  /\ held \in [Tabs -> Ids \cup {Nothing}]
  /\ draft \in [Tabs -> Drafts]
  /\ awaiting \in [Tabs -> Slots \cup {Nothing}]
  /\ call \in [Slots -> Calls \cup {Free}]
  /\ command \in [Ids -> CommandRows \cup {Nothing}]
  /\ effect \in [Ids -> Nat]
  /\ minted \in [Ids -> Callers \cup {Nothing}]
  /\ past \in [Ids -> SUBSET Happenings]

(* The outcomes on their way to a page that waits for them.                 *)
Told == {[id |-> call[s].id, user |-> call[s].user, draft |-> call[s].draft,
          answer |-> call[s].answer] :
            s \in {r \in Slots : At(r, "answered") /\ call[r].answer \in Outcomes}}

(* Whatever is lost, repeated or overlapped, the boundary implements the    *)
(* promise: one decision per id, the writes of its body committed with it   *)
(* and never twice, exactly once if it accepted, and the recorded outcome   *)
(* for everyone who is told an outcome (runCommand).                        *)
Boundary == INSTANCE CommandPromise
  WITH decided <- command, effects <- effect, answers <- Told

CommandPromiseKept == Boundary!PromiseSpec

(* A decision whose recorded answer its page never got is still within      *)
(* reach: the page keeps the id, so its next attempt replays and does not   *)
(* act twice.  The id of such a decision is lost in three ways and no       *)
(* other: the page was reloaded; it was edited and sent again under the     *)
(* same id, and told of a conflict instead of the decision; or it was sent  *)
(* again, and the repeated call met an error with a name, which the page    *)
(* takes for a decision although an earlier call was or will be recorded.   *)
(* The last two never happen to the form (useCommandId,                     *)
(* isDefinitiveOutcome).                                                    *)
UntoldDecisionIsHeld ==
  \A i \in Ids : command[i] # Nothing /\ command[i].user = minted[i] =>
    \/ command[i].answer \in past[i]
    \/ \E t \in Tabs : held[t] = i
    \/ "reloaded" \in past[i]
    \/ {"again", "edited", "conflict"} \subseteq past[i]
    \/ {"again", "unavailable"} \subseteq past[i]
=============================================================================
