---------------------------- MODULE DeliveryProofs ----------------------------
(***************************************************************************)
(* Proofs about the two ends at which a call may be repeated.              *)
(*                                                                         *)
(* CommandBoundary, for any pages, callers, command ids and number of      *)
(* overlapping calls.  First the refinement: what the boundary promises    *)
(* rests on the row of the command alone.  Then the page: what it still    *)
(* holds, what it was told, and what its calls and the rows of their ids   *)
(* have to do with one another (HistoryInv).                               *)
(*                                                                         *)
(* OutboxWorker, for any events, passes, limits and bounds.  Passes whose  *)
(* leases lapsed go on as if nothing had happened, so several of them may  *)
(* work on one event.  What makes that harmless is written in RowRight and *)
(* PassRight: a lease is only ever found on a PENDING row, and a pass      *)
(* marks an event delivered only after its handler took effect.  Last the  *)
(* attempts that are lost: they stay lost, and stop the queue behind them. *)
(***************************************************************************)
EXTENDS CommandBoundary, OutboxWorker, FiniteSetTheorems, TLAPS

Recorded(s) == [user |-> call[s].user, draft |-> call[s].draft, answer |-> call[s].answer]
TellsOutcome(s) == At(s, "answered") /\ call[s].answer \in Outcomes

(* An outcome on its way is the recorded one.                              *)
AnswersAreRecorded ==
  \A s \in Slots : TellsOutcome(s) => command[call[s].id] = Recorded(s)

(* A body runs only while its id is undecided, and alone.                  *)
OneBodyPerId ==
  \A s \in Slots : At(s, "running") =>
    /\ command[call[s].id] = Nothing
    /\ \A r \in Slots : At(r, "running") /\ call[r].id = call[s].id => r = s

ServerInv ==
  /\ call \in [Slots -> Calls \cup {Free}]
  /\ command \in [Ids -> CommandRows \cup {Nothing}]
  /\ effect \in [Ids -> Nat]
  /\ AnswersAreRecorded
  /\ OneBodyPerId

LEMMA CallFields ==
  ASSUME call \in [Slots -> Calls \cup {Free}], NEW s \in Slots, ~At(s, "free")
  PROVE  /\ call[s].user \in Callers /\ call[s].id \in Ids /\ call[s].draft \in Drafts
         /\ call[s].at \in {"sent", "running", "answered"}
         /\ At(s, "answered") => call[s].answer \in Answers
  BY DEF At, Calls, Free

LEMMA ServerInit == CommandInit => ServerInv
  BY DEF CommandInit, ServerInv, AnswersAreRecorded, OneBodyPerId, TellsOutcome, At, Free

(* One call moves, and nothing is decided: it may not claim a decided id,  *)
(* or one that is claimed, nor tell an outcome that is not the recorded    *)
(* one.                                                                    *)
LEMMA CallMoves ==
  ASSUME ServerInv, NEW s \in Slots, NEW c \in Calls \cup {Free},
         call' = [call EXCEPT ![s] = c], UNCHANGED <<command, effect>>,
         c.at = "running" => /\ command[c.id] = Nothing
                             /\ \A r \in Slots : At(r, "running") => call[r].id # c.id,
         c.at = "answered" /\ c.answer \in Outcomes =>
            command[c.id] = [user |-> c.user, draft |-> c.draft, answer |-> c.answer]
  PROVE  ServerInv'
<1> USE DEF ServerInv
<1>1. call' \in [Slots -> Calls \cup {Free}]
  OBVIOUS
<1>2. call'[s] = c /\ \A r \in Slots \ {s} : call'[r] = call[r]
  OBVIOUS
<1>3. AnswersAreRecorded'
  BY <1>2 DEF AnswersAreRecorded, TellsOutcome, Recorded, At
<1>4. OneBodyPerId'
  BY <1>2 DEF OneBodyPerId, At
<1> QED
  BY <1>1, <1>3, <1>4

Reported(s, a) == [at |-> "answered", user |-> call[s].user, id |-> call[s].id,
                   draft |-> call[s].draft, answer |-> a]

(* An answer is on its way, or nobody waits for it.                        *)
LEMMA Replied ==
  ASSUME ServerInv, NEW s \in Slots, NEW a \in Answers, ~At(s, "free"), Reply(s, a)
  PROVE  /\ Reported(s, a) \in Calls /\ Free \in Calls \cup {Free}
         /\ \E c \in {Reported(s, a), Free} : call' = [call EXCEPT ![s] = c]
<1>1. Reported(s, a) \in Calls
  BY CallFields DEF ServerInv, Reported, Calls
<1>2. call' = [call EXCEPT ![s] = IF \E t \in Tabs : awaiting[t] = s THEN Reported(s, a) ELSE Free]
  BY DEF Reply, Reported
<1> QED
  BY <1>1, <1>2

(* Answers that decide nothing: no session, a body that threw, a replay.   *)
LEMMA ReplyInv ==
  ASSUME ServerInv, NEW s \in Slots, NEW a \in Answers, ~At(s, "free"), Reply(s, a),
         UNCHANGED <<command, effect>>,
         a \in Outcomes => command[call[s].id] = [user |-> call[s].user, draft |-> call[s].draft,
                                                answer |-> a]
  PROVE  ServerInv'
<1>1. PICK c \in {Reported(s, a), Free} : call' = [call EXCEPT ![s] = c]
  BY Replied
<1>2. c \in Calls \cup {Free}
  BY Replied
<1>3. c.at # "running"
  BY <1>1 DEF Reported, Free
<1>4. c.at = "answered" /\ c.answer \in Outcomes =>
         command[c.id] = [user |-> c.user, draft |-> c.draft, answer |-> c.answer]
  BY <1>1 DEF Reported, Free
<1> QED
  BY <1>1, <1>2, <1>3, <1>4, CallMoves

(* A replayed outcome is the recorded one, for the caller and the request  *)
(* it was recorded of.                                                     *)
LEMMA RecordedAnswerIsRecorded ==
  ASSUME ServerInv, NEW s \in Slots, ~At(s, "free"), command[call[s].id] # Nothing
  PROVE  LET a == RecordedAnswer(command[call[s].id], call[s].user, call[s].draft) IN
         /\ a \in Answers
         /\ a \in Outcomes => command[call[s].id] = [user |-> call[s].user,
                                                    draft |-> call[s].draft, answer |-> a]
<1> DEFINE d == command[call[s].id]
<1>1. d \in CommandRows
  BY CallFields DEF ServerInv
<1>2. d = [user |-> d.user, draft |-> d.draft, answer |-> d.answer] /\ d.answer \in Outcomes
  BY <1>1 DEF CommandRows
<1> QED
  BY <1>2 DEF RecordedAnswer, Answers, Outcomes

LEMMA SentInv ==
  ASSUME ServerInv, NEW s \in Slots, RefuseCaller(s) \/ Claim(s) \/ Replay(s)
  PROVE  ServerInv'
<1>1. At(s, "sent") /\ ~At(s, "free")
  BY DEF RefuseCaller, Claim, Replay, At
<1>2. CASE RefuseCaller(s)
  BY <1>1, <1>2, ReplyInv DEF RefuseCaller, Answers, Outcomes
<1>3. CASE Replay(s)
  BY <1>1, <1>3, ReplyInv, RecordedAnswerIsRecorded DEF Replay
<1>4. CASE Claim(s)
  <2> DEFINE c == [at |-> "running", user |-> call[s].user, id |-> call[s].id,
                   draft |-> call[s].draft]
  <2>1. c \in Calls
    BY <1>1, CallFields DEF ServerInv, Calls
  <2>2. call' = [call EXCEPT ![s] = c] /\ UNCHANGED <<command, effect>>
    BY <1>4 DEF Claim
  <2>3. /\ command[c.id] = Nothing
        /\ \A r \in Slots : At(r, "running") => call[r].id # c.id
    BY <1>4 DEF Claim, InFlight
  <2> QED
    BY <2>1, <2>2, <2>3, CallMoves
<1> QED
  BY <1>2, <1>3, <1>4

LEMMA LostInv ==
  ASSUME ServerInv, NEW s \in Slots, call' = [call EXCEPT ![s] = Free],
         UNCHANGED <<command, effect>>
  PROVE  ServerInv'
  BY CallMoves DEF Free

LEMMA RollBackInv ==
  ASSUME ServerInv, NEW s \in Slots, NEW a \in Answers, RollBack(s, a)
  PROVE  ServerInv'
  BY ReplyInv DEF RollBack, At, Outcomes

Decision(s, o) == [user |-> call[s].user, draft |-> call[s].draft, answer |-> o]

(* The one step that decides: its body ran alone.                          *)
LEMMA DecideInv ==
  ASSUME ServerInv, NEW s \in Slots, NEW o \in Outcomes, NEW a \in Answers, Decide(s, o, a)
  PROVE  ServerInv'
<1> USE DEF ServerInv
<1>1. At(s, "running") /\ ~At(s, "free") /\ a \in {o, "unknown"} /\ Reply(s, a)
      /\ command' = [command EXCEPT ![call[s].id] = Decision(s, o)]
      /\ \E n \in Wrote(o) : effect' = [effect EXCEPT ![call[s].id] = @ + n]
  BY DEF Decide, At, Decision
<1>2. PICK c \in {Reported(s, a), Free} : call' = [call EXCEPT ![s] = c]
  BY <1>1, Replied
<1>3. c \in Calls \cup {Free}
  BY <1>1, Replied
<1>4. call[s].id \in Ids /\ Decision(s, o) \in CommandRows
  BY <1>1, CallFields DEF Decision, CommandRows
<1>5. call'[s] = c /\ \A r \in Slots \ {s} : call'[r] = call[r]
  BY <1>2
<1>6. command'[call[s].id] = Decision(s, o)
      /\ \A i \in Ids \ {call[s].id} : command'[i] = command[i]
  BY <1>1, <1>4
<1>7. /\ call' \in [Slots -> Calls \cup {Free}]
      /\ command' \in [Ids -> CommandRows \cup {Nothing}]
      /\ effect' \in [Ids -> Nat]
  BY <1>1, <1>2, <1>3, <1>4 DEF Wrote
<1>8. AnswersAreRecorded'
  <2>1. ASSUME NEW r \in Slots \ {s}, TellsOutcome(r)
        PROVE  call[r].id # call[s].id
    <3>1. command[call[r].id] = Recorded(r) /\ Recorded(r) \in CommandRows
      BY <2>1, CallFields DEF AnswersAreRecorded, TellsOutcome, Recorded, At, CommandRows
    <3> QED
      BY <1>1, <3>1, CommandAssumption DEF OneBodyPerId
  <2>2. ASSUME NEW r \in Slots \ {s}, TellsOutcome(r)'
        PROVE  command'[call'[r].id] = Recorded(r)'
    <3>1. TellsOutcome(r) /\ call[r].id \in Ids
      BY <1>5, <2>2, CallFields DEF TellsOutcome, At
    <3> QED
      BY <1>5, <1>6, <2>1, <3>1 DEF AnswersAreRecorded, Recorded
  <2>3. TellsOutcome(s)' => command'[call'[s].id] = Recorded(s)'
    BY <1>1, <1>2, <1>5, <1>6 DEF TellsOutcome, At, Recorded, Reported, Free, Decision, Outcomes
  <2> QED
    BY <2>2, <2>3 DEF AnswersAreRecorded
<1>9. OneBodyPerId'
  <2>1. ~At(s, "running")'
    BY <1>2, <1>5 DEF At, Reported, Free
  <2>2. ASSUME NEW r \in Slots \ {s}, At(r, "running")'
        PROVE  At(r, "running") /\ call[r].id # call[s].id /\ call[r].id \in Ids
    BY <1>1, <1>5, <2>2, CallFields DEF OneBodyPerId, At
  <2> QED
    BY <1>5, <1>6, <2>1, <2>2 DEF OneBodyPerId, At
<1> QED
  BY <1>7, <1>8, <1>9

-----------------------------------------------------------------------------
(* The page.                                                               *)

PageTypes ==
  /\ held \in [Tabs -> Ids \cup {Nothing}]
  /\ draft \in [Tabs -> Drafts]
  /\ awaiting \in [Tabs -> Slots \cup {Nothing}]
  /\ minted \in [Ids -> Callers \cup {Nothing}]
  /\ past \in [Ids -> SUBSET Happenings]

(* A page waits for a call about the id it holds, made by its own user if  *)
(* it has a handle; and no other page waits for that call.                 *)
WaitsRight(t) ==
  awaiting[t] # Nothing =>
    /\ ~At(awaiting[t], "free")
    /\ call[awaiting[t]].id = held[t]
    /\ t \notin Forms => call[awaiting[t]].user = TabUser[t]

WaitsAlone(t) ==
  awaiting[t] # Nothing => \A v \in Tabs : awaiting[v] = awaiting[t] => v = t

(* The id a page with a handle holds was minted for its user.              *)
HoldsRight(t) ==
  held[t] # Nothing =>
    /\ minted[held[t]] # Nothing
    /\ t \notin Forms => minted[held[t]] = TabUser[t]

PageInv ==
  /\ PageTypes
  /\ \A t \in Tabs : WaitsRight(t) /\ WaitsAlone(t) /\ HoldsRight(t)

Busy(s, i) == ~At(s, "free") /\ call[s].id = i

(* An id nobody minted is unknown to the server.                           *)
UnusedIsUnknown ==
  \A i \in Ids : minted[i] = Nothing => command[i] = Nothing /\ \A s \in Slots : ~Busy(s, i)

(* A call that is turned away by a record was turned away by that record.  *)
TurnedAwayRight(s) ==
  At(s, "answered") =>
    LET prior == command[call[s].id] IN
    /\ call[s].answer = "notYours" => prior # Nothing /\ prior.user # call[s].user
    /\ call[s].answer = "conflict" => prior # Nothing /\ prior.draft # call[s].draft

(* The first call of an id a page with a handle holds is its only one, and *)
(* a named error that answers it comes before anything is recorded.        *)
FirstCallAlone(t) ==
  t \notin Forms /\ held[t] # Nothing /\ "again" \notin past[held[t]] =>
    /\ \A r, s \in Slots : Busy(r, held[t]) /\ Busy(s, held[t]) => r = s
    /\ \A s \in Slots : Busy(s, held[t]) =>
         /\ At(s, "sent") \/ At(s, "running") => command[held[t]] = Nothing
         /\ At(s, "answered") => /\ call[s].answer = "unavailable" => command[held[t]] = Nothing
                                 /\ call[s].answer \notin {"notYours", "conflict"}

(* A page that was not edited asks, and has asked, one thing.              *)
OneDraft(t) ==
  t \notin Forms /\ held[t] # Nothing /\ "edited" \notin past[held[t]] =>
    /\ \A s \in Slots : Busy(s, held[t]) => call[s].draft = draft[t]
    /\ command[held[t]] # Nothing => command[held[t]].draft = draft[t]

HoldsAlone(t) == held[t] # Nothing => \A v \in Tabs : held[v] = held[t] => v = t

(* The three ways in which the id of a decision is lost.                   *)
GivenUp(i) ==
  \/ "reloaded" \in past[i]
  \/ {"again", "edited", "conflict"} \subseteq past[i]
  \/ {"again", "unavailable"} \subseteq past[i]

(* An id is held, or given up, or its page heard the decision, or was told *)
(* that somebody else's stands there, or nothing will ever be decided.     *)
AccountedFor(i) ==
  \/ \E t \in Tabs : held[t] = i
  \/ GivenUp(i)
  \/ /\ command[i] # Nothing
     /\ command[i].answer \in past[i] \/ command[i].user # minted[i]
  \/ command[i] = Nothing /\ \A s \in Slots : ~Busy(s, i)

HistoryInv ==
  /\ UnusedIsUnknown
  /\ \A s \in Slots : TurnedAwayRight(s)
  /\ \A t \in Tabs : FirstCallAlone(t) /\ OneDraft(t) /\ HoldsAlone(t)
  /\ \A i \in Ids : minted[i] # Nothing => AccountedFor(i)

BoundaryInv == ServerInv /\ PageInv /\ HistoryInv

LEMMA PageInit == CommandInit => PageInv
  BY DEF CommandInit, PageInv, PageTypes, WaitsRight, WaitsAlone, HoldsRight

(* What happens to an id at a page is added to what happened before.       *)
LEMMA PastGrows ==
  ASSUME PageTypes, NEW t \in Tabs, NEW i, NEW e \in Happenings, Happens(t, i, e)
  PROVE  /\ past' \in [Ids -> SUBSET Happenings]
         /\ \A j \in Ids : past[j] \subseteq past'[j]
         /\ i \in Ids /\ t \notin Forms => e \in past'[i]
         /\ i \in Ids /\ e = "reloaded" => e \in past'[i]
  BY DEF PageTypes, Happens

(* What the server does with a call keeps it the call the page waits for.  *)
LEMMA ServerLeavesPage ==
  ASSUME BoundaryInv, NEW s \in Slots, ~At(s, "free"), NEW c, call' = [call EXCEPT ![s] = c],
         (\E t \in Tabs : awaiting[t] = s) =>
            c.at # "free" /\ c.id = call[s].id /\ c.user = call[s].user,
         UNCHANGED tabVars
  PROVE  PageInv'
<1> USE DEF BoundaryInv, PageInv, tabVars
<1>1. call'[s] = c /\ \A r \in Slots \ {s} : call'[r] = call[r]
  BY DEF ServerInv
<1>2. ASSUME NEW t \in Tabs PROVE WaitsRight(t)'
  <2>1. WaitsRight(t) /\ awaiting[t] \in Slots \cup {Nothing}
    BY DEF PageTypes
  <2> QED
    BY <1>1, <2>1 DEF WaitsRight, At
<1>3. \A t \in Tabs : WaitsAlone(t)' /\ HoldsRight(t)'
  BY DEF WaitsAlone, HoldsRight
<1> QED
  BY <1>2, <1>3 DEF PageTypes

LEMMA ReplyLeavesPage ==
  ASSUME BoundaryInv, NEW s \in Slots, ~At(s, "free"), NEW a \in Answers, Reply(s, a),
         UNCHANGED tabVars
  PROVE  PageInv'
<1> DEFINE c == IF \E t \in Tabs : awaiting[t] = s THEN Reported(s, a) ELSE Free
<1>1. call' = [call EXCEPT ![s] = c]
  BY DEF Reply, Reported
<1>2. (\E t \in Tabs : awaiting[t] = s) =>
         c.at # "free" /\ c.id = call[s].id /\ c.user = call[s].user
  BY DEF Reported
<1> HIDE DEF c
<1> QED
  BY <1>1, <1>2, ServerLeavesPage

LEMMA ServerPageInv ==
  ASSUME BoundaryInv, NEW s \in Slots,
         \/ RefuseCaller(s) \/ Claim(s) \/ Replay(s)
         \/ \E o \in Outcomes, a \in Answers : Decide(s, o, a)
         \/ \E a \in Answers : RollBack(s, a)
  PROVE  PageInv'
<1>1. ~At(s, "free")
  BY DEF RefuseCaller, Claim, Replay, Decide, RollBack, At
<1>2. UNCHANGED tabVars
  BY DEF RefuseCaller, Claim, Replay, Decide, RollBack
<1>3. CASE Claim(s)
  <2> DEFINE c == [at |-> "running", user |-> call[s].user, id |-> call[s].id,
                   draft |-> call[s].draft]
  <2>1. call' = [call EXCEPT ![s] = c] /\ c.at # "free" /\ c.id = call[s].id
        /\ c.user = call[s].user
    BY <1>3 DEF Claim
  <2> HIDE DEF c
  <2> QED
    BY <1>1, <1>2, <2>1, ServerLeavesPage
<1>4. ASSUME NEW a \in Answers, Reply(s, a)
      PROVE  PageInv'
  BY <1>1, <1>2, <1>4, ReplyLeavesPage
<1>5. ASSUME Replay(s)
      PROVE  \E a \in Answers : Reply(s, a)
  BY <1>1, <1>5, RecordedAnswerIsRecorded DEF Replay, BoundaryInv
<1>6. ASSUME RefuseCaller(s)
      PROVE  \E a \in Answers : Reply(s, a)
  BY <1>6 DEF RefuseCaller, Answers
<1>7. ASSUME NEW a \in Answers, RollBack(s, a) \/ \E o \in Outcomes : Decide(s, o, a)
      PROVE  Reply(s, a)
  BY <1>7 DEF RollBack, Decide
<1> QED
  BY <1>3, <1>4, <1>5, <1>6, <1>7

LEMMA LosePageInv ==
  ASSUME BoundaryInv, NEW s \in Slots, LoseCall(s)
  PROVE  PageInv'
<1> USE DEF BoundaryInv, PageInv
<1>1. /\ call' = [call EXCEPT ![s] = Free]
      /\ awaiting' = [t \in Tabs |-> IF awaiting[t] = s THEN Nothing ELSE awaiting[t]]
      /\ UNCHANGED <<held, draft, minted, past>>
  BY DEF LoseCall
<1>2. \A r \in Slots \ {s} : call'[r] = call[r]
  BY <1>1 DEF ServerInv
<1>3. PageTypes'
  BY <1>1 DEF PageTypes
<1>4. ASSUME NEW t \in Tabs PROVE WaitsRight(t)' /\ WaitsAlone(t)' /\ HoldsRight(t)'
  <2>1. awaiting'[t] = Nothing \/ (awaiting'[t] = awaiting[t] /\ awaiting[t] \in Slots \ {s})
    BY <1>1 DEF PageTypes
  <2>2. WaitsRight(t)'
    BY <1>1, <1>2, <2>1 DEF WaitsRight, At
  <2>3. WaitsAlone(t)'
    BY <1>1, <2>1 DEF WaitsAlone
  <2>4. HoldsRight(t)'
    BY <1>1 DEF HoldsRight
  <2> QED
    BY <2>2, <2>3, <2>4
<1> QED
  BY <1>3, <1>4

LEMMA SubmitInv ==
  ASSUME BoundaryInv, NEW t \in Tabs, NEW s \in Slots, NEW u \in Callers,
         Submit(t, s, u)
  PROVE  ServerInv'
<1>1. PICK i \in Ids : Send(t, s, u, i)
  BY DEF Submit, BoundaryInv, PageInv, PageTypes, Unused
<1> DEFINE c == [at |-> "sent", user |-> u, id |-> i, draft |-> draft[t]]
<1>2. c \in Calls
  BY DEF BoundaryInv, PageInv, PageTypes, Calls
<1>3. call' = [call EXCEPT ![s] = c] /\ UNCHANGED <<command, effect>>
  BY <1>1 DEF Send
<1> QED
  BY <1>2, <1>3, CallMoves DEF BoundaryInv

(* A page sends the id it holds, or one it has just minted.                *)
LEMMA SubmitSends ==
  ASSUME BoundaryInv, NEW t \in Tabs, NEW s \in Slots, NEW u \in Callers, Submit(t, s, u)
  PROVE  \E i \in Ids :
           /\ Send(t, s, u, i)
           /\ held' = [held EXCEPT ![t] = i]
           /\ \/ held[t] = i /\ UNCHANGED minted /\ Happens(t, i, "again")
              \/ /\ held[t] = Nothing /\ minted[i] = Nothing
                 /\ minted' = [minted EXCEPT ![i] = u] /\ UNCHANGED past
<1> USE DEF BoundaryInv, PageInv
<1>1. CASE held[t] # Nothing
  <2>1. held[t] \in Ids /\ Send(t, s, u, held[t]) /\ UNCHANGED <<held, minted>>
        /\ Happens(t, held[t], "again")
    BY <1>1 DEF Submit, PageTypes
  <2>2. held' = [held EXCEPT ![t] = held[t]]
    BY <2>1 DEF PageTypes
  <2> QED
    BY <2>1, <2>2
<1>2. CASE held[t] = Nothing
  <2> DEFINE i == CHOOSE j \in Unused : TRUE
  <2>1. Unused # {} /\ Send(t, s, u, i) /\ held' = [held EXCEPT ![t] = i]
        /\ minted' = [minted EXCEPT ![i] = u] /\ UNCHANGED past
    BY <1>2 DEF Submit
  <2>2. i \in Ids /\ minted[i] = Nothing
    BY <2>1 DEF Unused
  <2> HIDE DEF i
  <2> QED
    BY <1>2, <2>1, <2>2
<1> QED
  BY <1>1, <1>2

LEMMA SubmitPageInv ==
  ASSUME BoundaryInv, NEW t \in Tabs, NEW s \in Slots, NEW u \in Callers, Submit(t, s, u)
  PROVE  PageInv'
<1> USE DEF BoundaryInv, PageInv
<1>1. PICK i \in Ids :
        /\ Send(t, s, u, i)
        /\ held' = [held EXCEPT ![t] = i]
        /\ \/ held[t] = i /\ UNCHANGED minted /\ Happens(t, i, "again")
           \/ /\ held[t] = Nothing /\ minted[i] = Nothing
              /\ minted' = [minted EXCEPT ![i] = u] /\ UNCHANGED past
  BY SubmitSends
<1>2. /\ At(s, "free")
      /\ call' = [call EXCEPT ![s] = [at |-> "sent", user |-> u, id |-> i, draft |-> draft[t]]]
      /\ awaiting' = [awaiting EXCEPT ![t] = s]
      /\ UNCHANGED draft
  BY <1>1 DEF Send
<1>3. call'[s].at = "sent" /\ call'[s].user = u /\ call'[s].id = i
      /\ \A r \in Slots \ {s} : call'[r] = call[r]
  BY <1>2 DEF ServerInv
<1>4. /\ awaiting'[t] = s /\ held'[t] = i
      /\ \A v \in Tabs \ {t} : awaiting'[v] = awaiting[v] /\ held'[v] = held[v]
  BY <1>1, <1>2 DEF PageTypes
<1>5. \A v \in Tabs : awaiting[v] # s
  <2>1. \A v \in Tabs : WaitsRight(v)
    OBVIOUS
  <2> QED
    BY <1>2, <2>1, CommandAssumption DEF WaitsRight
<1>6. t \in Forms \/ u = TabUser[t]
  BY DEF Submit
<1>7. u # Nothing /\ Nothing \notin Ids
  BY CommandAssumption
<1>8. PageTypes'
  <2>1. past' \in [Ids -> SUBSET Happenings]
    BY <1>1, PastGrows DEF PageTypes, Happenings
  <2> QED
    BY <1>1, <1>2, <2>1 DEF PageTypes
<1>9. \A v \in Tabs : WaitsRight(v)'
  <2>1. WaitsRight(t)'
    BY <1>3, <1>4, <1>6 DEF WaitsRight, At
  <2>2. ASSUME NEW v \in Tabs \ {t} PROVE WaitsRight(v)'
    <3>1. WaitsRight(v) /\ awaiting[v] \in (Slots \ {s}) \cup {Nothing}
      BY <1>5 DEF PageTypes
    <3> QED
      BY <1>3, <1>4, <3>1 DEF WaitsRight, At
  <2> QED
    BY <2>1, <2>2
<1>10. \A v \in Tabs : WaitsAlone(v)'
  BY <1>4, <1>5 DEF WaitsAlone
<1>11. \A v \in Tabs : HoldsRight(v)'
  <2>1. HoldsRight(t) /\ HoldsRight(t)'
    BY <1>1, <1>4, <1>6, <1>7 DEF HoldsRight, PageTypes
  <2>2. ASSUME NEW v \in Tabs \ {t} PROVE HoldsRight(v)'
    <3>1. HoldsRight(v) /\ held'[v] = held[v]
      BY <1>4
    <3> QED
      BY <1>1, <3>1 DEF HoldsRight, PageTypes
  <2> QED
    BY <2>1, <2>2
<1> QED
  BY <1>8, <1>9, <1>10, <1>11

(* The page goes on without an answer: what it waited for is forgotten, and*)
(* after a reload the id with it.                                          *)
LEMMA PageAlone ==
  ASSUME BoundaryInv, NEW t \in Tabs,
         (\E d \in Drafts : Edit(t, d)) \/ TimeOut(t) \/ Reload(t)
  PROVE  PageInv'
<1> USE DEF BoundaryInv, PageInv
<1>0. draft' \in [Tabs -> Drafts] /\ past' \in [Ids -> SUBSET Happenings]
  BY PastGrows DEF Edit, TimeOut, Reload, PageTypes, Happenings
<1>1. /\ call' = call /\ minted' = minted
      /\ awaiting' = awaiting \/ awaiting' = [awaiting EXCEPT ![t] = Nothing]
      /\ \/ held' = held
         \/ /\ held[t] # Nothing /\ held' = [held EXCEPT ![t] = Nothing]
            /\ awaiting' = [awaiting EXCEPT ![t] = Nothing]
  BY DEF Edit, TimeOut, Reload
<1>2. PageTypes'
  BY <1>0, <1>1 DEF PageTypes
<1>3. ASSUME NEW v \in Tabs PROVE WaitsRight(v)' /\ WaitsAlone(v)' /\ HoldsRight(v)'
  <2>1. awaiting'[v] = Nothing \/ (awaiting'[v] = awaiting[v] /\ held'[v] = held[v])
    BY <1>1 DEF PageTypes
  <2>2. held'[v] \in {held[v], Nothing}
    BY <1>1 DEF PageTypes
  <2>3. \A x \in Tabs : awaiting'[x] \in {awaiting[x], Nothing}
    BY <1>1 DEF PageTypes
  <2>4. WaitsRight(v)'
    BY <1>1, <2>1 DEF WaitsRight, At
  <2>5. WaitsAlone(v)'
    BY <2>3 DEF WaitsAlone
  <2>6. HoldsRight(v)'
    BY <1>1, <2>2 DEF HoldsRight
  <2> QED
    BY <2>4, <2>5, <2>6
<1> QED
  BY <1>2, <1>3

(* An answer ends the wait, frees its call, and may let go of the id.      *)
LEMMA ReceivePageInv ==
  ASSUME BoundaryInv, NEW t \in Tabs, Receive(t)
  PROVE  PageInv'
<1> USE DEF BoundaryInv, PageInv
<1> DEFINE s == awaiting[t]
<1>1. /\ s # Nothing /\ s \in Slots /\ At(s, "answered")
      /\ held' = IF Definitive(call[s].answer) /\ t \notin Forms
                 THEN [held EXCEPT ![t] = Nothing] ELSE held
      /\ Happens(t, call[s].id, call[s].answer)
      /\ awaiting' = [awaiting EXCEPT ![t] = Nothing]
      /\ call' = [call EXCEPT ![s] = Free]
      /\ UNCHANGED <<draft, minted>>
  BY DEF Receive, PageTypes
<1>2. call[s].id \in Ids /\ call[s].answer \in Answers
  BY <1>1, CallFields DEF ServerInv, At
<1> HIDE DEF s
<1>3. PageTypes'
  <2>1. past' \in [Ids -> SUBSET Happenings]
    BY <1>1, <1>2, PastGrows DEF Happenings
  <2> QED
    BY <1>1, <2>1 DEF PageTypes
<1>4. \A v \in Tabs \ {t} : awaiting[v] # s /\ awaiting'[v] = awaiting[v] /\ held'[v] = held[v]
  BY <1>1 DEF WaitsAlone, PageTypes, s
<1>5. awaiting'[t] = Nothing /\ held'[t] \in {held[t], Nothing}
  BY <1>1 DEF PageTypes
<1>6. \A r \in Slots \ {s} : call'[r] = call[r]
  BY <1>1 DEF ServerInv
<1>7. ASSUME NEW v \in Tabs PROVE WaitsRight(v)' /\ WaitsAlone(v)' /\ HoldsRight(v)'
  <2>1. awaiting'[v] = Nothing
        \/ (awaiting'[v] = awaiting[v] /\ held'[v] = held[v] /\ awaiting[v] \in (Slots \ {s}) \cup {Nothing})
    BY <1>4, <1>5 DEF PageTypes
  <2>2. \A x \in Tabs : awaiting'[x] \in {awaiting[x], Nothing}
    BY <1>4, <1>5
  <2>3. WaitsRight(v)'
    BY <1>6, <2>1 DEF WaitsRight, At
  <2>4. WaitsAlone(v)'
    BY <2>2 DEF WaitsAlone
  <2>5. held'[v] \in {held[v], Nothing}
    BY <1>4, <1>5
  <2>6. HoldsRight(v)'
    BY <1>1, <2>5 DEF HoldsRight
  <2> QED
    BY <2>3, <2>4, <2>6
<1> QED
  BY <1>3, <1>7

-----------------------------------------------------------------------------
(* The history of the ids.                                                 *)

LEMMA HistoryInit == CommandInit => HistoryInv
<1> SUFFICES ASSUME CommandInit PROVE HistoryInv
  OBVIOUS
<1>1. \A s \in Slots : At(s, "free")
  BY DEF CommandInit, At, Free
<1> QED
  BY <1>1 DEF CommandInit, HistoryInv, UnusedIsUnknown, TurnedAwayRight, FirstCallAlone, OneDraft,
              HoldsAlone, Busy, At

(* The server goes on with one call, answers it or loses it, and records   *)
(* nothing.                                                                *)
LEMMA CallGoesOn ==
  ASSUME BoundaryInv, NEW s \in Slots, NEW c, call' = [call EXCEPT ![s] = c],
         UNCHANGED <<held, draft, command, minted, past>>,
         c.at # "free" =>
            /\ c.id = call[s].id /\ c.user = call[s].user /\ c.draft = call[s].draft
            /\ At(s, "sent") \/ At(s, "running"),
         c.at = "answered" =>
            /\ c.answer = "notYours" => command[c.id] # Nothing /\ command[c.id].user # c.user
            /\ c.answer = "conflict" => command[c.id] # Nothing /\ command[c.id].draft # c.draft
  PROVE  HistoryInv'
<1> USE DEF BoundaryInv, HistoryInv
<1>1. call'[s] = c /\ \A r \in Slots \ {s} : call'[r] = call[r]
  BY DEF ServerInv
<1>2. \A r \in Slots, i \in Ids : Busy(r, i)' => Busy(r, i) /\ call'[r].draft = call[r].draft
  BY <1>1 DEF Busy, At
<1>3. UnusedIsUnknown'
  BY <1>2 DEF UnusedIsUnknown
<1>4. \A r \in Slots : TurnedAwayRight(r)'
  BY <1>1 DEF TurnedAwayRight, At
<1>5. ASSUME NEW t \in Tabs PROVE FirstCallAlone(t)'
  <2> SUFFICES ASSUME t \notin Forms, held[t] # Nothing, "again" \notin past[held[t]]
               PROVE  FirstCallAlone(t)'
    BY DEF FirstCallAlone
  <2>1. held[t] \in Ids /\ FirstCallAlone(t)
    BY DEF PageInv, PageTypes
  <2>2. ASSUME NEW r \in Slots, Busy(r, held[t])'
        PROVE  /\ (At(r, "sent") \/ At(r, "running"))' => command[held[t]] = Nothing
               /\ At(r, "answered")' =>
                    /\ call'[r].answer = "unavailable" => command[held[t]] = Nothing
                    /\ call'[r].answer \notin {"notYours", "conflict"}
    <3>1. Busy(r, held[t])
      BY <1>2, <2>1, <2>2
    <3>2. CASE r = s
      <4>1. c.at # "free" /\ c.id = held[t]
        BY <1>1, <2>2, <3>2 DEF Busy, At
      <4>2. command[held[t]] = Nothing
        BY <2>1, <3>1, <3>2, <4>1 DEF FirstCallAlone
      <4> QED
        BY <1>1, <3>2, <4>1, <4>2 DEF At
    <3>3. CASE r # s
      BY <1>1, <2>1, <3>1, <3>3 DEF FirstCallAlone, At
    <3> QED
      BY <3>2, <3>3
  <2>3. \A r, q \in Slots : Busy(r, held[t])' /\ Busy(q, held[t])' => r = q
    BY <1>2, <2>1 DEF FirstCallAlone
  <2> QED
    BY <2>2, <2>3 DEF FirstCallAlone, Busy
<1>6. \A t \in Tabs : OneDraft(t)' /\ HoldsAlone(t)'
  BY <1>2 DEF OneDraft, HoldsAlone, PageInv, PageTypes
<1>7. \A i \in Ids : minted'[i] # Nothing => AccountedFor(i)'
  BY <1>2 DEF AccountedFor, GivenUp
<1> QED
  BY <1>3, <1>4, <1>5, <1>6, <1>7

LEMMA ServerHistory ==
  ASSUME BoundaryInv, NEW s \in Slots,
         \/ RefuseCaller(s) \/ Claim(s) \/ Replay(s) \/ LoseCall(s)
         \/ \E a \in Answers : RollBack(s, a)
  PROVE  HistoryInv'
<1>1. UNCHANGED <<held, draft, command, minted, past>>
  BY DEF RefuseCaller, Claim, Replay, LoseCall, RollBack, tabVars
<1>2. CASE LoseCall(s)
  <2>1. call' = [call EXCEPT ![s] = Free]
    BY <1>2 DEF LoseCall
  <2> QED
    BY <1>1, <2>1, CallGoesOn DEF Free
<1>3. CASE Claim(s)
  <2> DEFINE c == [at |-> "running", user |-> call[s].user, id |-> call[s].id,
                   draft |-> call[s].draft]
  <2>1. call' = [call EXCEPT ![s] = c] /\ At(s, "sent")
    BY <1>3 DEF Claim
  <2> QED
    BY <1>1, <2>1, CallGoesOn
<1>4. ASSUME NEW a, Reply(s, a), At(s, "sent") \/ At(s, "running"),
             a = "notYours" => /\ command[call[s].id] # Nothing
                               /\ command[call[s].id].user # call[s].user,
             a = "conflict" => /\ command[call[s].id] # Nothing
                               /\ command[call[s].id].draft # call[s].draft
      PROVE  HistoryInv'
  <2> DEFINE c == IF \E t \in Tabs : awaiting[t] = s THEN Reported(s, a) ELSE Free
  <2>1. call' = [call EXCEPT ![s] = c]
    BY <1>4 DEF Reply, Reported
  <2>2. c \in {Reported(s, a), Free}
    OBVIOUS
  <2> HIDE DEF c
  <2>3. c.at # "free" => c = Reported(s, a)
    BY <2>2 DEF Free
  <2>4. /\ Reported(s, a).id = call[s].id /\ Reported(s, a).user = call[s].user
        /\ Reported(s, a).draft = call[s].draft /\ Reported(s, a).answer = a
    BY DEF Reported
  <2> QED
    BY <1>1, <1>4, <2>1, <2>3, <2>4, CallGoesOn
<1>5. CASE RefuseCaller(s)
  BY <1>4, <1>5 DEF RefuseCaller
<1>6. CASE \E a \in Answers : RollBack(s, a)
  BY <1>4, <1>6 DEF RollBack
<1>7. CASE Replay(s)
  <2> DEFINE prior == command[call[s].id]
             a == RecordedAnswer(prior, call[s].user, call[s].draft)
  <2>1. At(s, "sent") /\ prior # Nothing /\ Reply(s, a)
    BY <1>7 DEF Replay
  <2>2. prior.answer \in Outcomes
    BY <2>1, CallFields DEF At, BoundaryInv, ServerInv, CommandRows
  <2>3. /\ a = "notYours" => prior.user # call[s].user
        /\ a = "conflict" => prior.draft # call[s].draft
    BY <2>2 DEF RecordedAnswer, Outcomes
  <2> HIDE DEF a
  <2> QED
    BY <1>4, <2>1, <2>3
<1> QED
  BY <1>2, <1>3, <1>5, <1>6, <1>7

(* A decision is recorded of an id that somebody's call is about, so it is *)
(* held or given up, and no other row is touched.                          *)
LEMMA DecideHistory ==
  ASSUME BoundaryInv, NEW s \in Slots, NEW o \in Outcomes, NEW a \in Answers, Decide(s, o, a)
  PROVE  HistoryInv'
<1> USE DEF BoundaryInv, HistoryInv
<1> DEFINE i == call[s].id
<1>1. /\ At(s, "running") /\ a \in {o, "unknown"} /\ Reply(s, a)
      /\ command' = [command EXCEPT ![i] = Decision(s, o)]
      /\ UNCHANGED <<held, draft, minted, past>>
  BY DEF Decide, Decision, tabVars
<1>2. PICK c \in {Reported(s, a), Free} : call' = [call EXCEPT ![s] = c]
  BY <1>1, Replied DEF At
<1>3. i \in Ids /\ Busy(s, i) /\ command[i] = Nothing
  BY <1>1, CallFields DEF ServerInv, OneBodyPerId, Busy, At
<1>4. call'[s] = c /\ \A r \in Slots \ {s} : call'[r] = call[r]
  BY <1>2 DEF ServerInv
<1>5. command'[i] = Decision(s, o) /\ \A j \in Ids \ {i} : command'[j] = command[j]
  BY <1>1, <1>3 DEF ServerInv
<1>6. Decision(s, o) # Nothing /\ Decision(s, o).draft = call[s].draft
  BY <1>1, <1>3, CallFields, CommandAssumption DEF Decision, CommandRows, ServerInv, At
<1>7. \A r \in Slots, j \in Ids : Busy(r, j)' => Busy(r, j) /\ call'[r].draft = call[r].draft
  BY <1>1, <1>2, <1>4 DEF Busy, At, Reported, Free
<1>8. At(s, "answered")' => call'[s].answer \in {o, "unknown"}
  BY <1>1, <1>2, <1>4 DEF At, Reported, Free
<1>9. ~(At(s, "sent") \/ At(s, "running"))'
  BY <1>2, <1>4 DEF At, Reported, Free
<1>10. o \in {"ok", "refused"}
  BY DEF Outcomes
<1> HIDE DEF i
<1>11. UnusedIsUnknown'
  BY <1>1, <1>3, <1>5, <1>7 DEF UnusedIsUnknown
<1>12. ASSUME NEW r \in Slots PROVE TurnedAwayRight(r)'
  <2>1. CASE r = s
    BY <1>8, <1>10, <2>1 DEF TurnedAwayRight
  <2>2. CASE r # s /\ At(r, "answered")
    <3>1. call[r].id \in Ids /\ call'[r] = call[r] /\ TurnedAwayRight(r)
      BY <1>4, <2>2, CallFields DEF ServerInv, At
    <3>2. call[r].id = i => call[r].answer \notin {"notYours", "conflict"}
      BY <1>3, <2>2, <3>1 DEF TurnedAwayRight
    <3> QED
      BY <1>5, <2>2, <3>1, <3>2 DEF TurnedAwayRight
  <2>3. CASE r # s /\ ~At(r, "answered")
    BY <1>4, <2>3 DEF TurnedAwayRight, At
  <2> QED
    BY <2>1, <2>2, <2>3
<1>13. ASSUME NEW t \in Tabs PROVE FirstCallAlone(t)'
  <2> SUFFICES ASSUME t \notin Forms, held[t] # Nothing, "again" \notin past[held[t]]
               PROVE  FirstCallAlone(t)'
    BY <1>1 DEF FirstCallAlone
  <2>1. held[t] \in Ids /\ FirstCallAlone(t) /\ held'[t] = held[t]
    BY <1>1 DEF PageInv, PageTypes
  <2>2. \A r, q \in Slots : Busy(r, held[t])' /\ Busy(q, held[t])' => r = q
    BY <1>7, <2>1 DEF FirstCallAlone
  <2>3. ASSUME NEW r \in Slots, Busy(r, held[t])'
        PROVE  /\ (At(r, "sent") \/ At(r, "running"))' => command'[held[t]] = Nothing
               /\ At(r, "answered")' =>
                    /\ call'[r].answer = "unavailable" => command'[held[t]] = Nothing
                    /\ call'[r].answer \notin {"notYours", "conflict"}
    <3>1. Busy(r, held[t])
      BY <1>7, <2>1, <2>3
    <3>2. CASE r = s
      BY <1>8, <1>9, <1>10, <3>2
    <3>3. CASE r # s
      <4>1. held[t] # i
        BY <1>3, <2>1, <3>1, <3>3 DEF FirstCallAlone
      <4> QED
        BY <1>4, <1>5, <2>1, <3>1, <3>3, <4>1 DEF FirstCallAlone, At
    <3> QED
      BY <3>2, <3>3
  <2> QED
    BY <2>1, <2>2, <2>3 DEF FirstCallAlone, Busy
<1>14. ASSUME NEW t \in Tabs PROVE OneDraft(t)' /\ HoldsAlone(t)'
  <2>1. HoldsAlone(t)'
    BY <1>1 DEF HoldsAlone
  <2> SUFFICES ASSUME t \notin Forms, held[t] # Nothing, "edited" \notin past[held[t]]
               PROVE  OneDraft(t)'
    BY <1>1, <2>1 DEF OneDraft
  <2>2. held[t] \in Ids /\ OneDraft(t)
    BY DEF PageInv, PageTypes
  <2>3. \A r \in Slots : Busy(r, held[t])' => call'[r].draft = draft[t]
    <3>1. \A r \in Slots : Busy(r, held[t])' => Busy(r, held[t]) /\ call'[r].draft = call[r].draft
      BY <1>1, <1>7, <2>2
    <3> QED
      BY <2>2, <3>1 DEF OneDraft
  <2>4. command'[held[t]] # Nothing => command'[held[t]].draft = draft[t]
    BY <1>3, <1>5, <1>6, <2>2 DEF OneDraft, i
  <2> QED
    BY <1>1, <2>3, <2>4 DEF OneDraft, Busy
<1>15. ASSUME NEW j \in Ids, minted'[j] # Nothing PROVE AccountedFor(j)'
  <2>1. AccountedFor(j)
    BY <1>1, <1>15
  <2>2. CASE j = i
    BY <1>1, <1>3, <2>1, <2>2 DEF AccountedFor, GivenUp
  <2>3. CASE j # i
    BY <1>1, <1>5, <1>7, <2>1, <2>3 DEF AccountedFor, GivenUp
  <2> QED
    BY <2>2, <2>3
<1> QED
  BY <1>11, <1>12, <1>13, <1>14, <1>15

(* The page alone: an edit is written down, and so is a reload.            *)
LEMMA HistoryAlone ==
  ASSUME BoundaryInv, NEW t \in Tabs,
         (\E d \in Drafts : Edit(t, d)) \/ TimeOut(t) \/ Reload(t)
  PROVE  HistoryInv'
<1> USE DEF BoundaryInv, HistoryInv, PageInv
<1>1. /\ UNCHANGED <<call, command, minted>>
      /\ \A v \in Tabs \ {t} : held'[v] = held[v] /\ draft'[v] = draft[v]
      /\ held'[t] \in {held[t], Nothing}
      /\ \A i \in Ids : past[i] \subseteq past'[i]
      /\ draft'[t] = draft[t]
         \/ (held[t] \in Ids /\ t \notin Forms => "edited" \in past'[held[t]])
      /\ held'[t] # held[t] => "reloaded" \in past'[held[t]]
  <2>1. CASE TimeOut(t)
    BY <2>1 DEF TimeOut
  <2>2. CASE Reload(t)
    BY <2>2, PastGrows DEF Reload, PageTypes, Happenings
  <2>3. CASE \E d \in Drafts : Edit(t, d)
    BY <2>3, PastGrows DEF Edit, PageTypes, Happenings
  <2> QED
    BY <2>1, <2>2, <2>3
<1>2. \A s \in Slots, i \in Ids : Busy(s, i)' <=> Busy(s, i)
  BY <1>1 DEF Busy, At
<1>3. UnusedIsUnknown' /\ \A s \in Slots : TurnedAwayRight(s)'
  BY <1>1, <1>2 DEF UnusedIsUnknown, TurnedAwayRight, At
<1>4. ASSUME NEW v \in Tabs PROVE FirstCallAlone(v)' /\ OneDraft(v)' /\ HoldsAlone(v)'
  <2>1. \A w \in Tabs : held'[w] \in {held[w], Nothing} /\ held[w] \in Ids \cup {Nothing}
    BY <1>1 DEF PageTypes
  <2>2. HoldsAlone(v)'
    BY <2>1 DEF HoldsAlone
  <2>3. CASE held'[v] = Nothing
    BY <2>2, <2>3 DEF FirstCallAlone, OneDraft
  <2>4. CASE held'[v] # Nothing
    <3>1. held'[v] = held[v] /\ held[v] \in Ids /\ past[held[v]] \subseteq past'[held[v]]
      BY <1>1, <2>1, <2>4
    <3>2. FirstCallAlone(v)'
      <4>1. FirstCallAlone(v)
        OBVIOUS
      <4> QED
        BY <1>1, <2>4, <3>1, <4>1 DEF FirstCallAlone, Busy, At
    <3>3. OneDraft(v)'
      <4>1. OneDraft(v)
        OBVIOUS
      <4> QED
        BY <1>1, <2>4, <3>1, <4>1 DEF OneDraft, Busy, At
    <3> QED
      BY <2>2, <3>2, <3>3
  <2> QED
    BY <2>3, <2>4
<1>5. ASSUME NEW i \in Ids, minted'[i] # Nothing PROVE AccountedFor(i)'
  <2>1. AccountedFor(i)
    BY <1>1, <1>5
  <2>2. GivenUp(i) => GivenUp(i)'
    BY <1>1 DEF GivenUp
  <2>3. ASSUME NEW v \in Tabs, held[v] = i PROVE AccountedFor(i)'
    BY <1>1, <2>3 DEF AccountedFor, GivenUp
  <2> QED
    BY <1>1, <1>2, <2>1, <2>2, <2>3 DEF AccountedFor
<1> QED
  BY <1>3, <1>4, <1>5

(* A fresh id is nobody's and unknown; an id that is sent again is written *)
(* down as such.                                                           *)
LEMMA SubmitHistory ==
  ASSUME BoundaryInv, NEW t \in Tabs, NEW s \in Slots, NEW u \in Callers, Submit(t, s, u)
  PROVE  HistoryInv'
<1> USE DEF BoundaryInv, HistoryInv, PageInv
<1>1. PICK i \in Ids :
        /\ Send(t, s, u, i)
        /\ held' = [held EXCEPT ![t] = i]
        /\ \/ held[t] = i /\ UNCHANGED minted /\ Happens(t, i, "again")
           \/ /\ held[t] = Nothing /\ minted[i] = Nothing
              /\ minted' = [minted EXCEPT ![i] = u] /\ UNCHANGED past
  BY SubmitSends
<1> DEFINE c == [at |-> "sent", user |-> u, id |-> i, draft |-> draft[t]]
<1>2. At(s, "free") /\ call' = [call EXCEPT ![s] = c] /\ UNCHANGED <<draft, command>>
  BY <1>1 DEF Send
<1>3. call'[s] = c /\ \A r \in Slots \ {s} : call'[r] = call[r]
  BY <1>2 DEF ServerInv
<1>4. \A r \in Slots, j \in Ids : Busy(r, j)' <=> (r = s /\ j = i) \/ (r # s /\ Busy(r, j))
  BY <1>3 DEF Busy, At
<1>5. held'[t] = i /\ \A v \in Tabs \ {t} : held'[v] = held[v] /\ held[v] # i
  BY <1>1, CommandAssumption DEF PageTypes, HoldsAlone, HoldsRight
<1>6. \A j \in Ids : past[j] \subseteq past'[j]
  BY <1>1, PastGrows DEF Happenings
<1>7. held[t] # i => command[i] = Nothing /\ \A r \in Slots : ~Busy(r, i)
  BY <1>1 DEF UnusedIsUnknown
<1>8. UnusedIsUnknown'
  <2>1. \A j \in Ids : minted'[j] = Nothing => minted[j] = Nothing /\ j # i
    BY <1>1, CommandAssumption DEF PageTypes, HoldsRight
  <2> QED
    BY <1>2, <1>4, <2>1 DEF UnusedIsUnknown
<1>9. \A r \in Slots : TurnedAwayRight(r)'
  BY <1>2, <1>3 DEF TurnedAwayRight, At
<1>10. FirstCallAlone(t)' /\ OneDraft(t)'
  <2>1. CASE held[t] = i
    <3>1. t \notin Forms => "again" \in past'[i]
      BY <1>1, <2>1, CommandAssumption, PastGrows DEF Happenings
    <3>2. \A r \in Slots : Busy(r, i)' => r = s \/ Busy(r, i)
      BY <1>4
    <3>3. OneDraft(t)
      OBVIOUS
    <3>4. OneDraft(t)'
      BY <1>2, <1>3, <1>5, <1>6, <2>1, <3>2, <3>3 DEF OneDraft, Busy
    <3> QED
      BY <1>5, <3>1, <3>4 DEF FirstCallAlone
  <2>2. CASE held[t] # i
    <3>1. command'[i] = Nothing /\ \A r \in Slots : Busy(r, i)' => r = s
      BY <1>2, <1>4, <1>7, <2>2
    <3>2. call'[s].at = "sent" /\ call'[s].draft = draft'[t]
      BY <1>2, <1>3
    <3> QED
      BY <1>5, <3>1, <3>2 DEF FirstCallAlone, OneDraft, Busy, At
  <2> QED
    BY <2>1, <2>2
<1> HIDE DEF c
<1>11. ASSUME NEW v \in Tabs \ {t} PROVE FirstCallAlone(v)' /\ OneDraft(v)'
  <2>1. held'[v] = held[v] /\ held[v] # i /\ held[v] \in Ids \cup {Nothing}
    BY <1>5 DEF PageTypes
  <2>2. CASE held[v] = Nothing
    BY <2>1, <2>2 DEF FirstCallAlone, OneDraft
  <2>3. CASE held[v] # Nothing
    <3>1. \A r \in Slots : Busy(r, held[v])' => Busy(r, held[v]) /\ call'[r] = call[r]
      BY <1>3, <1>4, <2>1, <2>3
    <3>2. past[held[v]] \subseteq past'[held[v]]
      BY <1>6, <2>1, <2>3
    <3>3. FirstCallAlone(v) /\ OneDraft(v)
      OBVIOUS
    <3>4. FirstCallAlone(v)'
      BY <1>2, <2>1, <3>1, <3>2, <3>3 DEF FirstCallAlone, Busy, At
    <3>5. OneDraft(v)'
      BY <1>2, <2>1, <3>1, <3>2, <3>3 DEF OneDraft, Busy, At
    <3> QED
      BY <3>4, <3>5
  <2> QED
    BY <2>2, <2>3
<1>12. \A v \in Tabs : HoldsAlone(v)'
  BY <1>5 DEF HoldsAlone
<1>13. ASSUME NEW j \in Ids, minted'[j] # Nothing PROVE AccountedFor(j)'
  <2>1. CASE j = i
    BY <1>5, <2>1 DEF AccountedFor
  <2>2. CASE j # i
    <3>1. minted'[j] = minted[j] /\ AccountedFor(j)
      BY <1>1, <1>13, <2>2 DEF PageTypes
    <3>2. ASSUME NEW v \in Tabs, held[v] = j PROVE held'[v] = j
      BY <1>1, <1>5, <2>2, <3>2, CommandAssumption
    <3>3. GivenUp(j) => GivenUp(j)'
      BY <1>6 DEF GivenUp
    <3>4. \A r \in Slots : Busy(r, j)' => Busy(r, j)
      BY <1>4, <2>2
    <3> QED
      BY <1>2, <1>6, <3>1, <3>2, <3>3, <3>4 DEF AccountedFor
  <2> QED
    BY <2>1, <2>2
<1> QED
  BY <1>8, <1>9, <1>10, <1>11, <1>12, <1>13

(* The page lets go of its id: it heard the decision; or the first of its  *)
(* calls was turned away, and nothing will be decided; or a later one was. *)
LEMMA ReceiveHistory ==
  ASSUME BoundaryInv, NEW t \in Tabs, Receive(t)
  PROVE  HistoryInv'
<1> USE DEF BoundaryInv, HistoryInv, PageInv
<1>0. awaiting[t] \in Slots /\ awaiting[t] # Nothing /\ At(awaiting[t], "answered")
  BY DEF Receive, PageTypes
<1>1. PICK s \in Slots, i \in Ids, a \in Answers :
      /\ s = awaiting[t] /\ i = call[s].id /\ a = call[s].answer /\ At(s, "answered")
      /\ held' = IF Definitive(a) /\ t \notin Forms THEN [held EXCEPT ![t] = Nothing] ELSE held
      /\ Happens(t, i, a)
      /\ call' = [call EXCEPT ![s] = Free]
      /\ UNCHANGED <<draft, command, minted>>
  <2>1. call[awaiting[t]].id \in Ids /\ call[awaiting[t]].answer \in Answers
    BY <1>0, CallFields DEF ServerInv, At
  <2> QED
    BY <1>0, <2>1 DEF Receive
<1>2. i = held[t] /\ (t \notin Forms => call[s].user = minted[i])
  <2>1. WaitsRight(t) /\ HoldsRight(t)
    OBVIOUS
  <2> QED
    BY <1>0, <1>1, <2>1, CommandAssumption DEF WaitsRight, HoldsRight
<1>3. Busy(s, i)
  BY <1>1 DEF Busy, At
<1>4. TellsOutcome(s) => command[i] = Recorded(s)
  BY <1>1 DEF ServerInv, AnswersAreRecorded
<1>5. TurnedAwayRight(s)
  OBVIOUS
<1>6. call'[s] = Free /\ \A r \in Slots \ {s} : call'[r] = call[r]
  BY <1>1 DEF ServerInv
<1>7. \A r \in Slots, j \in Ids : Busy(r, j)' => r # s /\ Busy(r, j) /\ call'[r] = call[r]
  BY <1>6 DEF Busy, At, Free
<1>8. /\ \A j \in Ids : past[j] \subseteq past'[j]
      /\ t \notin Forms => a \in past'[i]
  BY <1>1, <1>2, PastGrows DEF Happenings
<1>9. \A v \in Tabs : /\ held'[v] \in {held[v], Nothing} /\ held[v] \in Ids \cup {Nothing}
                      /\ v # t => held'[v] = held[v]
  BY <1>1 DEF PageTypes
<1>10. UnusedIsUnknown'
  BY <1>1, <1>7 DEF UnusedIsUnknown
<1>11. \A r \in Slots : TurnedAwayRight(r)'
  BY <1>1, <1>6 DEF TurnedAwayRight, At, Free
<1>12. ASSUME NEW v \in Tabs PROVE FirstCallAlone(v)' /\ OneDraft(v)' /\ HoldsAlone(v)'
  <2>1. HoldsAlone(v)'
    BY <1>9 DEF HoldsAlone
  <2>2. CASE held'[v] = Nothing
    BY <2>1, <2>2 DEF FirstCallAlone, OneDraft
  <2>3. CASE held'[v] # Nothing
    <3>1. held'[v] = held[v] /\ held[v] \in Ids /\ past[held[v]] \subseteq past'[held[v]]
      BY <1>8, <1>9, <2>3
    <3>2. \A r \in Slots : Busy(r, held[v])' => Busy(r, held[v]) /\ call'[r] = call[r]
      BY <1>7, <3>1
    <3>3. FirstCallAlone(v) /\ OneDraft(v)
      OBVIOUS
    <3>4. FirstCallAlone(v)'
      BY <1>1, <3>1, <3>2, <3>3 DEF FirstCallAlone, Busy, At
    <3>5. OneDraft(v)'
      BY <1>1, <3>1, <3>2, <3>3 DEF OneDraft, Busy, At
    <3> QED
      BY <2>1, <3>4, <3>5
  <2> QED
    BY <2>2, <2>3
<1>13. ASSUME t \notin Forms, a # "unknown" PROVE AccountedFor(i)'
  <2>1. FirstCallAlone(t) /\ OneDraft(t)
    OBVIOUS
  <2>2. CASE a \in Outcomes
    <3>1. command[i] = Recorded(s) /\ Recorded(s).answer = a
      BY <1>1, <1>4, <2>2 DEF TellsOutcome, Recorded
    <3>2. command[i] # Nothing
      <4>1. Recorded(s) \in CommandRows
        BY <1>1, <2>2, CallFields DEF ServerInv, Recorded, CommandRows, At
      <4> QED
        BY <3>1, <4>1, CommandAssumption
    <3> QED
      BY <1>1, <1>8, <1>13, <3>1, <3>2 DEF AccountedFor
  <2>3. CASE a = "notYours"
    BY <1>1, <1>2, <1>5, <1>13, <2>3 DEF TurnedAwayRight, AccountedFor
  <2>4. CASE a = "conflict"
    <3>1. command[i] # Nothing /\ command[i].draft # call[s].draft
      BY <1>1, <1>5, <2>4 DEF TurnedAwayRight
    <3>2. "again" \in past[i]
      BY <1>1, <1>2, <1>3, <1>13, <2>1, <2>4, CommandAssumption DEF FirstCallAlone
    <3>3. "edited" \in past[i]
      BY <1>1, <1>2, <1>3, <1>13, <2>1, <3>1, CommandAssumption DEF OneDraft
    <3> QED
      BY <1>2, <1>8, <1>13, <2>4, <3>2, <3>3 DEF AccountedFor, GivenUp
  <2>5. CASE a = "unavailable"
    <3>1. CASE "again" \in past[i]
      BY <1>2, <1>8, <1>13, <2>5, <3>1 DEF AccountedFor, GivenUp
    <3>2. CASE "again" \notin past[i]
      <4>1. command[i] = Nothing /\ \A r \in Slots : Busy(r, i) => r = s
        BY <1>1, <1>2, <1>3, <1>13, <2>1, <2>5, <3>2, CommandAssumption DEF FirstCallAlone
      <4>2. command'[i] = Nothing /\ \A r \in Slots : ~Busy(r, i)'
        BY <1>1, <1>2, <1>7, <4>1
      <4> QED
        BY <4>2 DEF AccountedFor, Busy
    <3> QED
      BY <3>1, <3>2
  <2> QED
    BY <1>2, <1>13, <2>2, <2>3, <2>4, <2>5 DEF Answers
<1>14. ASSUME NEW j \in Ids, minted'[j] # Nothing PROVE AccountedFor(j)'
  <2>1. AccountedFor(j)
    BY <1>1, <1>14
  <2>2. ASSUME NEW v \in Tabs, held[v] = j PROVE AccountedFor(j)'
    <3>1. CASE held'[v] = held[v]
      BY <2>2, <3>1 DEF AccountedFor
    <3>2. CASE held'[v] # held[v]
      <4>1. v = t /\ t \notin Forms /\ a # "unknown" /\ j = i
        BY <1>1, <1>2, <1>9, <2>2, <3>2 DEF Definitive
      <4> QED
        BY <1>13, <4>1
    <3> QED
      BY <3>1, <3>2
  <2>3. GivenUp(j) => GivenUp(j)'
    BY <1>8 DEF GivenUp
  <2> QED
    BY <1>1, <1>7, <1>8, <2>1, <2>2, <2>3 DEF AccountedFor
<1> QED
  BY <1>10, <1>11, <1>12, <1>14

LEMMA BoundaryInitInv == CommandInit => BoundaryInv
  BY ServerInit, PageInit, HistoryInit DEF BoundaryInv

LEMMA PageStepInv ==
  ASSUME BoundaryInv, NEW t \in Tabs,
         \/ \E d \in Drafts : Edit(t, d)
         \/ \E s \in Slots, u \in Callers : Submit(t, s, u)
         \/ Receive(t) \/ TimeOut(t) \/ Reload(t)
  PROVE  BoundaryInv'
<1>1. CASE (\E d \in Drafts : Edit(t, d)) \/ TimeOut(t) \/ Reload(t)
  <2>1. ServerInv'
    BY <1>1 DEF Edit, TimeOut, Reload, BoundaryInv, ServerInv, AnswersAreRecorded, OneBodyPerId,
                TellsOutcome, Recorded, At
  <2> QED
    BY <1>1, <2>1, PageAlone, HistoryAlone DEF BoundaryInv
<1>2. CASE \E s \in Slots, u \in Callers : Submit(t, s, u)
  BY <1>2, SubmitInv, SubmitPageInv, SubmitHistory DEF BoundaryInv
<1>3. CASE Receive(t)
  <2>1. awaiting[t] \in Slots /\ call' = [call EXCEPT ![awaiting[t]] = Free]
        /\ UNCHANGED <<command, effect>>
    BY <1>3 DEF Receive, BoundaryInv, PageInv, PageTypes
  <2> QED
    BY <1>3, <2>1, LostInv, ReceivePageInv, ReceiveHistory DEF BoundaryInv
<1> QED
  BY <1>1, <1>2, <1>3

LEMMA CallStepInv ==
  ASSUME BoundaryInv, NEW s \in Slots,
         \/ RefuseCaller(s) \/ Claim(s) \/ Replay(s)
         \/ \E o \in Outcomes, a \in Answers : Decide(s, o, a)
         \/ \E a \in Answers : RollBack(s, a)
         \/ LoseCall(s)
  PROVE  BoundaryInv'
<1>1. CASE LoseCall(s)
  BY <1>1, LostInv, LosePageInv, ServerHistory DEF LoseCall, BoundaryInv
<1>2. CASE ~LoseCall(s)
  BY <1>2, SentInv, DecideInv, RollBackInv, ServerPageInv, ServerHistory, DecideHistory
     DEF BoundaryInv
<1> QED
  BY <1>1, <1>2

LEMMA BoundaryStepInv == BoundaryInv /\ [CommandNext]_commandVars => BoundaryInv'
<1> SUFFICES ASSUME BoundaryInv, [CommandNext]_commandVars
             PROVE  BoundaryInv'
  OBVIOUS
<1>1. CASE UNCHANGED commandVars
  BY <1>1 DEF commandVars, BoundaryInv, ServerInv, AnswersAreRecorded, OneBodyPerId, TellsOutcome,
              Recorded, At, PageInv, PageTypes, WaitsRight, WaitsAlone, HoldsRight, HistoryInv,
              UnusedIsUnknown, TurnedAwayRight, FirstCallAlone, OneDraft, HoldsAlone, Busy,
              AccountedFor, GivenUp
<1>2. CASE CommandNext
  BY <1>2, PageStepInv, CallStepInv DEF CommandNext
<1> QED
  BY <1>1, <1>2

LEMMA BoundaryInvariant == CommandSpec => []BoundaryInv
  BY BoundaryInitInv, BoundaryStepInv, PTL DEF CommandSpec

(* The types of pages, calls and records.                                   *)
THEOREM CommandTypesHold == CommandSpec => []CommandTypeOK
<1>1. BoundaryInv => CommandTypeOK
  BY DEF BoundaryInv, ServerInv, PageInv, PageTypes, CommandTypeOK
<1> QED
  BY <1>1, BoundaryInvariant, PTL

(* For any number of pages, calls and losses: a decision is heard by the   *)
(* page that asked, or its id is held there, or was given up in one of the *)
(* three ways the property names (useCommandId, isDefinitiveOutcome).      *)
THEOREM UntoldDecisionIsHeldHolds == CommandSpec => []UntoldDecisionIsHeld
<1>1. BoundaryInv => UntoldDecisionIsHeld
  <2> SUFFICES ASSUME BoundaryInv, NEW i \in Ids, command[i] # Nothing,
                      command[i].user = minted[i]
               PROVE  \/ command[i].answer \in past[i]
                      \/ \E t \in Tabs : held[t] = i
                      \/ GivenUp(i)
    BY DEF UntoldDecisionIsHeld, GivenUp
  <2>1. command[i].user \in Callers
    BY DEF BoundaryInv, ServerInv, CommandRows
  <2>2. minted[i] # Nothing
    BY <2>1, CommandAssumption
  <2> QED
    BY <2>2 DEF BoundaryInv, HistoryInv, AccountedFor
<1> QED
  BY <1>1, BoundaryInvariant, PTL

-----------------------------------------------------------------------------
(* The refinement.                                                         *)

Tells(c) == c.at = "answered" /\ c.answer \in Outcomes
Tale(c)  == [id |-> c.id, user |-> c.user, draft |-> c.draft, answer |-> c.answer]

LEMMA ToldIs ==
  /\ \A x : x \in Told <=> \E s \in Slots : Tells(call[s]) /\ x = Tale(call[s])
  /\ \A x : x \in Told' <=> \E s \in Slots : Tells(call'[s]) /\ x = Tale(call'[s])
  BY DEF Told, Tells, Tale, At

(* What a move of one call does to the outcomes on their way.              *)
LEMMA ToldAfter ==
  ASSUME DOMAIN call = Slots, NEW s \in Slots, NEW c, call' = [call EXCEPT ![s] = c]
  PROVE  /\ ~Tells(call[s]) /\ ~Tells(c) => Told' = Told
         /\ ~Tells(call[s]) /\ Tells(c) => Told' = Told \cup {Tale(c)}
         /\ Tells(call[s]) /\ ~Tells(c) => Told' = Told \/ \E x \in Told : Told' = Told \ {x}
<1>1. call'[s] = c /\ \A r \in Slots \ {s} : call'[r] = call[r]
  OBVIOUS
<1>2. ASSUME ~Tells(call[s]), ~Tells(c) PROVE Told' = Told
  <2>1. \A x : x \in Told' <=> x \in Told
    BY <1>1, <1>2, ToldIs
  <2> QED
    BY <2>1
<1>3. ASSUME ~Tells(call[s]), Tells(c) PROVE Told' = Told \cup {Tale(c)}
  <2>1. \A x : x \in Told' <=> x \in Told \/ x = Tale(c)
    BY <1>1, <1>3, ToldIs
  <2> QED
    BY <2>1
<1>4. ASSUME Tells(call[s]), ~Tells(c)
      PROVE  Told' = Told \/ \E x \in Told : Told' = Told \ {x}
  <2> DEFINE gone == Tale(call[s])
  <2>1. gone \in Told
    BY <1>4, ToldIs
  <2>2. \A x : x \in Told' => x \in Told
    BY <1>1, <1>4, ToldIs
  <2>3. \A x : x \in Told /\ x # gone => x \in Told'
    BY <1>1, ToldIs
  <2> HIDE DEF gone
  <2>4. CASE gone \in Told'
    <3>1. \A x : x \in Told' <=> x \in Told
      BY <2>2, <2>3, <2>4
    <3> QED
      BY <3>1
  <2>5. CASE gone \notin Told'
    <3>1. \A x : x \in Told' <=> x \in Told \ {gone}
      BY <2>2, <2>3, <2>5
    <3>2. Told' = Told \ {gone}
      BY <3>1
    <3> QED
      BY <2>1, <3>2
  <2> QED
    BY <2>4, <2>5
<1> QED
  BY <1>2, <1>3, <1>4

PromiseStep == Boundary!PromiseNext \/ UNCHANGED Boundary!promiseVars

LEMMA QuietStep ==
  ASSUME UNCHANGED <<command, effect>>,
         Told' = Told \/ \E x \in Told : Told' = Told \ {x}
  PROVE  PromiseStep
  BY DEF PromiseStep, Boundary!PromiseNext, Boundary!Part, Boundary!promiseVars

LEMMA TellStep ==
  ASSUME NEW i \in Ids, command[i] # Nothing, Told' = Told \cup {Boundary!Answer(i, command[i])},
         UNCHANGED <<command, effect>>
  PROVE  PromiseStep
  BY DEF PromiseStep, Boundary!PromiseNext, Boundary!Tell

(* The server answers a call it has not decided: a recorded outcome, or    *)
(* nothing the promise speaks of.                                          *)
LEMMA ReplyStep ==
  ASSUME ServerInv, NEW s \in Slots, NEW a \in Answers, At(s, "sent") \/ At(s, "running"),
         Reply(s, a), UNCHANGED <<command, effect>>,
         a \in Outcomes => /\ command[call[s].id] # Nothing
                          /\ command[call[s].id] = [user |-> call[s].user,
                                                    draft |-> call[s].draft, answer |-> a]
  PROVE  PromiseStep
<1>1. ~At(s, "free") /\ ~Tells(call[s])
  BY DEF At, Tells
<1>2. PICK c \in {Reported(s, a), Free} : call' = [call EXCEPT ![s] = c]
  BY <1>1, Replied
<1>3. CASE ~Tells(c)
  BY <1>1, <1>2, <1>3, ToldAfter, QuietStep DEF ServerInv
<1>4. CASE Tells(c)
  <2>1. c = Reported(s, a) /\ a \in Outcomes
    BY <1>2, <1>4 DEF Tells, Reported, Free
  <2>2. Tale(c) = Boundary!Answer(call[s].id, command[call[s].id])
    BY <2>1 DEF Tale, Reported, Boundary!Answer
  <2>3. call[s].id \in Ids
    BY <1>1, CallFields DEF ServerInv
  <2>4. Told' = Told \cup {Tale(c)}
    BY <1>1, <1>2, <1>4, ToldAfter DEF ServerInv
  <2> QED
    BY <2>1, <2>2, <2>3, <2>4, TellStep
<1> QED
  BY <1>3, <1>4

LEMMA DecideStep ==
  ASSUME ServerInv, NEW s \in Slots, NEW o \in Outcomes, NEW a \in Answers, Decide(s, o, a)
  PROVE  PromiseStep
<1> DEFINE i == call[s].id
           d == Decision(s, o)
<1>1. At(s, "running") /\ ~At(s, "free") /\ ~Tells(call[s]) /\ a \in {o, "unknown"} /\ Reply(s, a)
      /\ command' = [command EXCEPT ![i] = d]
      /\ \E n \in Wrote(o) : effect' = [effect EXCEPT ![i] = @ + n]
  BY DEF Decide, At, Decision, Tells
<1>2. i \in Ids /\ d \in Boundary!Decisions /\ d.answer = o
  BY <1>1, CallFields DEF ServerInv, Decision, Boundary!Decisions, Outcomes
<1>3. command[i] = Nothing
  BY <1>1 DEF ServerInv, OneBodyPerId
<1>4. PICK c \in {Reported(s, a), Free} : call' = [call EXCEPT ![s] = c]
  BY <1>1, Replied
<1>5. Told' \in {Told, Told \cup {Boundary!Answer(i, d)}}
  <2>1. CASE ~Tells(c)
    BY <1>1, <1>4, <2>1, ToldAfter DEF ServerInv
  <2>2. CASE Tells(c)
    <3>1. c = Reported(s, a) /\ a = o
      BY <1>1, <1>4, <2>2 DEF Tells, Reported, Free, Outcomes
    <3>2. Tale(c) = Boundary!Answer(i, d)
      BY <3>1 DEF Tale, Reported, Decision, Boundary!Answer
    <3>3. Told' = Told \cup {Tale(c)}
      BY <1>1, <1>4, <2>2, ToldAfter DEF ServerInv
    <3> QED
      BY <3>2, <3>3
  <2> QED
    BY <2>1, <2>2
<1> HIDE DEF i, d
<1>6. PICK n \in Wrote(o) : effect' = [effect EXCEPT ![i] = @ + n]
  BY <1>1
<1>7. n \in 0..1 /\ (d.answer = "ok" => n = 1)
  BY <1>2, <1>6 DEF Wrote
<1>8. Boundary!Record(i, d)
  BY <1>1, <1>3, <1>5, <1>6, <1>7 DEF Boundary!Record
<1> QED
  BY <1>2, <1>8 DEF PromiseStep, Boundary!PromiseNext

(* A page sends a call, or takes one in.                                   *)
LEMMA PageStepKeeps ==
  ASSUME BoundaryInv, NEW t \in Tabs,
         \/ \E d \in Drafts : Edit(t, d)
         \/ \E s \in Slots, u \in Callers : Submit(t, s, u)
         \/ Receive(t) \/ TimeOut(t) \/ Reload(t)
  PROVE  PromiseStep
<1> USE DEF BoundaryInv, ServerInv
<1>1. CASE UNCHANGED <<call, command, effect>>
  <2>1. \A x : x \in Told' <=> x \in Told
    BY <1>1, ToldIs
  <2> QED
    BY <1>1, <2>1, QuietStep
<1>2. CASE \E s \in Slots, u \in Callers : Submit(t, s, u)
  <2>1. PICK s \in Slots, u \in Callers : \E i : Send(t, s, u, i)
    BY <1>2 DEF Submit
  <2>2. PICK i : Send(t, s, u, i)
    BY <2>1
  <2> DEFINE c == [at |-> "sent", user |-> u, id |-> i, draft |-> draft[t]]
  <2>3. call' = [call EXCEPT ![s] = c] /\ At(s, "free") /\ UNCHANGED <<command, effect>>
    BY <2>2 DEF Send
  <2>4. ~Tells(call[s]) /\ ~Tells(c)
    BY <2>3 DEF At, Tells
  <2> HIDE DEF c
  <2> QED
    BY <2>3, <2>4, ToldAfter, QuietStep
<1>3. CASE Receive(t)
  <2>1. awaiting[t] \in Slots /\ call' = [call EXCEPT ![awaiting[t]] = Free]
        /\ UNCHANGED <<command, effect>>
    BY <1>3 DEF Receive, PageInv, PageTypes
  <2>2. ~Tells(Free)
    BY DEF Tells, Free
  <2> QED
    BY <2>1, <2>2, ToldAfter, QuietStep
<1>4. (\E d \in Drafts : Edit(t, d)) \/ TimeOut(t) \/ Reload(t) => UNCHANGED <<call, command, effect>>
  BY DEF Edit, TimeOut, Reload
<1> QED
  BY <1>1, <1>2, <1>3, <1>4

LEMMA CallStepKeeps ==
  ASSUME BoundaryInv, NEW s \in Slots,
         \/ RefuseCaller(s) \/ Claim(s) \/ Replay(s)
         \/ \E o \in Outcomes, a \in Answers : Decide(s, o, a)
         \/ \E a \in Answers : RollBack(s, a)
         \/ LoseCall(s)
  PROVE  PromiseStep
<1> USE DEF BoundaryInv
<1>1. CASE RefuseCaller(s)
  <2>1. "unavailable" \in Answers /\ "unavailable" \notin Outcomes
    BY DEF Answers, Outcomes
  <2> QED
    BY <1>1, <2>1, ReplyStep DEF RefuseCaller
<1>2. CASE Claim(s)
  <2> DEFINE c == [at |-> "running", user |-> call[s].user, id |-> call[s].id,
                   draft |-> call[s].draft]
  <2>1. call' = [call EXCEPT ![s] = c] /\ At(s, "sent") /\ UNCHANGED <<command, effect>>
    BY <1>2 DEF Claim
  <2>2. ~Tells(call[s]) /\ ~Tells(c)
    BY <2>1 DEF At, Tells
  <2> HIDE DEF c
  <2> QED
    BY <2>1, <2>2, ToldAfter, QuietStep DEF ServerInv
<1>3. CASE Replay(s)
  <2>1. At(s, "sent") /\ ~At(s, "free") /\ command[call[s].id] # Nothing
        /\ UNCHANGED <<command, effect>>
    BY <1>3 DEF Replay, At
  <2> DEFINE a == RecordedAnswer(command[call[s].id], call[s].user, call[s].draft)
  <2>2. Reply(s, a)
    BY <1>3 DEF Replay
  <2>3. /\ a \in Answers
        /\ a \in Outcomes => command[call[s].id] = [user |-> call[s].user,
                                                    draft |-> call[s].draft, answer |-> a]
    BY <2>1, RecordedAnswerIsRecorded
  <2> HIDE DEF a
  <2> QED
    BY <2>1, <2>2, <2>3, ReplyStep
<1>4. ASSUME NEW o \in Outcomes, NEW a \in Answers, Decide(s, o, a)
      PROVE  PromiseStep
  BY <1>4, DecideStep
<1>5. ASSUME NEW a \in Answers, RollBack(s, a)
      PROVE  PromiseStep
  <2>1. a \notin Outcomes
    BY <1>5 DEF RollBack, Outcomes
  <2> QED
    BY <1>5, <2>1, ReplyStep DEF RollBack
<1>6. CASE LoseCall(s)
  <2>1. call' = [call EXCEPT ![s] = Free] /\ UNCHANGED <<command, effect>> /\ ~Tells(Free)
    BY <1>6 DEF LoseCall, Tells, Free
  <2> QED
    BY <2>1, ToldAfter, QuietStep DEF ServerInv
<1> QED
  BY <1>1, <1>2, <1>3, <1>4, <1>5, <1>6

LEMMA BoundaryInitMaps == CommandInit => Boundary!PromiseInit
<1> SUFFICES ASSUME CommandInit PROVE Boundary!PromiseInit
  OBVIOUS
<1>1. \A s \in Slots : ~Tells(call[s])
  BY DEF CommandInit, Tells, Free
<1>2. \A x : x \notin Told
  BY <1>1, ToldIs
<1>3. Told = {}
  BY <1>2
<1> QED
  BY <1>3 DEF CommandInit, Boundary!PromiseInit

LEMMA BoundaryStepMaps ==
  BoundaryInv /\ [CommandNext]_commandVars => [Boundary!PromiseNext]_Boundary!promiseVars
<1> SUFFICES ASSUME BoundaryInv, [CommandNext]_commandVars
             PROVE  PromiseStep
  BY DEF PromiseStep
<1>1. CASE UNCHANGED commandVars
  <2>1. UNCHANGED <<call, command, effect>>
    BY <1>1 DEF commandVars
  <2>2. \A x : x \in Told' <=> x \in Told
    BY <2>1, ToldIs
  <2> QED
    BY <2>1, <2>2, QuietStep
<1>2. CASE CommandNext
  BY <1>2, PageStepKeeps, CallStepKeeps DEF CommandNext
<1> QED
  BY <1>1, <1>2

(* The boundary implements its promise, for any number of overlapping,     *)
(* lost and repeated calls: one decision per command id, one effect per    *)
(* accepted decision and none per refused one, and whoever is told an      *)
(* outcome is told the recorded one (runCommand).                          *)
THEOREM CommandPromiseHolds == CommandSpec => CommandPromiseKept
<1> SUFFICES CommandSpec => Boundary!PromiseSpec
  BY DEF CommandPromiseKept
<1> QED
  BY BoundaryInvariant, BoundaryInitMaps, BoundaryStepMaps, PTL
     DEF CommandSpec, Boundary!PromiseSpec

-----------------------------------------------------------------------------
(* The outbox worker.                                                      *)
OutboxRow == [state : States, attempts : 0 .. MaxAttempts, lease : Passes \cup {NoPass}]
Working   == {"handling", "handled", "failed"}

RowRight(e) ==
    /\ row[e].lease # NoPass => row[e].state = "PENDING"
    /\ e \in lapsed => row[e].lease # NoPass
    /\ row[e].state = "DELIVERED" => e \in applied
    /\ e \in Handled /\ row[e].state = "DEAD_LETTER" => row[e].attempts = MaxAttempts

RowsRight ==
    /\ row \in [Events -> OutboxRow]
    /\ lapsed \subseteq Events
    /\ resting \subseteq Events
    /\ \A e \in Events : RowRight(e)

PassRight(w) ==
    /\ step[w] \in Working => current[w] \in Handled
    /\ step[w] \notin Working => current[w] = NoEvent
    /\ step[w] = "handled" => current[w] \in applied

PassesRight ==
    /\ step \in [Passes -> Steps]
    /\ batch \in [Passes -> SUBSET Events]
    /\ current \in [Passes -> Events \cup {NoEvent}]
    /\ applied \subseteq Handled
    /\ \A w \in Passes : PassRight(w)

BoundsKept == crashes \in 0 .. MaxCrashes /\ replays \in 0 .. MaxReplays

OutboxInv == RowsRight /\ PassesRight /\ BoundsKept

LEMMA OutboxInitInv == OutboxInit => OutboxInv
  BY OutboxAssumption
     DEF OutboxInit, OutboxInv, RowsRight, RowRight, PassesRight, PassRight, BoundsKept,
         OutboxRow, Row, States, Steps, Working

(* The rows survive a step that writes one row rightly.                    *)
LEMMA OneRowWritten ==
  ASSUME RowsRight, NEW e \in Events, NEW r \in OutboxRow,
         row' = [row EXCEPT ![e] = r],
         r.lease # NoPass => r.state = "PENDING",
         r.state = "DELIVERED" => e \in applied',
         e \in Handled /\ r.state = "DEAD_LETTER" => r.attempts = MaxAttempts,
         lapsed' = lapsed \ {e}, resting' \subseteq Events, applied \subseteq applied'
  PROVE  RowsRight'
<1>1. row' \in [Events -> OutboxRow] /\ row'[e] = r
  BY DEF RowsRight
<1>2. RowRight(e)'
  BY <1>1 DEF RowRight
<1>3. ASSUME NEW f \in Events, f # e PROVE RowRight(f)'
  BY <1>3 DEF RowRight, RowsRight
<1> QED
  BY <1>1, <1>2, <1>3 DEF RowsRight

LEMMA RowsStay ==
  ASSUME RowsRight, UNCHANGED row, lapsed' \subseteq lapsed, resting' \subseteq Events,
         applied \subseteq applied'
  PROVE  RowsRight'
  BY DEF RowsRight, RowRight

(* The passes survive a step that leaves them where they are.              *)
LEMMA PassesStay ==
  ASSUME PassesRight, UNCHANGED <<step, batch, current, applied>>
  PROVE  PassesRight'
  BY DEF PassesRight, PassRight

(* One pass moves.                                                         *)
LEMMA OnePassMoves ==
  ASSUME PassesRight, NEW w \in Passes, NEW s \in Steps, NEW B \in SUBSET Events,
         NEW c \in Handled \cup {NoEvent},
         step' = [step EXCEPT ![w] = s], batch' = [batch EXCEPT ![w] = B],
         current' = [current EXCEPT ![w] = c],
         s \in Working <=> c # NoEvent,
         s = "handled" => c \in applied',
         applied \subseteq applied', applied' \subseteq Handled
  PROVE  PassesRight'
<1>1. Handled \subseteq Events /\ NoEvent \notin Events
  BY OutboxAssumption
<1>2. /\ step' \in [Passes -> Steps]
      /\ batch' \in [Passes -> SUBSET Events]
      /\ current' \in [Passes -> Events \cup {NoEvent}]
  BY <1>1 DEF PassesRight
<1>3. PassRight(w)'
  BY <1>1 DEF PassRight, PassesRight
<1>4. ASSUME NEW v \in Passes, v # w PROVE PassRight(v)'
  BY <1>4 DEF PassRight, PassesRight
<1> QED
  BY <1>2, <1>3, <1>4 DEF PassesRight

LEMMA RowMade ==
  ASSUME NEW s \in States, NEW n \in 0 .. MaxAttempts, NEW l \in Passes \cup {NoPass}
  PROVE  /\ Row(s, n, l) \in OutboxRow
         /\ Row(s, n, l).state = s /\ Row(s, n, l).attempts = n /\ Row(s, n, l).lease = l
  BY DEF Row, OutboxRow

LEMMA RowFields ==
  ASSUME RowsRight, NEW e \in Events
  PROVE  /\ row[e].state \in States
         /\ row[e].attempts \in 0 .. MaxAttempts
         /\ row[e].lease \in Passes \cup {NoPass}
  BY DEF RowsRight, OutboxRow

(* Time, and an event that is appended.                                    *)
LEMMA TimeInv ==
  ASSUME OutboxInv, NEW e \in Events, AppendEvent(e) \/ Clock(e)
  PROVE  OutboxInv'
<1> USE DEF OutboxInv
<1>1. PassesRight' /\ BoundsKept'
  BY PassesStay DEF AppendEvent, Clock, LeaseLapses, BackoffPasses, passVars, BoundsKept
<1>2. CASE AppendEvent(e)
  <2> DEFINE r == Row("PENDING", row[e].attempts, row[e].lease)
  <2>1. r \in OutboxRow /\ r.state = "PENDING"
    BY RowFields, RowMade DEF States
  <2>2. row' = [row EXCEPT ![e] = r] /\ UNCHANGED <<lapsed, resting, applied>>
    BY <1>2 DEF AppendEvent
  <2>3. e \notin lapsed
    BY <1>2 DEF AppendEvent, RowsRight, RowRight
  <2> HIDE DEF r
  <2>4. lapsed' = lapsed \ {e} /\ resting' \subseteq Events
    BY <2>2, <2>3 DEF RowsRight
  <2> QED
    BY <1>1, <2>1, <2>2, <2>4, OneRowWritten
<1>3. CASE LeaseLapses(e)
  <2>1. lapsed' = lapsed \cup {e} /\ row[e].lease # NoPass /\ UNCHANGED <<row, resting, applied>>
    BY <1>3 DEF LeaseLapses
  <2> QED
    BY <1>1, <2>1 DEF RowsRight, RowRight
<1>4. CASE BackoffPasses(e)
  <2>1. resting' \subseteq Events /\ UNCHANGED <<row, lapsed, applied>>
    BY <1>4 DEF BackoffPasses, RowsRight
  <2> QED
    BY <1>1, <2>1, RowsStay
<1> QED
  BY <1>2, <1>3, <1>4 DEF Clock

LEMMA RecoverInv ==
  ASSUME OutboxInv, NEW w \in Passes, RecoverStaleLeases(w)
  PROVE  OutboxInv'
<1> USE DEF OutboxInv
<1>1. /\ step[w] = "idle" /\ step' = [step EXCEPT ![w] = "claiming"]
      /\ UNCHANGED <<batch, current, applied>>
  BY DEF RecoverStaleLeases
<1>2. PassesRight'
  <2>1. current[w] = NoEvent
    BY <1>1 DEF PassesRight, PassRight, Working
  <2>2. batch' = [batch EXCEPT ![w] = batch[w]] /\ current' = [current EXCEPT ![w] = NoEvent]
    BY <1>1, <2>1 DEF PassesRight
  <2>3. batch[w] \in SUBSET Events /\ applied \subseteq Handled
    BY DEF PassesRight
  <2>4. "claiming" \in Steps /\ "claiming" \notin Working
    BY DEF Steps, Working
  <2> QED
    BY <1>1, <2>2, <2>3, <2>4, OnePassMoves
<1> DEFINE freed(e) == Row("PENDING", row[e].attempts, NoPass)
<1>3. ASSUME NEW e \in Events
      PROVE  freed(e) \in OutboxRow /\ freed(e).state = "PENDING" /\ freed(e).lease = NoPass
  BY RowFields, RowMade DEF States
<1>4. /\ row' = [e \in Events |-> IF row[e].state = "PENDING" /\ e \in lapsed
                                THEN freed(e) ELSE row[e]]
      /\ lapsed' = {} /\ UNCHANGED <<resting, applied>>
  BY DEF RecoverStaleLeases
<1> HIDE DEF freed
<1>5. row' \in [Events -> OutboxRow]
  BY <1>3, <1>4 DEF RowsRight
<1>6. ASSUME NEW e \in Events PROVE RowRight(e)'
  <2>1. row'[e] = row[e] \/ row'[e] = freed(e)
    BY <1>4
  <2> QED
    BY <1>3, <1>4, <2>1 DEF RowsRight, RowRight
<1>7. RowsRight'
  BY <1>4, <1>5, <1>6 DEF RowsRight
<1> QED
  BY <1>2, <1>7 DEF BoundsKept, RecoverStaleLeases

(* A claim takes rows that are due, so PENDING, and counts within the      *)
(* check of the table.                                                     *)
LEMMA ClaimInv ==
  ASSUME OutboxInv, NEW w \in Passes, ClaimBatch(w)
  PROVE  OutboxInv'
<1> USE DEF OutboxInv
<1> DEFINE claimed == Oldest(Due)
           taken(e) == Row("PENDING", row[e].attempts + 1, w)
<1>1. claimed \subseteq Events /\ \A e \in claimed : row[e].state = "PENDING"
  BY DEF Oldest, Due
<1>2. /\ step[w] = "claiming"
      /\ UNCHANGED <<resting, current, applied, crashes, replays>>
      /\ \/ /\ Claimable(claimed)
            /\ row' = [e \in Events |-> IF e \in claimed THEN taken(e) ELSE row[e]]
            /\ lapsed' = lapsed \ claimed
            /\ batch' = [batch EXCEPT ![w] = claimed]
            /\ step' = [step EXCEPT ![w] = "running"]
         \/ step' = [step EXCEPT ![w] = "idle"] /\ UNCHANGED <<row, lapsed, batch>>
  BY DEF ClaimBatch
<1> HIDE DEF claimed
<1>3. /\ current' = [current EXCEPT ![w] = NoEvent]
      /\ batch[w] \in SUBSET Events /\ batch = [batch EXCEPT ![w] = batch[w]]
      /\ applied \subseteq Handled
  BY <1>2 DEF PassesRight, PassRight, Working
<1>4. {"running", "idle"} \subseteq Steps \ Working
  BY DEF Steps, Working
<1>5. PassesRight'
  <2>1. CASE batch' = [batch EXCEPT ![w] = claimed] /\ step' = [step EXCEPT ![w] = "running"]
    BY <1>1, <1>2, <1>3, <1>4, <2>1, OnePassMoves
  <2>2. CASE step' = [step EXCEPT ![w] = "idle"] /\ UNCHANGED batch
    BY <1>2, <1>3, <1>4, <2>2, OnePassMoves
  <2> QED
    BY <1>2, <2>1, <2>2
<1>6. RowsRight'
  <2>1. CASE UNCHANGED <<row, lapsed>>
    BY <1>2, <2>1, RowsStay DEF RowsRight
  <2>2. CASE /\ Claimable(claimed)
             /\ row' = [e \in Events |-> IF e \in claimed THEN taken(e) ELSE row[e]]
             /\ lapsed' = lapsed \ claimed
    <3>1. ASSUME NEW e \in claimed
          PROVE  taken(e) \in OutboxRow /\ taken(e).state = "PENDING" /\ taken(e).lease = w
      <4>1. row[e].attempts + 1 \in 0 .. MaxAttempts
        BY <1>1, <2>2, RowFields, OutboxAssumption DEF Claimable
      <4> QED
        BY <4>1, RowMade DEF States
    <3>2. w # NoPass
      BY OutboxAssumption
    <3> HIDE DEF taken
    <3>3. row' \in [Events -> OutboxRow]
      BY <2>2, <3>1 DEF RowsRight
    <3>4. ASSUME NEW e \in Events PROVE RowRight(e)'
      <4>1. CASE e \in claimed
        BY <1>2, <2>2, <3>1, <3>2, <4>1 DEF RowRight
      <4>2. CASE e \notin claimed
        BY <1>2, <2>2, <4>2 DEF RowsRight, RowRight
      <4> QED
        BY <4>1, <4>2
    <3> QED
      BY <1>2, <2>2, <3>3, <3>4 DEF RowsRight
  <2> QED
    BY <1>2, <2>1, <2>2
<1> QED
  BY <1>2, <1>5, <1>6 DEF BoundsKept

LEMMA MarkUnsupportedInv ==
  ASSUME OutboxInv, NEW w \in Passes, NEW e \in Events, MarkUnsupported(w, e)
  PROVE  OutboxInv'
<1> USE DEF OutboxInv
<1>1. /\ step[w] = "running" /\ e \notin Handled
      /\ batch' = [batch EXCEPT ![w] = batch[w] \ {e}]
      /\ UNCHANGED <<resting, step, current, applied, crashes, replays>>
  BY DEF MarkUnsupported
<1>2. PassesRight'
  <2>1. batch' \in [Passes -> SUBSET Events]
    BY <1>1 DEF PassesRight
  <2> QED
    BY <1>1, <2>1 DEF PassesRight, PassRight
<1> DEFINE r == Row("DEAD_LETTER", row[e].attempts, NoPass)
<1>3. r \in OutboxRow /\ r.state = "DEAD_LETTER" /\ r.lease = NoPass
  BY RowFields, RowMade DEF States
<1>4. \/ UNCHANGED <<row, lapsed>>
      \/ row' = [row EXCEPT ![e] = r] /\ lapsed' = lapsed \ {e}
  BY DEF MarkUnsupported
<1> HIDE DEF r
<1>5. resting' \subseteq Events
  BY <1>1 DEF RowsRight
<1>6. RowsRight'
  <2>1. CASE UNCHANGED <<row, lapsed>>
    BY <1>1, <1>5, <2>1, RowsStay
  <2>2. CASE row' = [row EXCEPT ![e] = r] /\ lapsed' = lapsed \ {e}
    BY <1>1, <1>3, <1>5, <2>2, OneRowWritten
  <2> QED
    BY <1>4, <2>1, <2>2
<1> QED
  BY <1>1, <1>2, <1>6 DEF BoundsKept

(* A handler is called, runs and ends without a look at any row.           *)
LEMMA HandleInv ==
  ASSUME OutboxInv, NEW w \in Passes,
         (\E e \in Events : CallHandler(w, e)) \/ HandlerReturns(w) \/ HandlerFails(w) \/ EndPass(w)
  PROVE  OutboxInv'
<1> USE DEF OutboxInv
<1>1. /\ applied \subseteq applied'
      /\ UNCHANGED <<row, lapsed, resting, crashes, replays>>
  BY DEF CallHandler, HandlerReturns, HandlerFails, EndPass
<1>2. RowsRight'
  BY <1>1, RowsStay DEF RowsRight
<1>3. /\ batch[w] \in SUBSET Events /\ current[w] \in Events \cup {NoEvent}
      /\ batch = [batch EXCEPT ![w] = batch[w]]
      /\ current = [current EXCEPT ![w] = current[w]]
      /\ applied \subseteq Handled
  BY DEF PassesRight
<1>4. Handled \subseteq Events /\ NoEvent \notin Events
  BY OutboxAssumption
<1>5. {"handling", "handled", "failed"} \subseteq Steps \cap Working
      /\ {"running", "idle"} \subseteq Steps \ Working
  BY DEF Steps, Working
<1>6. ASSUME NEW e \in Events, CallHandler(w, e) PROVE PassesRight'
  <2>1. /\ e \in Handled /\ e # NoEvent
        /\ batch' = [batch EXCEPT ![w] = batch[w] \ {e}]
        /\ current' = [current EXCEPT ![w] = e]
        /\ step' = [step EXCEPT ![w] = "handling"]
        /\ applied' = applied
    BY <1>4, <1>6 DEF CallHandler
  <2>2. batch[w] \ {e} \in SUBSET Events
    BY <1>3
  <2> QED
    BY <1>3, <1>5, <2>1, <2>2, OnePassMoves
<1>7. ASSUME HandlerReturns(w) \/ HandlerFails(w) PROVE PassesRight'
  <2>1. current[w] \in Handled /\ current[w] # NoEvent
    BY <1>4, <1>7 DEF HandlerReturns, HandlerFails, PassesRight, PassRight, Working
  <2>2. PICK s \in {"handled", "failed"} :
           /\ step' = [step EXCEPT ![w] = s]
           /\ s = "handled" => current[w] \in applied'
    BY <1>7 DEF HandlerReturns, HandlerFails
  <2>3. applied' \subseteq Handled /\ UNCHANGED <<batch, current>>
    BY <1>3, <1>7, <2>1 DEF HandlerReturns, HandlerFails
  <2> QED
    BY <1>1, <1>3, <1>5, <2>1, <2>2, <2>3, OnePassMoves
<1>8. ASSUME EndPass(w) PROVE PassesRight'
  <2>1. /\ step' = [step EXCEPT ![w] = "idle"] /\ current[w] = NoEvent
        /\ UNCHANGED <<batch, current, applied>>
    BY <1>8 DEF EndPass, PassesRight, PassRight, Working
  <2> QED
    BY <1>3, <1>5, <2>1, OnePassMoves
<1> QED
  BY <1>1, <1>2, <1>6, <1>7, <1>8 DEF BoundsKept

(* A pass reports what came of the event it is at.                         *)
LEMMA ReportedPass ==
  ASSUME OutboxInv, NEW w \in Passes, step[w] \in {"handled", "failed"},
         step' = [step EXCEPT ![w] = "running"], current' = [current EXCEPT ![w] = NoEvent],
         UNCHANGED <<batch, applied>>
  PROVE  PassesRight'
<1>1. batch[w] \in SUBSET Events /\ batch = [batch EXCEPT ![w] = batch[w]]
      /\ applied \subseteq Handled
  BY DEF OutboxInv, PassesRight
<1>2. "running" \in Steps \ Working
  BY DEF Steps, Working
<1> QED
  BY <1>1, <1>2, OnePassMoves DEF OutboxInv

LEMMA MarkDeliveredInv ==
  ASSUME OutboxInv, NEW w \in Passes, MarkDelivered(w)
  PROVE  OutboxInv'
<1> USE DEF OutboxInv
<1> DEFINE e == current[w]
           r == Row("DELIVERED", row[e].attempts, NoPass)
<1>1. step[w] = "handled" /\ UNCHANGED <<resting, applied, crashes, replays>>
  BY DEF MarkDelivered
<1>2. PassesRight'
  BY ReportedPass DEF MarkDelivered
<1>3. e \in Events /\ e \in applied
  BY <1>1, OutboxAssumption DEF PassesRight, PassRight, Working
<1>4. r \in OutboxRow /\ r.state = "DELIVERED" /\ r.lease = NoPass
  BY <1>3, RowFields, RowMade DEF States
<1>5. \/ UNCHANGED <<row, lapsed>>
      \/ row' = [row EXCEPT ![e] = r] /\ lapsed' = lapsed \ {e}
  BY DEF MarkDelivered
<1>6. resting' \subseteq Events
  BY <1>1 DEF RowsRight
<1> HIDE DEF r, e
<1>7. RowsRight'
  <2>1. CASE UNCHANGED <<row, lapsed>>
    BY <1>1, <1>6, <2>1, RowsStay
  <2>2. CASE row' = [row EXCEPT ![e] = r] /\ lapsed' = lapsed \ {e}
    BY <1>1, <1>3, <1>4, <1>6, <2>2, OneRowWritten
  <2> QED
    BY <1>5, <2>1, <2>2
<1> QED
  BY <1>1, <1>2, <1>7 DEF BoundsKept

(* Given up only when the count on the row, whoever raised it, is spent.   *)
LEMMA MarkFailedInv ==
  ASSUME OutboxInv, NEW w \in Passes, MarkFailed(w)
  PROVE  OutboxInv'
<1> USE DEF OutboxInv
<1> DEFINE e == current[w]
           s == IF row[e].attempts >= MaxAttempts THEN "DEAD_LETTER" ELSE "PENDING"
           r == Row(s, row[e].attempts, NoPass)
<1>1. step[w] = "failed" /\ UNCHANGED <<applied, crashes, replays>>
  BY DEF MarkFailed
<1>2. PassesRight'
  BY ReportedPass DEF MarkFailed
<1>3. e \in Events
  BY <1>1, OutboxAssumption DEF PassesRight, PassRight, Working
<1>4. s \in States /\ s # "DELIVERED" /\ (s = "DEAD_LETTER" => row[e].attempts = MaxAttempts)
  <2>1. row[e].attempts \in 0 .. MaxAttempts
    BY <1>3, RowFields
  <2>2. row[e].attempts >= MaxAttempts => row[e].attempts = MaxAttempts
    BY <2>1, OutboxAssumption
  <2> QED
    BY <2>2 DEF States
<1>5. \/ UNCHANGED <<row, lapsed, resting>>
      \/ /\ row' = [row EXCEPT ![e] = r]
         /\ lapsed' = lapsed \ {e}
         /\ resting' = resting \cup {e}
  BY DEF MarkFailed
<1> HIDE DEF s
<1>6. /\ r \in OutboxRow /\ r.state = s /\ r.lease = NoPass
      /\ r.attempts = row[e].attempts
  BY <1>3, <1>4, RowFields, RowMade
<1>7. resting' \subseteq Events
  BY <1>3, <1>5 DEF RowsRight
<1> HIDE DEF r, e
<1>8. RowsRight'
  <2>1. CASE UNCHANGED <<row, lapsed>>
    BY <1>1, <1>7, <2>1, RowsStay
  <2>2. CASE row' = [row EXCEPT ![e] = r] /\ lapsed' = lapsed \ {e}
    BY <1>1, <1>3, <1>4, <1>6, <1>7, <2>2, OneRowWritten
  <2> QED
    BY <1>5, <2>1, <2>2
<1> QED
  BY <1>1, <1>2, <1>8 DEF BoundsKept

(* The death of a pass touches no row; what it had done stays done.        *)
LEMMA CrashInv ==
  ASSUME OutboxInv, NEW w \in Passes, Crash(w)
  PROVE  OutboxInv'
<1> USE DEF OutboxInv
<1>1. /\ step' = [step EXCEPT ![w] = "idle"] /\ batch' = [batch EXCEPT ![w] = {}]
      /\ current' = [current EXCEPT ![w] = NoEvent]
      /\ UNCHANGED <<row, lapsed, resting, applied, replays>>
  BY DEF Crash
<1>2. "idle" \in Steps \ Working /\ applied \subseteq Handled
  BY DEF Steps, Working, PassesRight
<1>3. PassesRight'
  BY <1>1, <1>2, OnePassMoves
<1>4. RowsRight'
  BY <1>1, RowsStay DEF RowsRight
<1>5. BoundsKept'
  BY <1>1, OutboxAssumption DEF Crash, BoundsKept
<1> QED
  BY <1>3, <1>4, <1>5

LEMMA ReplayInv ==
  ASSUME OutboxInv, NEW e \in Events, ReplayDeadLetter(e)
  PROVE  OutboxInv'
<1> USE DEF OutboxInv
<1> DEFINE r == Row("PENDING", 0, NoPass)
<1>1. r \in OutboxRow /\ r.state = "PENDING" /\ r.lease = NoPass
  BY RowMade, OutboxAssumption DEF States
<1>2. /\ row' = [row EXCEPT ![e] = r] /\ lapsed' = lapsed \ {e}
      /\ resting' = resting \ {e}
      /\ UNCHANGED <<step, batch, current, applied, crashes>>
  BY DEF ReplayDeadLetter, passVars
<1> HIDE DEF r
<1>3. RowsRight'
  <2>1. resting' \subseteq Events
    BY <1>2 DEF RowsRight
  <2> QED
    BY <1>1, <1>2, <2>1, OneRowWritten
<1>4. PassesRight'
  BY <1>2, PassesStay
<1>5. BoundsKept'
  BY <1>2, OutboxAssumption DEF ReplayDeadLetter, BoundsKept
<1> QED
  BY <1>3, <1>4, <1>5

LEMMA OutboxStepInv == OutboxInv /\ [OutboxNext]_outboxVars => OutboxInv'
<1> SUFFICES ASSUME OutboxInv, [OutboxNext]_outboxVars
             PROVE  OutboxInv'
  OBVIOUS
<1>1. CASE UNCHANGED outboxVars
  <2>1. RowsRight' /\ PassesRight'
    BY <1>1, PassesStay DEF outboxVars, OutboxInv, RowsRight, RowRight
  <2> QED
    BY <1>1, <2>1 DEF outboxVars, OutboxInv, BoundsKept
<1>2. ASSUME NEW w \in Passes, Progress(w)
      PROVE  OutboxInv'
  BY <1>2, RecoverInv, ClaimInv, MarkUnsupportedInv, HandleInv, MarkDeliveredInv, MarkFailedInv
     DEF Progress
<1>3. CASE OutboxNext
  BY <1>2, <1>3, TimeInv, CrashInv, ReplayInv DEF OutboxNext
<1> QED
  BY <1>1, <1>3

LEMMA OutboxInvariant == OutboxSpec => []OutboxInv
  BY OutboxInitInv, OutboxStepInv, PTL DEF OutboxSpec

(* The types of the tables and of the passes, with the checks the schema   *)
(* makes: a lease is only on a PENDING row, no count exceeds its limit.    *)
THEOREM OutboxTypes == OutboxSpec => []OutboxTypeOK
<1>1. OutboxInv => OutboxTypeOK
  <2> SUFFICES ASSUME OutboxInv PROVE OutboxTypeOK
    OBVIOUS
  <2>1. lapsed \subseteq {e \in Events : row[e].lease # NoPass}
        /\ \A e \in Events : row[e].lease # NoPass => row[e].state = "PENDING"
    BY DEF OutboxInv, RowsRight, RowRight
  <2>2. \A w \in Passes : step[w] \in {"handling", "handled", "failed"} <=> current[w] # NoEvent
    BY OutboxAssumption DEF OutboxInv, PassesRight, PassRight, Working
  <2> QED
    BY <2>1, <2>2 DEF OutboxInv, RowsRight, PassesRight, BoundsKept, OutboxRow, OutboxTypeOK
<1> QED
  BY <1>1, OutboxInvariant, PTL

(* An event recorded as delivered had its effect, however many passes      *)
(* shared it and wherever they died (markDelivered).                       *)
THEOREM DeliveredWasAppliedHolds == OutboxSpec => []DeliveredWasApplied
<1>1. OutboxInv => DeliveredWasApplied
  BY DEF OutboxInv, RowsRight, RowRight, DeliveredWasApplied
<1> QED
  BY <1>1, OutboxInvariant, PTL

(* An event somebody handles is given up only after all its attempts,      *)
(* whichever pass reported the last failure (markFailed).                  *)
THEOREM DeadLetterSpentItsAttemptsHolds == OutboxSpec => []DeadLetterSpentItsAttempts
<1>1. OutboxInv => DeadLetterSpentItsAttempts
  BY OutboxAssumption DEF OutboxInv, RowsRight, RowRight, DeadLetterSpentItsAttempts
<1> QED
  BY <1>1, OutboxInvariant, PTL

(* A delivered event is left alone by every step.                          *)
LEMMA DeliveredStays ==
  ASSUME OutboxInv, OutboxNext, NEW e \in Events, row[e].state = "DELIVERED"
  PROVE  row'[e] = row[e]
<1>1. row[e].lease = NoPass /\ \A w \in Passes : row[e].lease # w
  BY OutboxAssumption DEF OutboxInv, RowsRight, RowRight, OutboxRow
<1>2. ASSUME NEW f \in Events, AppendEvent(f) \/ Clock(f) \/ ReplayDeadLetter(f)
      PROVE  row'[e] = row[e]
  <2>1. UNCHANGED row \/ (f # e /\ \E r : row' = [row EXCEPT ![f] = r])
    BY <1>2 DEF AppendEvent, Clock, LeaseLapses, BackoffPasses, ReplayDeadLetter
  <2> QED
    BY <2>1 DEF OutboxInv, RowsRight
<1>3. ASSUME NEW w \in Passes, RecoverStaleLeases(w)
      PROVE  row'[e] = row[e]
  BY <1>3 DEF RecoverStaleLeases
<1>4. ASSUME NEW w \in Passes, ClaimBatch(w)
      PROVE  row'[e] = row[e]
  <2>1. e \notin Oldest(Due)
    BY DEF Oldest, Due
  <2> QED
    BY <1>4, <2>1 DEF ClaimBatch
<1>5. ASSUME NEW w \in Passes,
             (\E f \in Events : MarkUnsupported(w, f)) \/ MarkDelivered(w) \/ MarkFailed(w)
      PROVE  row'[e] = row[e]
  <2>1. \/ UNCHANGED row
        \/ \E f, r : row[f].lease = w /\ row' = [row EXCEPT ![f] = r]
    BY <1>5 DEF MarkUnsupported, MarkDelivered, MarkFailed
  <2> QED
    BY <1>1, <2>1 DEF OutboxInv, RowsRight
<1>6. ASSUME NEW w \in Passes,
             \/ \E f \in Events : CallHandler(w, f)
             \/ HandlerReturns(w) \/ HandlerFails(w) \/ EndPass(w) \/ Crash(w)
      PROVE  row'[e] = row[e]
  BY <1>6 DEF CallHandler, HandlerReturns, HandlerFails, EndPass, Crash
<1> QED
  BY <1>2, <1>3, <1>4, <1>5, <1>6 DEF OutboxNext, Progress

(* No pass, however late, and no operator moves an event that has been     *)
(* delivered: a pass that lost its lease finds no lease of its own on the  *)
(* row, because a DELIVERED row has none (markFailed, claimBatch).         *)
THEOREM DeliveredIsFinalHolds == OutboxSpec => DeliveredIsFinal
<1>1. OutboxInv /\ [OutboxNext]_outboxVars
        => [\A e \in Events : row[e].state = "DELIVERED" => row'[e] = row[e]]_outboxVars
  BY DeliveredStays
<1> QED
  BY <1>1, OutboxInvariant, PTL DEF OutboxSpec, DeliveredIsFinal

-----------------------------------------------------------------------------
(* What becomes of an event whose last attempt was lost.                   *)

(* No step of a pass that does not hold it, and no clock, touches it: its  *)
(* row keeps its state and count, loses its lease at most, and stays due.  *)
LEMMA LostRowKept ==
  ASSUME OutboxInv, OutboxNext, NEW e \in Events, LastAttemptLost(e)
  PROVE  /\ row'[e].state = "PENDING" /\ row'[e].attempts = MaxAttempts
         /\ row'[e].lease \in {row[e].lease, NoPass}
         /\ e \in Due => e \in Due'
<1>1. row[e].state = "PENDING" /\ row[e].attempts = MaxAttempts /\ row \in [Events -> OutboxRow]
  BY DEF LastAttemptLost, OutboxInv, RowsRight
<1> DEFINE Kept == /\ row'[e] = row[e]
                   /\ e \notin resting => e \notin resting'
                   /\ e \in lapsed => e \in lapsed'
<1>2. ASSUME Kept
      PROVE  /\ row'[e].state = "PENDING" /\ row'[e].attempts = MaxAttempts
             /\ row'[e].lease \in {row[e].lease, NoPass}
             /\ e \in Due => e \in Due'
  BY <1>1, <1>2 DEF Due
<1>3. ASSUME NEW f \in Events, f # e,
             \E r : row' = [row EXCEPT ![f] = r],
             lapsed \ {f} \subseteq lapsed', resting' \subseteq resting \cup {f}
      PROVE  Kept
  BY <1>1, <1>3
<1>4. ASSUME NEW f \in Events, AppendEvent(f) \/ Clock(f) \/ ReplayDeadLetter(f)
      PROVE  Kept
  <2>1. CASE AppendEvent(f) \/ ReplayDeadLetter(f)
    <3>1. f # e
      BY <1>1, <2>1 DEF AppendEvent, ReplayDeadLetter
    <3>2. /\ \E r : row' = [row EXCEPT ![f] = r]
          /\ lapsed \ {f} \subseteq lapsed' /\ resting' \subseteq resting
      BY <2>1 DEF AppendEvent, ReplayDeadLetter
    <3> QED
      BY <1>3, <3>1, <3>2
  <2>2. CASE Clock(f)
    BY <2>2 DEF Clock, LeaseLapses, BackoffPasses
  <2> QED
    BY <1>4, <2>1, <2>2
<1>5. ASSUME NEW w \in Passes, RecoverStaleLeases(w)
      PROVE  /\ row'[e].state = "PENDING" /\ row'[e].attempts = MaxAttempts
             /\ row'[e].lease \in {row[e].lease, NoPass}
             /\ e \in Due => e \in Due'
  <2>1. row'[e] = row[e] \/ row'[e] = Row("PENDING", row[e].attempts, NoPass)
    BY <1>5 DEF RecoverStaleLeases
  <2>2. e \in lapsed => row'[e].lease = NoPass
    BY <1>1, <1>5 DEF RecoverStaleLeases, Row
  <2>3. UNCHANGED resting
    BY <1>5 DEF RecoverStaleLeases
  <2> QED
    BY <1>1, <2>1, <2>2, <2>3 DEF Row, Due
<1>6. ASSUME NEW w \in Passes, ClaimBatch(w)
      PROVE  Kept
  <2>1. Claimable(Oldest(Due)) => e \notin Oldest(Due)
    BY <1>1, OutboxAssumption DEF Claimable
  <2> QED
    BY <1>6, <2>1 DEF ClaimBatch
<1>7. ASSUME NEW w \in Passes,
             (\E f \in Events : MarkUnsupported(w, f)) \/ MarkDelivered(w) \/ MarkFailed(w)
      PROVE  Kept
  <2>1. row[e].lease = w => e \notin batch[w] \cup {current[w]}
    BY DEF LastAttemptLost
  <2>2. step[w] \in {"handled", "failed"} => current[w] \in Events
    BY OutboxAssumption DEF OutboxInv, PassesRight, PassRight, Working
  <2>3. \/ UNCHANGED <<row, lapsed, resting>>
        \/ \E f \in batch[w] \cup {current[w]} :
              /\ f \in Events /\ row[f].lease = w
              /\ \E r : row' = [row EXCEPT ![f] = r]
              /\ lapsed' = lapsed \ {f} /\ resting' \subseteq resting \cup {f}
    BY <1>7, <2>2 DEF MarkUnsupported, MarkDelivered, MarkFailed
  <2> QED
    BY <1>3, <2>1, <2>3
<1>8. ASSUME NEW w \in Passes,
             \/ \E f \in Events : CallHandler(w, f)
             \/ HandlerReturns(w) \/ HandlerFails(w) \/ EndPass(w) \/ Crash(w)
      PROVE  Kept
  BY <1>8 DEF CallHandler, HandlerReturns, HandlerFails, EndPass, Crash
<1> HIDE DEF Kept
<1> QED
  BY <1>2, <1>4, <1>5, <1>6, <1>7, <1>8 DEF OutboxNext, Progress

(* The pass its lease names, if any, does not come back to it.             *)
LEMMA LostHolderGone ==
  ASSUME OutboxInv, OutboxNext, NEW e \in Events, LastAttemptLost(e),
         NEW w \in Passes, row[e].lease = w
  PROVE  e \notin batch'[w] \cup {current'[w]}
<1>1. e \notin batch[w] /\ e # current[w] /\ e # NoEvent
  BY OutboxAssumption DEF LastAttemptLost
<1>2. batch \in [Passes -> SUBSET Events] /\ current \in [Passes -> Events \cup {NoEvent}]
  BY DEF OutboxInv, PassesRight
<1>3. ASSUME NEW f \in Events, AppendEvent(f) \/ Clock(f) \/ ReplayDeadLetter(f)
      PROVE  UNCHANGED <<batch, current>>
  BY <1>3 DEF AppendEvent, Clock, LeaseLapses, BackoffPasses, ReplayDeadLetter, passVars
<1>4. ASSUME NEW v \in Passes, ClaimBatch(v)
      PROVE  e \notin batch'[w] /\ UNCHANGED current
  <2>1. Claimable(Oldest(Due)) => e \notin Oldest(Due)
    BY OutboxAssumption DEF Claimable, LastAttemptLost
  <2>2. UNCHANGED batch \/ (e \notin Oldest(Due) /\ batch' = [batch EXCEPT ![v] = Oldest(Due)])
    BY <1>4, <2>1 DEF ClaimBatch
  <2> QED
    BY <1>1, <1>2, <1>4, <2>2 DEF ClaimBatch
<1>5. ASSUME NEW v \in Passes, NEW f \in Events, CallHandler(v, f)
      PROVE  e \notin batch'[w] /\ e # current'[w]
  BY <1>1, <1>2, <1>5 DEF CallHandler
<1>6. ASSUME NEW v \in Passes, NEW f \in Events, MarkUnsupported(v, f)
      PROVE  e \notin batch'[w] /\ UNCHANGED current
  BY <1>1, <1>2, <1>6 DEF MarkUnsupported
<1>7. ASSUME NEW v \in Passes,
             \/ RecoverStaleLeases(v) \/ HandlerReturns(v) \/ HandlerFails(v)
             \/ EndPass(v) \/ MarkDelivered(v) \/ MarkFailed(v) \/ Crash(v)
      PROVE  /\ batch' \in {batch, [batch EXCEPT ![v] = {}]}
             /\ current' \in {current, [current EXCEPT ![v] = NoEvent]}
  BY <1>7 DEF RecoverStaleLeases, HandlerReturns, HandlerFails, EndPass, MarkDelivered,
              MarkFailed, Crash
<1>8. ASSUME NEW v \in Passes,
             batch' \in {batch, [batch EXCEPT ![v] = {}]},
             current' \in {current, [current EXCEPT ![v] = NoEvent]}
      PROVE  e \notin batch'[w] /\ e # current'[w]
  BY <1>1, <1>2, <1>8
<1> QED
  BY <1>1, <1>3, <1>4, <1>5, <1>6, <1>7, <1>8 DEF OutboxNext, Progress

LEMMA LostStays ==
  ASSUME OutboxInv, OutboxNext, NEW e \in Events, LastAttemptLost(e)
  PROVE  LastAttemptLost(e)'
<1>1. ASSUME NEW w \in Passes, row'[e].lease = w
      PROVE  e \notin batch'[w] \cup {current'[w]}
  <2>1. row[e].lease = w
    BY <1>1, LostRowKept, OutboxAssumption
  <2> QED
    BY <2>1, LostHolderGone
<1> QED
  BY <1>1, LostRowKept DEF LastAttemptLost

(* An event that is lost, due, and among the first BatchLimit of those not *)
(* delivered, whatever is appended or comes back from a backoff.           *)
Undelivered(e) == {f \in Events : f < e /\ row[f].state # "DELIVERED"}

JammedBy(e) ==
    /\ LastAttemptLost(e)
    /\ e \in Due
    /\ Cardinality(Undelivered(e)) < BatchLimit

(* No event is given an attempt; a replay takes counts back, no more.      *)
NothingAttempted == \A f \in Events : row'[f].attempts <= row[f].attempts

LEMMA UndeliveredFinite ==
  ASSUME NEW e \in Events, NEW S \in SUBSET Undelivered(e)
  PROVE  /\ IsFiniteSet(S)
         /\ Cardinality(S) \in Nat /\ Cardinality(Undelivered(e)) \in Nat
         /\ Cardinality(S) <= Cardinality(Undelivered(e))
<1>1. IsFiniteSet(Undelivered(e))
  BY OutboxAssumption, FS_Subset DEF Undelivered
<1> QED
  BY <1>1, FS_Subset, FS_CardinalityType

(* Every claim would take it, and its count refuses the whole batch.       *)
LEMMA JamIsOldest ==
  ASSUME NEW e \in Events, JammedBy(e)
  PROVE  e \in Oldest(Due) /\ ~Claimable(Oldest(Due))
<1> DEFINE S == {f \in Due : f < e}
<1>1. S \subseteq Undelivered(e)
  BY DEF Due, Undelivered
<1> HIDE DEF S
<1>2. Cardinality(S) < BatchLimit
  BY <1>1, UndeliveredFinite, OutboxAssumption DEF JammedBy
<1>3. e \in Oldest(Due)
  BY <1>2 DEF Oldest, JammedBy, S
<1> QED
  BY <1>3, OutboxAssumption DEF Claimable, JammedBy, LastAttemptLost

LEMMA JamStays ==
  ASSUME OutboxInv, OutboxNext, NEW e \in Events, JammedBy(e)
  PROVE  JammedBy(e)'
<1>1. LastAttemptLost(e)' /\ e \in Due'
  BY LostStays, LostRowKept DEF JammedBy
<1>2. ASSUME NEW f \in Events, row[f].state = "DELIVERED"
      PROVE  row'[f].state = "DELIVERED"
  BY <1>2, DeliveredStays
<1>3. Undelivered(e)' \subseteq Undelivered(e)
  BY <1>2 DEF Undelivered
<1>4. Cardinality(Undelivered(e)') < BatchLimit
  BY <1>3, UndeliveredFinite, OutboxAssumption DEF JammedBy
<1> QED
  BY <1>1, <1>4 DEF JammedBy

LEMMA JamAttemptsNothing ==
  ASSUME OutboxInv, OutboxNext, NEW e \in Events, JammedBy(e)
  PROVE  NothingAttempted
<1>1. row \in [Events -> OutboxRow] /\ \A f \in Events : row[f].attempts \in Nat
  BY OutboxAssumption DEF OutboxInv, RowsRight, OutboxRow
<1>2. ASSUME NEW f \in Events, AppendEvent(f) \/ Clock(f) \/ ReplayDeadLetter(f)
      PROVE  NothingAttempted
  BY <1>1, <1>2 DEF NothingAttempted, AppendEvent, Clock, LeaseLapses, BackoffPasses,
                    ReplayDeadLetter, Row
<1>3. ASSUME NEW w \in Passes, RecoverStaleLeases(w)
      PROVE  NothingAttempted
  BY <1>1, <1>3 DEF NothingAttempted, RecoverStaleLeases, Row
<1>4. ASSUME NEW w \in Passes, ClaimBatch(w)
      PROVE  NothingAttempted
  BY <1>1, <1>4, JamIsOldest DEF NothingAttempted, ClaimBatch
<1>5. ASSUME NEW w \in Passes,
             (\E f \in Events : MarkUnsupported(w, f)) \/ MarkDelivered(w) \/ MarkFailed(w)
      PROVE  NothingAttempted
  BY <1>1, <1>5 DEF NothingAttempted, MarkUnsupported, MarkDelivered, MarkFailed, Row
<1>6. ASSUME NEW w \in Passes,
             \/ \E f \in Events : CallHandler(w, f)
             \/ HandlerReturns(w) \/ HandlerFails(w) \/ EndPass(w) \/ Crash(w)
      PROVE  NothingAttempted
  BY <1>1, <1>6 DEF NothingAttempted, CallHandler, HandlerReturns, HandlerFails, EndPass, Crash
<1> QED
  BY <1>2, <1>3, <1>4, <1>5, <1>6 DEF OutboxNext, Progress

(* An event whose last attempt was lost, to a crash or to a lease that     *)
(* lapsed under a slow handler, is lost for good: no later pass delivers   *)
(* it, none gives it up, and replayDeadLetter, which asks for a            *)
(* DEAD_LETTER, cannot reach it (claimBatch, recoverStaleLeases).          *)
THEOREM LostAttemptIsLostForEver ==
  ASSUME NEW e \in Events
  PROVE  OutboxSpec => [](LastAttemptLost(e) => [](LastAttemptLost(e)))
<1>1. OutboxInv /\ LastAttemptLost(e) /\ [OutboxNext]_outboxVars => LastAttemptLost(e)'
  <2>1. CASE OutboxNext
    BY <2>1, LostStays
  <2>2. CASE UNCHANGED outboxVars
    BY <2>2 DEF outboxVars, LastAttemptLost
  <2> QED
    BY <2>1, <2>2
<1> QED
  BY <1>1, OutboxInvariant, PTL DEF OutboxSpec

(* One such event near the head of the queue stops the whole outbox: from  *)
(* then on no event is ever given an attempt again, because the statement  *)
(* of claimBatch that would count it fails for the batch it is part of.    *)
THEOREM JamIsForEver ==
  ASSUME NEW e \in Events
  PROVE  OutboxSpec => [](JammedBy(e) => [](JammedBy(e)) /\ [][NothingAttempted]_outboxVars)
<1>1. OutboxInv /\ JammedBy(e) /\ [OutboxNext]_outboxVars => JammedBy(e)'
  <2>1. CASE OutboxNext
    BY <2>1, JamStays
  <2>2. CASE UNCHANGED outboxVars
    BY <2>2 DEF outboxVars, JammedBy, LastAttemptLost, Due, Undelivered
  <2> QED
    BY <2>1, <2>2
<1>2. OutboxInv /\ JammedBy(e) /\ [OutboxNext]_outboxVars => [NothingAttempted]_outboxVars
  BY JamAttemptsNothing
<1> QED
  BY <1>1, <1>2, OutboxInvariant, PTL DEF OutboxSpec
=============================================================================
