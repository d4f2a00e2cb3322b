--------------------------- MODULE CommandPromise ---------------------------
(* What the command boundary promises its callers.  A command id is decided *)
(* at most once and the decision is never replaced.  Its body takes effect  *)
(* with the decision or not at all: exactly once if it is accepted, at most *)
(* once if it is refused, for what a body wrote before it refused stays.    *)
(* Whoever is told the outcome of a command hears the recorded one, for the *)
(* request it made.                                                         *)
EXTENDS Naturals

CONSTANTS Ids, Callers, Drafts, Nothing

VARIABLES decided,    \* what was decided of each command id, or Nothing
          effects,    \* how often the body of the command took effect
          answers     \* the outcomes on their way to a caller

promiseVars == <<decided, effects, answers>>

Decisions == [user : Callers, draft : Drafts, answer : {"ok", "refused"}]

(* What a caller may be told of command i once d is recorded of it.         *)
Answer(i, d) == [id |-> i, user |-> d.user, draft |-> d.draft, answer |-> d.answer]

PromiseInit ==
  /\ decided = [i \in Ids |-> Nothing]
  /\ effects = [i \in Ids |-> 0]
  /\ answers = {}

(* The one who asked may or may not hear of it.                             *)
Record(i, d) ==
  /\ decided[i] = Nothing
  /\ decided' = [decided EXCEPT ![i] = d]
  /\ \E n \in 0..1 : /\ d.answer = "ok" => n = 1
                     /\ effects' = [effects EXCEPT ![i] = @ + n]
  /\ answers' \in {answers, answers \cup {Answer(i, d)}}

Tell(i) ==
  /\ decided[i] # Nothing
  /\ answers' = answers \cup {Answer(i, decided[i])}
  /\ UNCHANGED <<decided, effects>>

(* An answer arrives or is lost.                                            *)
Part ==
  /\ \E gone \in answers : answers' = answers \ {gone}
  /\ UNCHANGED <<decided, effects>>

PromiseNext ==
  \/ \E i \in Ids : (\E d \in Decisions : Record(i, d)) \/ Tell(i)
  \/ Part

PromiseSpec == PromiseInit /\ [][PromiseNext]_promiseVars
=============================================================================
