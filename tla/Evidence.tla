------------------------------ MODULE Evidence ------------------------------
(* Evidence files of a deal.  The row is in the database and the bytes are  *)
(* in a storage of their own, which no transaction covers: an upload holds  *)
(* its one-time ticket while it stores and scans, and when its transaction  *)
(* is cut off its bytes may still arrive, on top of those of a retry.       *)
EXTENDS Naturals, FiniteSets

CONSTANTS Objects,  \* evidence rows
          Files,    \* contents that may arrive
          Clean,    \* those the scanner passes
          Unfit,    \* those that are empty or over 5 MB
          Viewers,  \* participants and operators
          Jobs,     \* requests in progress
          Tokens,   \* download capabilities, a bounded pool
          Blank

ASSUME EvidenceAssumption ==
  /\ Clean \subseteq Files /\ Unfit \subseteq Files
  /\ Blank \notin Files \cup Objects \cup Viewers

VARIABLES object,    \* evidence_object rows, each with its upload capability
          stored,    \* the bytes under each storage key
          job,   \* requests in progress
          token,     \* evidence_capability rows of kind DOWNLOAD
          mayRead,   \* who may reach the evidence of the deal now
          served     \* ghost: what each download capability gave out

evidenceVars == <<object, stored, job, token, mayRead, served>>

NoObject == [state |-> "none", ticket |-> "none", hash |-> Blank]
NoToken == [state |-> "none", object |-> Blank, holder |-> Blank]
Quiet == [kind |-> "none"]
NotServed == [times |-> 0, file |-> Blank, to |-> Blank]

EvidenceInit ==
  /\ object = [o \in Objects |-> NoObject]
  /\ stored = [o \in Objects |-> Blank]
  /\ job = [c \in Jobs |-> Quiet]
  /\ token = [k \in Tokens |-> NoToken]
  /\ mayRead = {}
  /\ served = [k \in Tokens |-> NotServed]

(* Participants come with the deal; an operator's role is given and taken.  *)
ChangeAuthority(p) ==
  /\ mayRead' = IF p \in mayRead THEN mayRead \ {p} ELSE mayRead \cup {p}
  /\ UNCHANGED <<object, stored, job, token, served>>

-----------------------------------------------------------------------------
(* A reservation and the one capability to fill it.                         *)
BeginUpload(o) ==
  /\ object[o] = NoObject
  /\ object' = [object EXCEPT ![o] = [state |-> "PENDING", ticket |-> "live", hash |-> Blank]]
  /\ UNCHANGED <<stored, job, token, mayRead, served>>

LapseTicket(o) ==
  /\ object[o].ticket = "live"
  /\ object' = [object EXCEPT ![o].ticket = "lapsed"]
  /\ UNCHANGED <<stored, job, token, mayRead, served>>

(* The capability row and the evidence row are locked until COMMIT.         *)
Filling(c, o) ==
  /\ job[c].kind = "upload"
  /\ job[c].object = o
  /\ job[c].at # "cut"

(* completeUpload: redeemCapability.  A second presentation waits, and      *)
(* finds the ticket spent or, after a rollback, live again.                 *)
RedeemTicket(c, o, f) ==
  /\ job[c] = Quiet
  /\ ~\E d \in Jobs : Filling(d, o)
  /\ object[o].ticket = "live"
  /\ job' = [job EXCEPT ![c] = [kind |-> "upload", object |-> o, file |-> f,
                                        at |-> "redeemed"]]
  /\ UNCHANGED <<object, stored, token, mayRead, served>>

RefuseUnfit(c) ==
  LET q == job[c] IN
  /\ q.kind = "upload" /\ q.at = "redeemed"
  /\ q.file \in Unfit
  /\ object' = [object EXCEPT ![q.object].state = "REJECTED", ![q.object].ticket = "spent"]
  /\ job' = [job EXCEPT ![c] = Quiet]
  /\ UNCHANGED <<stored, token, mayRead, served>>

(* storage.put, which also happens after the transaction has been cut off.  *)
PutBytes(c) ==
  LET q == job[c] IN
  /\ q.kind = "upload" /\ q.at \in {"redeemed", "cut"}
  /\ q.file \notin Unfit
  /\ stored' = [stored EXCEPT ![q.object] = q.file]
  /\ job' = [job EXCEPT ![c] = IF q.at = "cut" THEN Quiet ELSE [q EXCEPT !.at = "put"]]
  /\ UNCHANGED <<object, token, mayRead, served>>

(* QUARANTINED and the verdict on the bytes of this call, in one COMMIT.    *)
CommitVerdict(c) ==
  LET q == job[c] IN
  /\ q.kind = "upload" /\ q.at = "put"
  /\ object' = [object EXCEPT ![q.object] =
                  [state |-> IF q.file \in Clean THEN "READY" ELSE "REJECTED",
                   ticket |-> "spent", hash |-> q.file]]
  /\ job' = [job EXCEPT ![c] = Quiet]
  /\ UNCHANGED <<stored, token, mayRead, served>>

(* The connection is lost, or the process with what it had not yet sent.    *)
CutOff(c, runsOn) ==
  LET q == job[c] IN
  /\ q.kind = "upload" /\ q.at # "cut"
  /\ job' = [job EXCEPT ![c] = IF runsOn /\ q.at = "redeemed"
                                       THEN [q EXCEPT !.at = "cut"] ELSE Quiet]
  /\ UNCHANGED <<object, stored, token, mayRead, served>>

(* The sandbox keeps the bytes in memory, so a restart loses them.          *)
LoseBytes(o) ==
  /\ stored[o] # Blank
  /\ stored' = [stored EXCEPT ![o] = Blank]
  /\ UNCHANGED <<object, job, token, mayRead, served>>

-----------------------------------------------------------------------------
RequestDownload(k, p, o) ==
  /\ token[k] = NoToken
  /\ p \in mayRead
  /\ object[o].state = "READY"
  /\ token' = [token EXCEPT ![k] = [state |-> "live", object |-> o, holder |-> p]]
  /\ UNCHANGED <<object, stored, job, mayRead, served>>

LapseToken(k) ==
  /\ token[k].state = "live"
  /\ token' = [token EXCEPT ![k].state = "lapsed"]
  /\ UNCHANGED <<object, stored, job, mayRead, served>>

(* The principal is resolved with the request, whoever holds the link.      *)
BeginFetch(c, p, k) ==
  /\ job[c] = Quiet
  /\ token[k] # NoToken
  /\ job' = [job EXCEPT ![c] = [kind |-> "fetch", token |-> k, by |-> p,
                                        allowed |-> p \in mayRead]]
  /\ UNCHANGED <<object, stored, token, mayRead, served>>

(* What is in storage is served, whatever put it there.                     *)
MutIntactUnchecked(o) == object[o].hash # Blank

(* The hash is computed again from the bytes that came back.                *)
Intact(o) == stored[o] = object[o].hash

(* Redeemed first, so a refusal spends the capability too.                  *)
FinishFetch(c) ==
  LET q == job[c]
      k == q.token
      o == token[k].object
      redeems == token[k].state = "live"
      serves == /\ redeems
                /\ token[k].holder = q.by
                /\ q.allowed
                /\ object[o].state = "READY"
                /\ stored[o] # Blank
                /\ Intact(o)
  IN /\ q.kind = "fetch"
     /\ token' = IF redeems THEN [token EXCEPT ![k].state = "spent"] ELSE token
     /\ served' = IF serves THEN [served EXCEPT ![k] =
                                    [times |-> @.times + 1, file |-> stored[o], to |-> q.by]]
                  ELSE served
     /\ job' = [job EXCEPT ![c] = Quiet]
     /\ UNCHANGED <<object, stored, mayRead>>

EvidenceNext ==
  \/ \E p \in Viewers : ChangeAuthority(p)
  \/ \E o \in Objects : BeginUpload(o) \/ LapseTicket(o) \/ LoseBytes(o)
  \/ \E k \in Tokens : \/ LapseToken(k)
                       \/ \E p \in Viewers, o \in Objects : RequestDownload(k, p, o)
  \/ \E c \in Jobs :
       \/ \E o \in Objects, f \in Files : RedeemTicket(c, o, f)
       \/ RefuseUnfit(c)
       \/ PutBytes(c)
       \/ CommitVerdict(c)
       \/ \E runsOn \in BOOLEAN : CutOff(c, runsOn)
       \/ \E p \in Viewers, k \in Tokens : BeginFetch(c, p, k)
       \/ FinishFetch(c)

EvidenceSpec == EvidenceInit /\ [][EvidenceNext]_evidenceVars

-----------------------------------------------------------------------------
(* Types of the rows, the requests and the bytes.                           *)
EvidenceTypeOK ==
  /\ object \in [Objects -> [state : {"none", "PENDING", "READY", "REJECTED"},
                             ticket : {"none", "live", "spent", "lapsed"},
                             hash : Files \cup {Blank}]]
  /\ stored \in [Objects -> Files \cup {Blank}]
  /\ job \in [Jobs -> [kind : {"upload"}, object : Objects, file : Files,
                            at : {"redeemed", "put", "cut"}]
                           \cup [kind : {"fetch"}, token : Tokens, by : Viewers,
                                 allowed : BOOLEAN]
                           \cup {Quiet}]
  /\ token \in [Tokens -> [state : {"none", "live", "spent", "lapsed"},
                           object : Objects \cup {Blank}, holder : Viewers \cup {Blank}]]
  /\ mayRead \subseteq Viewers
  /\ served \in [Tokens -> [times : Nat, file : Files \cup {Blank},
                            to : Viewers \cup {Blank}]]

(* Nobody is shown a file that was not judged: what a capability gives out, *)
(* once and to the person it was issued to, is the content the scanner      *)
(* passed for that row, whichever uploads were cut off, repeated or stored  *)
(* late (completeUpload, redeemCapability, fetchEvidence).                  *)
ServedIsWhatWasJudged ==
  \A k \in Tokens : served[k].times > 0 =>
    /\ served[k].times = 1
    /\ served[k].to = token[k].holder
    /\ served[k].file \in Clean
    /\ served[k].file = object[token[k].object].hash
=============================================================================
