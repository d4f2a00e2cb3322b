----------------------------- MODULE Transcript -----------------------------
(* The conversation of a deal.  A message takes its place when it is        *)
(* inserted and becomes visible when its transaction commits, in whatever   *)
(* order; a resend of the same command is the same message.  A reader walks *)
(* the transcript page by page, each page by the cursor of the one before.  *)
EXTENDS Integers, Sequences, FiniteSets, Functions

CONSTANTS Messages,   \* command ids of posts
          Readers,
          PageSize,   \* messages to a page
          MaxSeq      \* bound on the sequence numbers ever drawn

ASSUME TranscriptAssumption ==
  PageSize \in Nat \ {0} /\ MaxSeq \in Nat /\ IsFiniteSet(Messages)

VARIABLES posted,    \* deal_message rows: their place and whether committed
          drawn,     \* the identity sequence
          reader     \* each reader's cursor and what it was shown

transcriptVars == <<posted, drawn, reader>>

NotPosted == [state |-> "none", seq |-> 0]
Visible == {m \in Messages : posted[m].state = "committed"}

TranscriptInit ==
  /\ posted = [m \in Messages |-> NotPosted]
  /\ drawn = 0
  /\ reader = [r \in Readers |-> [at |-> "away", cursor |-> 0, shown |-> <<>>, known |-> {}]]

(* The unique command id makes a resend wait for a post in progress and     *)
(* find a committed one; after a rollback it takes a new place.             *)
PostMessage(m) ==
  /\ posted[m] = NotPosted
  /\ drawn < MaxSeq
  /\ drawn' = drawn + 1
  /\ posted' = [posted EXCEPT ![m] = [state |-> "open", seq |-> drawn + 1]]
  /\ UNCHANGED reader

CommitMessage(m) ==
  /\ posted[m].state = "open"
  /\ posted' = [posted EXCEPT ![m].state = "committed"]
  /\ UNCHANGED <<drawn, reader>>

RollBackMessage(m) ==
  /\ posted[m].state = "open"
  /\ posted' = [posted EXCEPT ![m] = NotPosted]
  /\ UNCHANGED <<drawn, reader>>

-----------------------------------------------------------------------------
OpenRoom(r) ==
  /\ reader[r].at = "away"
  /\ reader' = [reader EXCEPT ![r].at = "reading", ![r].known = Visible]
  /\ UNCHANGED <<posted, drawn>>

RowsAfter(cursor) == {m \in Visible : posted[m].seq > cursor}

(* How many of the rows come up to m, and the rows by that number.          *)
Place(m, rows) == Cardinality({n \in rows : posted[n].seq <= posted[m].seq})
InOrder(rows)  == [k \in 1..Cardinality(rows) |-> CHOOSE m \in rows : Place(m, rows) = k]

Page(rows) == SubSeq(rows, 1, IF Len(rows) < PageSize THEN Len(rows) ELSE PageSize)

(* The cursor taken from the extra row.                                     *)
MutCursorOfExtraRow(rows) == posted[rows[PageSize + 1]].seq

NextCursor(rows) == posted[rows[PageSize]].seq

(* messagesForDeal: one more row than the page tells whether to go on.      *)
ReadPage(r) ==
  LET rows == InOrder(RowsAfter(reader[r].cursor))
      more == Len(rows) > PageSize
  IN /\ reader[r].at = "reading"
     /\ reader' = [reader EXCEPT ![r].shown = @ \o Page(rows),
                                 ![r].cursor = IF more THEN NextCursor(rows) ELSE @,
                                 ![r].at = IF more THEN "reading" ELSE "done"]
     /\ UNCHANGED <<posted, drawn>>

TranscriptNext ==
  \/ \E m \in Messages : PostMessage(m) \/ CommitMessage(m) \/ RollBackMessage(m)
  \/ \E r \in Readers : OpenRoom(r) \/ ReadPage(r)

TranscriptSpec == TranscriptInit /\ [][TranscriptNext]_transcriptVars

-----------------------------------------------------------------------------
(* Types of the messages and the readers.                                   *)
TranscriptTypeOK ==
  /\ posted \in [Messages -> [state : {"none", "open", "committed"}, seq : 0..MaxSeq]]
  /\ drawn \in 0..MaxSeq
  /\ reader \in [Readers -> [at : {"away", "reading", "done"}, cursor : 0..MaxSeq,
                             shown : Seq(Messages), known : SUBSET Messages]]

(* While messages are posted between its pages, a reader is shown every     *)
(* message at most once, in the order of the transcript, and in the end     *)
(* every one that was there when it began (messagesForDeal).  One whose     *)
(* post overlapped the reading may be passed over.                          *)
PagesAreWhole ==
  \A r \in Readers :
    LET shown == reader[r].shown IN
    /\ \A i, j \in DOMAIN shown : i < j => posted[shown[i]].seq < posted[shown[j]].seq
    /\ \A m \in reader[r].known :
         \/ m \in Range(shown)
         \/ reader[r].at = "reading" /\ posted[m].seq > reader[r].cursor
=============================================================================
