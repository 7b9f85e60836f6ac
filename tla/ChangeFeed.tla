----------------------------- MODULE ChangeFeed -----------------------------
(***************************************************************************)
(* What a change stream consumer promises to the runs that use it.  The    *)
(* source appends to its log, and a slot remembers how far it was          *)
(* consumed.  A run starts where the slot is, may be handed one file, and  *)
(* moves the slot.  A file has the latest row of each primary key that     *)
(* changed between the start of the run and some position, except rows     *)
(* whose loss was reported; the slot stays at or before that position.  A  *)
(* run that is handed no file may take the slot anywhere.                  *)
(***************************************************************************)
EXTENDS Integers, Sequences

CONSTANTS PK, NULL

VARIABLES
  wal,    \* the log: the primary key of a change, or NULL for anything else
  slot,   \* what is behind it is not sent again
  open,   \* is there a run?
  start,  \* the slot when it began
  file,   \* the rows handed out, or NULL
  upTo,   \* the position the file is complete up to
  lost    \* the rows that were reported as lost

feed == <<wal, slot, open, start, file, upTo, lost>>

Covers(rows, first, last) ==
  \A k \in DOMAIN wal :
    k > first /\ k <= last /\ wal[k] # NULL =>
      \E row \in rows : row.pk = wal[k] /\ row.version >= k

\* Each row is of a change after the first position.
Genuine(rows, first) ==
  \A row \in rows :
    row.version \in DOMAIN wal /\ row.version > first /\ wal[row.version] = row.pk

Change(entry) ==
  /\ wal' = Append(wal, entry)
  /\ UNCHANGED <<slot, open, start, file, upTo, lost>>

Begin ==
  /\ ~open /\ open' = TRUE
  /\ start' = slot /\ file' = NULL /\ upTo' = 0 /\ lost' = {}
  /\ UNCHANGED <<wal, slot>>

\* Rows are lost, and it is said so.
Report ==
  /\ open /\ file = NULL
  /\ lost \subseteq lost' /\ Genuine(lost', start)
  /\ UNCHANGED <<wal, slot, open, start, file, upTo>>

HandOut ==
  /\ open /\ file = NULL
  /\ file' # NULL /\ Genuine(file', start)
  /\ lost \subseteq lost' /\ Genuine(lost', start)
  /\ upTo' >= slot /\ upTo' <= Len(wal)
  /\ Covers(file' \union lost', start, upTo')
  /\ UNCHANGED <<wal, slot, open, start>>

Acknowledge ==
  /\ open
  /\ slot' >= slot /\ slot' <= (IF file = NULL THEN Len(wal) ELSE upTo)
  /\ UNCHANGED <<wal, open, start, file, upTo, lost>>

\* A signal: the run gives up what it was handed.
Interrupted ==
  /\ open
  /\ file' = NULL /\ upTo' = 0
  /\ UNCHANGED <<wal, slot, open, start, lost>>

\* The run returns, or its process dies.
End ==
  /\ open /\ open' = FALSE
  /\ UNCHANGED <<wal, slot, start, file, upTo, lost>>

FeedInit ==
  /\ wal \in Seq(PK \union {NULL}) /\ slot = Len(wal)
  /\ open = FALSE /\ start = slot /\ file = NULL /\ upTo = 0 /\ lost = {}

FeedNext ==
  \/ \E entry \in PK \union {NULL} : Change(entry)
  \/ Begin \/ Report \/ HandOut \/ Acknowledge \/ Interrupted \/ End

FeedSpec == FeedInit /\ [][FeedNext]_feed
=============================================================================
