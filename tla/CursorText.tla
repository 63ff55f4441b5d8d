------------------------------ MODULE CursorText ------------------------------
(***************************************************************************)
(* The cursor as what it is: a text "sync:time:table:id" that the server   *)
(* writes, the device keeps and the server takes apart again.              *)
(*                                                                         *)
(* Every step is a step of ServerSync with the text beside the time, or    *)
(* the refusal of a text with too many colons, which is one of its aborts. *)
(***************************************************************************)
EXTENDS ServerSync

CONSTANTS
    ColonRows, \* the rows whose id contains a colon
    IdRank     \* the order of the ids; rows of two tables may share one

ASSUME TextAssumption ==
    /\ IsFiniteSet(Rows)
    /\ ColonRows \subseteq Rows
    /\ IdRank \in [Rows -> Nat]
    /\ {"none", "__scope__"} \cap Rows = {}

VARIABLES
    text,  \* the device's last_cursor
    best,  \* the candidate the handler would write its cursor from
    reply  \* the cursor of the last answer to a pull

cvars == <<vars, text, best, reply>>

Empty == [time |-> 0, row |-> None]
formatSyncWatermarkCursor(time) == [time |-> time, row |-> "__scope__"]
Texts == [time : 0..MaxTime, row : Rows \cup {None, "__scope__"}]

(* parseSyncCursor throws unless the text has four parts.                  *)
Parses(c) == c.row \notin ColonRows

(* The text a request carries.                                             *)
Sent == IF kind = "baseline" THEN Empty ELSE text

-----------------------------------------------------------------------------
(***************************************************************************)
(* The latest row: by time, then by id (updatedAt is the time again).      *)
(***************************************************************************)
latestCursorCandidate(r) == [time |-> At(r), row |-> r]
(* Mutant: the rows are ordered by id alone.                               *)
NewerId(c, d) == d = Empty \/ IdRank[c.row] > IdRank[d.row]

Newer(c, d) == c.time > d.time \/ (c.time = d.time /\ IdRank[c.row] > IdRank[d.row])

Candidates(t) == {latestCursorCandidate(r) : r \in {q \in In(t) : srow[q] # None}}

(* The candidate after a table: its latest row, unless one seen before is  *)
(* at least as new.                                                        *)
pickLatestSyncCursorRow(t) ==
    {c \in Candidates(t) : Newer(c, best) /\ \A d \in Candidates(t) : ~Newer(d, c)}

formatCursorOrWatermark == IF best = Empty THEN formatSyncWatermarkCursor(now) ELSE best

-----------------------------------------------------------------------------
CInit == Init /\ text = Empty /\ best = Empty /\ reply = Empty

AnyRequest ==
    /\ SyncNow \/ SyncPull \/ SyncFullResync \/ \E tables \in SUBSET Tables : Reconcile(tables)
    /\ best' = Empty
    /\ UNCHANGED <<text, reply>>

(* A handler parses the cursor before its first statement.                 *)
ReadLatestText ==
    /\ ReadLatest
    /\ tbl = 1 => Parses(Sent)
    /\ \/ best' \in pickLatestSyncCursorRow(tbl)
       \/ pickLatestSyncCursorRow(tbl) = {} /\ best' = best
    /\ UNCHANGED <<text, reply>>

(* Any other throw of a handler's, and a scope it refuses, is an Abort too.*)
Refused ==
    /\ pc = "latest"
    /\ tbl = 1
    /\ ~Parses(Sent)
    /\ Abort
    /\ UNCHANGED <<text, best, reply>>

StatusAnsweredText ==
    /\ StatusAnswered
    /\ best' = IF pc' = "idle" THEN best ELSE Empty
    /\ UNCHANGED <<text, reply>>

PullAnsweredText ==
    /\ PullAnswered
    /\ reply' = formatCursorOrWatermark
    /\ UNCHANGED <<text, best>>

(* Mutant: a cursor is replaced when its text does not parse.              *)
StoreUsable ==
    /\ StoreCursor
    /\ text' = IF kind = "stored" \/ text = Empty \/ ~Parses(text) THEN reply ELSE text
    /\ UNCHANGED <<best, reply>>

StoreCursorText ==
    /\ StoreCursor
    /\ text' = IF kind = "stored" \/ text = Empty THEN reply ELSE text
    /\ UNCHANGED <<best, reply>>

(* What the text is no part of.                                            *)
Elsewhere ==
    /\ \/ Tick \/ Abort \/ ReadRows
       \/ \E p \in Pushes : PushFails(p)
       \/ \E p \in Pushes, rows \in SUBSET Rows : ReceivePush(p, rows)
       \/ \E p \in Pushes, r \in Rows : WriteRow(p, r)
    /\ UNCHANGED <<text, best, reply>>

CNext ==
    \/ Elsewhere \/ AnyRequest \/ Refused
    \/ ReadLatestText \/ StatusAnsweredText \/ PullAnsweredText \/ StoreCursorText

CSpec == CInit /\ [][CNext]_cvars

-----------------------------------------------------------------------------
(***************************************************************************)
(* Properties.                                                             *)
(***************************************************************************)
(* The texts say what ServerSync's numbers do: an empty text is the only   *)
(* one for "from the start", a stored text parses to the cursor, or does   *)
(* not parse, and the row named in an answer is one of the highest time    *)
(* that was read.                                                          *)
CursorTextTells ==
    /\ {text, best, reply} \subseteq Texts
    /\ text.time = cursor /\ best.time = latest /\ reply.time = answer
    /\ \A c \in {text, best, reply} : c.time = 0 <=> c = Empty
    /\ \A c \in {text, best, reply} : c.row = None <=> c = Empty

(* A device whose cursor the server refuses keeps that cursor, whatever it *)
(* calls, and gets rows by pulls from the start only.                      *)
RefusedStaysRefused ==
    [][~Parses(text) => text' = text /\ (have' # have => kind = "baseline")]_cvars

(* A full resync that is offered a cursor the server accepts leaves the    *)
(* device with such a cursor (refuted).                                    *)
ResyncStartsFresh == fresh = "healed" /\ Parses(reply) => Parses(text)
=============================================================================
