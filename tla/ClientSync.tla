------------------------------ MODULE ClientSync ------------------------------
(***************************************************************************)
(* The local database of one device and the sync engine that runs on it.   *)
(*                                                                         *)
(* Two actors share one SQLite connection: the application, which edits    *)
(* rows and enqueues outbox entries, and the engine, which pulls, pushes,  *)
(* marks and garbage-collects.  Every SQL statement (or batch) is atomic,  *)
(* nothing larger is, so each one is an action here.  The server is the    *)
(* environment: it may answer anything its protocol allows, or nothing.    *)
(*                                                                         *)
(* Data is reduced to what synchronisation looks at.  A row is its         *)
(* updated_at stamp, whether its content is a local edit, its is_synced    *)
(* flag and its deletion mark.  The partial unique index of sync_outbox    *)
(* lets a row have at most one pending entry, so the pending entries are a *)
(* function from rows to entry ids; 0 is "no pending entry".               *)
(***************************************************************************)
EXTENDS Naturals, FiniteSets

CONSTANTS
    Rows,          \* keys of the synced rows, over all tables
    NumTables,     \* tables are 1..NumTables, in upsert_order
    TableOf,       \* the table of each row
    MaxClock,      \* bound: number of local edits (their stamps and entry ids)
    MaxCursor,     \* bound: server cursors; cursor 0 is the empty string
    InteractiveTx, \* TRUE: the app also writes through db.transaction(),
                   \*       one run_sql call per statement
    WriterClears,  \* TRUE: the app's write callback sets isSynced to false
    KeepsRecords   \* FALSE: the server cleans its idempotency records up
                   \*        before an entry is sent again

ASSUME ClientAssumption ==
    /\ NumTables \in Nat \ {0}
    /\ TableOf \in [Rows -> 1..NumTables]
    /\ MaxClock \in Nat
    /\ MaxCursor \in Nat
    /\ InteractiveTx \in BOOLEAN
    /\ WriterClears \in BOOLEAN
    /\ KeepsRecords \in BOOLEAN

VARIABLES
    row,        \* the synced tables, by key
    pending,    \* id of the row's outbox entry with synced_at NULL, or 0
    synced,     \* ids of outbox entries with synced_at set, not yet purged
    cursor,     \* sync_cursors.last_cursor
    edit,       \* history: stamp of the row's latest local edit, 0 once the
                \*          server's version has replaced it
    raced,      \* history: edits marked synced with an entry that was in
                \*          flight when they were made
    through,    \* history: cursors whose answer this database has gone through
    tx,         \* the application's open transaction, or NoTx
    clock,      \* stamp of the latest local edit
    settled,    \* history: ids of entries answered with 2xx, or quarantined
    told,       \* history: stamps of the edits the server has answered for
    recorded,   \* history: units of the chunks the server has processed, with
                \*          an answer that arrived or was lost
    torn,       \* history: cursors whose answer was being applied when the
                \*          application rolled back
    pc,         \* the engine's next statement
    mode,       \* what the engine is doing; when idle, how it ended
    tbl,        \* the table a per-table loop of the engine has reached
    pull,       \* the pull being made
    push        \* the push being made

dbVars     == <<row, pending, synced, cursor, edit, raced, through>>
appVars    == <<tx, clock>>
history    == <<settled, told, recorded, torn>>
engineVars == <<pc, mode, tbl, pull, push>>
vars       == <<dbVars, appVars, history, engineVars>>

Tables == 1..NumTables
Stamps == 0..MaxClock
Ids    == 1..MaxClock

RowState == [st: {"absent", "live", "deleted"}, upd: Stamps, mine: BOOLEAN, flag: BOOLEAN]
NoRow == [st |-> "absent", upd |-> 0, mine |-> FALSE, flag |-> FALSE]

(* The row's latest edit stands and the server has not answered for it.    *)
Waiting(r) == edit[r] # 0 /\ edit[r] \notin told \cup raced

Database == [row: [Rows -> RowState], pending: [Rows -> Ids \cup {0}],
             synced: SUBSET Ids, cursor: 0..MaxCursor,
             edit: [Rows -> Stamps], raced: SUBSET Ids, through: SUBSET (1..MaxCursor)]
CurrentDb == [row |-> row, pending |-> pending, synced |-> synced,
              cursor |-> cursor, edit |-> edit, raced |-> raced, through |-> through]

NoTx == [open |-> FALSE]
OpenTx == [open: {TRUE}, saved: Database, half: SUBSET Rows]

(* One row of a push: the row's state when its table was read, and the id  *)
(* of the outbox entry it answers for.                                     *)
Units == [row: Rows, id: Ids, upd: Stamps, mine: BOOLEAN]
NoPush == [units |-> {}, accepted |-> {}, rejected |-> {}, missing |-> {}]

(* One row of a pull response: nothing, an upsert with its updated_at, or  *)
(* a deleted id.                                                           *)
NoChange == [do |-> "none", upd |-> 0]
Changes == [do: {"none", "delete"}, upd: {0}] \cup [do: {"upsert"}, upd: Stamps]
NoChanges == [r \in Rows |-> NoChange]
NoPull == [kind |-> "stored", filter |-> {}, second |-> FALSE,
           changes |-> NoChanges, left |-> {}, cursor |-> 0]

Init ==
    /\ row = [r \in Rows |-> NoRow]
    /\ pending = [r \in Rows |-> 0]
    /\ synced = {}
    /\ cursor = 0
    /\ edit = [r \in Rows |-> 0]
    /\ raced = {}
    /\ through = {}
    /\ tx = NoTx
    /\ clock = 0
    /\ settled = {}
    /\ told = {}
    /\ recorded = {}
    /\ torn = {}
    /\ pc = "idle"
    /\ mode = "done"
    /\ tbl = 1
    /\ pull = NoPull
    /\ push = NoPush

-----------------------------------------------------------------------------
(***************************************************************************)
(* The application.                                                        *)
(***************************************************************************)

(* The write callback of writeLocalChange: an insert gets is_synced = 0    *)
(* from the column default, an update only if the callback sets it.        *)
Edited(r, st) ==
    [st |-> st, upd |-> clock + 1, mine |-> TRUE,
     flag |-> ~WriterClears /\ row[r].st # "absent" /\ row[r].flag]

(* enqueueChange: a new entry, or the pending one kept under its id.       *)
Enqueued(r, id) == IF pending[r] = 0 THEN id ELSE pending[r]

(* writeLocalChange with no statement of the engine between the row write  *)
(* and the outbox insert.                                                  *)
WriteLocalChange(r, st) ==
    /\ ~tx.open
    /\ clock < MaxClock
    /\ clock' = clock + 1
    /\ row' = [row EXCEPT ![r] = Edited(r, st)]
    /\ pending' = [pending EXCEPT ![r] = Enqueued(r, clock + 1)]
    /\ edit' = [edit EXCEPT ![r] = clock + 1]
    /\ UNCHANGED <<synced, cursor, raced, through, tx, history, engineVars>>

(* writeTransaction: BEGIN, then each statement its own run_sql command.   *)
BeginTx ==
    /\ InteractiveTx
    /\ ~tx.open
    /\ tx' = [open |-> TRUE, saved |-> CurrentDb, half |-> {}]
    /\ UNCHANGED <<dbVars, clock, history, engineVars>>

TxWrite(r, st) ==
    /\ tx.open
    /\ tx.half = {}
    /\ clock < MaxClock
    /\ clock' = clock + 1
    /\ row' = [row EXCEPT ![r] = Edited(r, st)]
    /\ edit' = [edit EXCEPT ![r] = clock + 1]
    /\ tx' = [tx EXCEPT !.half = {r}]
    /\ UNCHANGED <<pending, synced, cursor, raced, through, history, engineVars>>

TxEnqueue(r) ==
    /\ tx.open
    /\ r \in tx.half
    /\ pending' = [pending EXCEPT ![r] = Enqueued(r, clock)]
    /\ raced' = IF row[r].mine /\ ~row[r].flag THEN raced \ {clock} ELSE raced
    /\ tx' = [tx EXCEPT !.half = {}]
    /\ UNCHANGED <<row, synced, cursor, edit, through, clock, history, engineVars>>

CommitTx ==
    /\ tx.open
    /\ tx.half = {}
    /\ tx' = NoTx
    /\ UNCHANGED <<dbVars, clock, history, engineVars>>

(* ROLLBACK undoes every statement since BEGIN, whoever issued it.         *)
RestoreSaved ==
    /\ row' = tx.saved.row
    /\ pending' = tx.saved.pending
    /\ synced' = tx.saved.synced
    /\ cursor' = tx.saved.cursor
    /\ edit' = tx.saved.edit
    /\ raced' = tx.saved.raced
    /\ through' = tx.saved.through

RollbackTx ==
    /\ tx.open
    /\ RestoreSaved
    /\ tx' = NoTx
    /\ torn' = IF pc \in {"fallback", "cursor"} THEN torn \cup ({pull.cursor} \ {0}) ELSE torn
    /\ UNCHANGED <<clock, settled, told, recorded, engineVars>>

(* The standing edits of these rows are marked without having been sent.   *)
RacedBy(R) == raced \cup ({edit[r] : r \in R} \ {0})

(* Rows written whose outbox statement has not run.                        *)
HalfWritten == IF tx.open THEN tx.half ELSE {}

-----------------------------------------------------------------------------
(***************************************************************************)
(* Starting a sync, and what follows each part of it.                      *)
(***************************************************************************)
StartPull(kind, tables, second) ==
    /\ pc' = "pull"
    /\ pull' = [NoPull EXCEPT !.kind = kind, !.filter = tables, !.second = second]
    /\ UNCHANGED tbl

StartPush ==
    /\ pc' = "read"
    /\ tbl' = 1
    /\ push' = NoPush

StartGc ==
    /\ pc' = "gc"
    /\ tbl' = 1

EndAs(outcome) ==
    /\ pc' = "idle"
    /\ mode' = outcome
    /\ tbl' = 1
    /\ pull' = NoPull
    /\ push' = NoPush

EndSync == EndAs("done")

(* Mutant: dirtiness is read from the rows, not from the outbox.           *)
SyncNowByFlag ==
    /\ pc = "idle"
    /\ pc' = "status"
    /\ mode' = IF cursor = 0 THEN "fullResync"
               ELSE IF \E r \in Rows : row[r].mine /\ ~row[r].flag THEN "dirty" ELSE "clean"
    /\ UNCHANGED <<dbVars, appVars, history, tbl, pull, push>>

(* get_sync_local_state, the first thing sync_now does.                    *)
SyncNow ==
    /\ pc = "idle"
    /\ pc' = "status"
    /\ mode' = IF cursor = 0 THEN "fullResync"
               ELSE IF \E r \in Rows : pending[r] # 0 THEN "dirty" ELSE "clean"
    /\ UNCHANGED <<dbVars, appVars, history, tbl, pull, push>>

SyncPush ==
    /\ pc = "idle"
    /\ mode' = "push"
    /\ StartPush
    /\ UNCHANGED <<dbVars, appVars, history, pull>>

SyncPull ==
    /\ pc = "idle"
    /\ mode' = "pull"
    /\ StartPull("stored", Tables, FALSE)
    /\ UNCHANGED <<dbVars, appVars, history, push>>

SyncFullResync ==
    /\ pc = "idle"
    /\ mode' = "fullResync"
    /\ StartPull("baseline", Tables, FALSE)
    /\ UNCHANGED <<dbVars, appVars, history, push>>

(* The status response picks the mode; an empty changedTables is read as   *)
(* "all tables" (resolve_changed_tables).                                  *)
StatusAnswer(hasChanges, changed) ==
    LET tables == IF changed = {} THEN Tables ELSE changed IN
    /\ pc = "status"
    /\ \/ /\ mode = "fullResync"
          /\ StartPull("baseline", Tables, FALSE)
          /\ UNCHANGED <<mode, push>>
       \/ /\ mode = "clean" /\ ~hasChanges
          /\ EndSync
       \/ /\ mode = "dirty" /\ ~hasChanges
          /\ mode' = "pushOnly"
          /\ StartPush
          /\ UNCHANGED pull
       \/ /\ mode = "clean" /\ hasChanges
          /\ mode' = "pullOnly"
          /\ StartPull("stored", tables, FALSE)
          /\ UNCHANGED push
       \/ /\ mode = "dirty" /\ hasChanges
          /\ mode' = "fullSync"
          /\ StartPull("stored", tables, FALSE)
          /\ UNCHANGED push
    /\ UNCHANGED <<dbVars, appVars, history>>

(* The units of a push that are still to be sent.                          *)
Left == {u \in push.units : u.row \notin push.accepted \cup push.rejected}

(* The server has processed a chunk: its guard has the bodies on record.   *)
Record(chunk) == recorded' = IF KeepsRecords THEN recorded \cup chunk ELSE {}

(* A chunk under way when the push ends may have been processed.           *)
ChunkInFlight ==
    IF pc = "send" THEN \E chunk \in SUBSET Left : Record(chunk)
                   ELSE UNCHANGED recorded

(* A request or a statement that fails ends the whole sync with `?`.       *)
StepFails ==
    /\ pc \in {"status", "pull", "cursor", "read", "send", "markOutbox", "markRows", "gc"}
    /\ EndAs("failed")
    /\ ChunkInFlight
    /\ UNCHANGED <<dbVars, appVars, settled, told, torn>>

AfterPull ==
    CASE mode = "pull" -> EndSync
      [] mode \in {"fullResync", "fullSync"} /\ ~pull.second ->
            StartPush /\ pull' = NoPull /\ UNCHANGED mode
      [] OTHER -> StartGc /\ pull' = NoPull /\ UNCHANGED <<mode, push>>

(* Tables with a rejected row are pulled again from the baseline, except   *)
(* by sync_push and after a full resync.                                   *)
AfterPush(rejected) ==
    CASE mode = "push" -> EndSync
      [] mode \in {"pushOnly", "fullSync"} /\ rejected # {} ->
            /\ StartPull("baseline", {TableOf[r] : r \in rejected}, TRUE)
            /\ push' = NoPush
            /\ UNCHANGED mode
      [] OTHER -> StartGc /\ push' = NoPush /\ UNCHANGED <<mode, pull>>

-----------------------------------------------------------------------------
(***************************************************************************)
(* pull                                                                    *)
(***************************************************************************)
(* Mutant: the cursor is stored when the response arrives.                 *)
PullAnswerStores(changes, newCursor) ==
    /\ pc = "pull"
    /\ \A r \in Rows : TableOf[r] \notin pull.filter => changes[r] = NoChange
    /\ pc' = "apply"
    /\ cursor' = newCursor
    /\ pull' = [pull EXCEPT !.filter = {}, !.changes = changes, !.cursor = newCursor,
                            !.left = {r \in Rows : changes[r] # NoChange}]
    /\ UNCHANGED <<row, pending, synced, edit, raced, through, appVars, history,
                   mode, tbl, push>>

(* A response has changes for rows of the requested tables, and any cursor *)
(* at all: the one the server computes can be lower than the one sent, and *)
(* the client compares nothing.                                            *)
PullAnswer(changes, newCursor) ==
    /\ pc = "pull"
    /\ \A r \in Rows : TableOf[r] \notin pull.filter => changes[r] = NoChange
    /\ pc' = "apply"
    /\ pull' = [pull EXCEPT !.filter = {}, !.changes = changes, !.cursor = newCursor,
                            !.left = {r \in Rows : changes[r] # NoChange}]
    /\ UNCHANGED <<dbVars, appVars, history, mode, tbl, push>>

(* Mutant: an upsert without its WHERE clause.                             *)
OverwritesOlder(s, c) ==
    \/ c.do = "upsert"
    \/ c.do = "delete" /\ s.st # "absent"

(* The guard of the upsert: the incoming row replaces a clean row, and a   *)
(* dirty one that is not newer.                                            *)
Overwrites(s, c) ==
    \/ c.do = "upsert" /\ (s.st = "absent" \/ s.flag \/ c.upd >= s.upd)
    \/ c.do = "delete" /\ s.st # "absent"

(* Both statements set is_synced = 1.  The stamp of a clean row is never   *)
(* compared again (is_synced = 1 decides first), so it is not kept.        *)
Incoming(c) ==
    [st |-> IF c.do = "delete" THEN "deleted" ELSE "live",
     upd |-> 0, mine |-> FALSE, flag |-> TRUE]

Applied(s, c) == IF Overwrites(s, c) THEN Incoming(c) ELSE s

(* An edit is over when a tombstone or a row at least as new replaces it;  *)
(* replaced by an older row it is lost, and stands.                        *)
EditAfter(r, c) ==
    IF Overwrites(row[r], c) /\ (c.do = "delete" \/ c.upd >= row[r].upd)
    THEN 0 ELSE edit[r]

(* A baseline pull only fills an empty cursor.                             *)
StoresCursor == pull.kind = "stored" \/ cursor = 0

(* Every row of the answer has been applied, or skipped for its constraint.*)
WentThrough == through' = through \cup ({pull.cursor} \ {0})

(* The whole response in one batch, upserts before deletes.                *)
ApplyBatch ==
    /\ pc = "apply"
    /\ row' = [r \in Rows |-> Applied(row[r], pull.changes[r])]
    /\ edit' = [r \in Rows |-> EditAfter(r, pull.changes[r])]
    /\ WentThrough
    /\ pc' = "cursor"
    /\ pull' = [pull EXCEPT !.left = {}, !.changes = NoChanges]
    /\ UNCHANGED <<pending, synced, cursor, raced, appVars, history, mode, tbl, push>>

(* A constraint error rolls the batch back and the rows are applied one    *)
(* statement at a time.                                                    *)
BatchFails ==
    /\ pc = "apply"
    /\ pull.left # {}
    /\ pc' = "fallback"
    /\ UNCHANGED <<dbVars, appVars, history, mode, tbl, pull, push>>

(* One row of the fallback: applied, or skipped when it breaks a           *)
(* constraint itself.                                                      *)
ApplyRow(r, ok) ==
    LET c == IF ok THEN pull.changes[r] ELSE NoChange IN
    /\ pc = "fallback"
    /\ r \in pull.left
    /\ row' = [row EXCEPT ![r] = Applied(@, c)]
    /\ edit' = [edit EXCEPT ![r] = EditAfter(r, c)]
    /\ pull' = [pull EXCEPT !.left = @ \ {r}, !.changes[r] = NoChange]
    /\ IF pull.left = {r} THEN pc' = "cursor" /\ WentThrough
                          ELSE UNCHANGED <<pc, through>>
    /\ UNCHANGED <<pending, synced, cursor, raced, appVars, history, mode, tbl, push>>

(* An empty cursor is never stored.                                        *)
StoreCursor ==
    /\ pc = "cursor"
    /\ cursor' = IF pull.cursor # 0 /\ StoresCursor THEN pull.cursor ELSE cursor
    /\ AfterPull
    /\ UNCHANGED <<row, pending, synced, edit, raced, through, appVars, history>>

-----------------------------------------------------------------------------
(***************************************************************************)
(* push                                                                    *)
(***************************************************************************)
(* Mutant: one table too many.                                             *)
NextTablePastEnd == IF tbl <= NumTables THEN tbl' = tbl + 1 /\ pc' = "read"
                    ELSE tbl' = 1 /\ pc' = "send"

NextTable == IF tbl < NumTables THEN tbl' = tbl + 1 /\ pc' = "read"
             ELSE tbl' = 1 /\ pc' = "send"

RowsOf(t) == {r \in Rows : TableOf[r] = t}

(* One table's pending entries joined with the rows as they are now; an    *)
(* entry whose row is gone is put aside.                                   *)
ReadTable ==
    LET entries == {r \in RowsOf(tbl) : pending[r] # 0}
        gone    == {r \in entries : row[r].st = "absent"} IN
    /\ pc = "read"
    /\ push' = [push EXCEPT
         !.units = @ \cup {[row |-> r, id |-> pending[r], upd |-> row[r].upd,
                            mine |-> row[r].mine] : r \in entries \ gone},
         !.missing = {<<r, pending[r]>> : r \in gone}]
    /\ IF gone # {} THEN pc' = "quarantine" /\ UNCHANGED tbl ELSE NextTable
    /\ UNCHANGED <<dbVars, appVars, history, mode, pull>>

(* The entry of a row that is gone is marked synced, by id alone: if the   *)
(* row has come back since the table was read, its new edit goes with it.  *)
(* An error of this statement is ignored.                                  *)
Quarantine(m, ok) ==
    LET r == m[1]
        marked == ok /\ pending[r] = m[2] IN
    /\ pc = "quarantine"
    /\ m \in push.missing
    /\ pending' = [pending EXCEPT ![r] = IF marked THEN 0 ELSE @]
    /\ synced' = IF marked THEN synced \cup {m[2]} ELSE synced
    /\ settled' = IF ok THEN settled \cup {m[2]} ELSE settled
    /\ raced' = IF marked /\ row[r].st # "absent" THEN RacedBy({r}) ELSE raced
    /\ push' = [push EXCEPT !.missing = @ \ {m}]
    /\ IF push.missing = {m} THEN NextTable ELSE UNCHANGED <<pc, tbl>>
    /\ UNCHANGED <<row, cursor, edit, through, appVars, told, recorded, torn, mode, pull>>

(* Every table is read: with nothing to send the push is over.             *)
NothingToSend ==
    /\ pc = "send"
    /\ push.units = {}
    /\ AfterPush({})
    /\ UNCHANGED <<dbVars, appVars, history>>

(* The unit carries the row as it is now.                                  *)
UpToDate(u) == u.mine = row[u.row].mine /\ u.upd = row[u.row].upd

(* Mutant: the loop over the chunks ends after the first.                  *)
ChunkAnsweredOnce(chunk, rejected) ==
    /\ pc = "send"
    /\ chunk # {}
    /\ chunk \subseteq Left
    /\ rejected \subseteq {u.row : u \in chunk}
    /\ settled' = settled \cup {u.id : u \in chunk}
    /\ told' = told \cup {u.upd : u \in {v \in chunk : v.mine}}
    /\ Record(chunk)
    /\ push' = [push EXCEPT !.rejected = @ \cup rejected,
                            !.accepted = @ \cup ({u.row : u \in chunk} \ rejected)]
    /\ pc' = "markOutbox"
    /\ UNCHANGED <<dbVars, appVars, torn, mode, tbl, pull>>

(* One chunk is sent and answered with 2xx, some of its rows rejected.     *)
(* Chunking and the splits of a 413 decide which units travel together;    *)
(* here any subset may.                                                    *)
ChunkAnswered(chunk, rejected) ==
    /\ pc = "send"
    /\ chunk # {}
    /\ chunk \subseteq Left
    /\ rejected \subseteq {u.row : u \in chunk}
    /\ settled' = settled \cup {u.id : u \in chunk}
    /\ told' = told \cup {u.upd : u \in {v \in chunk : v.mine}}
    /\ Record(chunk)
    /\ push' = [push EXCEPT !.rejected = @ \cup rejected,
                            !.accepted = @ \cup ({u.row : u \in chunk} \ rejected)]
    /\ IF Left = chunk THEN pc' = "markOutbox" ELSE UNCHANGED pc
    /\ UNCHANGED <<dbVars, appVars, torn, mode, tbl, pull>>

(* The guard has this entry on record with another body.  Two versions of  *)
(* the server's that a pull brought are not told apart here.               *)
OtherBody(v, upd, mine) == v.upd # upd \/ v.mine # mine \/ ~mine

(* The idempotency key is made of the entry ids: a chunk whose key is on   *)
(* record with another body is refused with 409, which ends the sync.      *)
ChunkRefused(chunk) ==
    /\ pc = "send"
    /\ chunk \subseteq Left
    /\ \E u \in chunk, v \in recorded : v.id = u.id /\ OtherBody(v, u.upd, u.mine)
    /\ EndAs("refused")
    /\ UNCHANGED <<dbVars, appVars, history>>

AcceptedIn(t) == {r \in push.accepted : TableOf[r] = t}

(* The end of one table's marking.                                         *)
MarkNext == IF tbl < NumTables
            THEN tbl' = tbl + 1 /\ pc' = "markOutbox" /\ UNCHANGED <<mode, pull, push>>
            ELSE AfterPush(push.rejected)

(* In a table with an accepted row, every entry that was sent is marked,   *)
(* those of rejected rows too.                                             *)
MarkOutbox ==
    LET sent == {u \in push.units : TableOf[u.row] = tbl}
        hit(r) == \E u \in sent : u.row = r /\ u.id = pending[r] IN
    /\ pc = "markOutbox"
    /\ AcceptedIn(tbl) # {}
    /\ pending' = [r \in Rows |-> IF hit(r) THEN 0 ELSE pending[r]]
    /\ synced' = synced \cup {pending[r] : r \in {q \in Rows : hit(q)}}
    /\ raced' = RacedBy({u.row : u \in {v \in sent : hit(v.row) /\ ~UpToDate(v)}})
    /\ pc' = "markRows"
    /\ UNCHANGED <<row, cursor, edit, through, appVars, history, mode, tbl, pull, push>>

NothingAccepted ==
    /\ pc = "markOutbox"
    /\ AcceptedIn(tbl) = {}
    /\ MarkNext
    /\ UNCHANGED <<dbVars, appVars, history>>

(* Mutant: no NOT EXISTS over the pending entries.                         *)
MarkRowsUnchecked ==
    /\ pc = "markRows"
    /\ row' = [r \in Rows |->
                 IF r \in AcceptedIn(tbl) /\ row[r].st # "absent"
                 THEN [row[r] EXCEPT !.flag = TRUE] ELSE row[r]]
    /\ raced' = RacedBy({r \in AcceptedIn(tbl) \cap HalfWritten : pending[r] = 0})
    /\ MarkNext
    /\ UNCHANGED <<pending, synced, cursor, edit, through, appVars, history>>

(* Accepted rows without a pending entry get is_synced = 1: a statement of *)
(* its own, after the one that marks the outbox.                           *)
MarkRows ==
    /\ pc = "markRows"
    /\ row' = [r \in Rows |->
                 IF r \in AcceptedIn(tbl) /\ pending[r] = 0 /\ row[r].st # "absent"
                 THEN [row[r] EXCEPT !.flag = TRUE] ELSE row[r]]
    /\ raced' = RacedBy({r \in AcceptedIn(tbl) \cap HalfWritten : pending[r] = 0})
    /\ MarkNext
    /\ UNCHANGED <<pending, synced, cursor, edit, through, appVars, history>>

-----------------------------------------------------------------------------
(***************************************************************************)
(* Housekeeping and crashes.                                               *)
(***************************************************************************)
(* Mutant: every tombstone is collected, pushed or not.                    *)
CollectedAny(t) ==
    row' = [r \in Rows |-> IF TableOf[r] = t /\ row[r].st = "deleted"
                           THEN NoRow ELSE row[r]]

Collected(t) ==
    row' = [r \in Rows |-> IF TableOf[r] = t /\ row[r].st = "deleted" /\ row[r].flag
                           THEN NoRow ELSE row[r]]

(* The engine's own collection, table by table, after a sync.              *)
GcStep ==
    /\ pc = "gc"
    /\ Collected(tbl)
    /\ IF tbl < NumTables THEN tbl' = tbl + 1 /\ UNCHANGED <<pc, mode, pull, push>>
                          ELSE EndSync
    /\ UNCHANGED <<pending, synced, cursor, edit, raced, through, appVars, history>>

(* The run_garbage_collection command does not take the sync guard.        *)
GcCommand(t) ==
    /\ Collected(t)
    /\ row' # row
    /\ UNCHANGED <<pending, synced, cursor, edit, raced, through, appVars, history, engineVars>>

(* purge_synced_outbox, with any cut-off.                                  *)
PurgeSynced(kept) ==
    /\ kept \subseteq synced
    /\ kept # synced
    /\ synced' = kept
    /\ UNCHANGED <<row, pending, cursor, edit, raced, through, appVars, history, engineVars>>

(* The process dies: SQLite rolls back an open transaction at the next     *)
(* start, and nothing of the engine's run survives.                        *)
Crash ==
    /\ pc # "idle" \/ tx.open
    /\ IF tx.open THEN RestoreSaved ELSE UNCHANGED dbVars
    /\ tx' = NoTx
    /\ EndAs("failed")
    /\ ChunkInFlight
    /\ UNCHANGED <<clock, settled, told, torn>>

-----------------------------------------------------------------------------
App ==
    \/ \E r \in Rows, st \in {"live", "deleted"} : WriteLocalChange(r, st) \/ TxWrite(r, st)
    \/ \E r \in Rows : TxEnqueue(r)
    \/ BeginTx \/ CommitTx \/ RollbackTx

Engine ==
    \/ \E has \in BOOLEAN, changed \in SUBSET Tables : StatusAnswer(has, changed)
    \/ \E changes \in [Rows -> Changes], c \in 0..MaxCursor : PullAnswer(changes, c)
    \/ ApplyBatch \/ BatchFails \/ StoreCursor
    \/ \E r \in Rows, ok \in BOOLEAN : ApplyRow(r, ok)
    \/ ReadTable \/ NothingToSend \/ MarkOutbox \/ NothingAccepted \/ MarkRows
    \/ \E m \in push.missing, ok \in BOOLEAN : Quarantine(m, ok)
    \/ \E chunk \in SUBSET Left : \E rej \in SUBSET {u.row : u \in chunk} :
           ChunkAnswered(chunk, rej)
    \/ \E chunk \in SUBSET Left : ChunkRefused(chunk)
    \/ GcStep

Commands ==
    \/ SyncNow \/ SyncPush \/ SyncPull \/ SyncFullResync
    \/ \E t \in Tables : GcCommand(t)
    \/ \E kept \in SUBSET synced : PurgeSynced(kept)

Next == App \/ Engine \/ Commands \/ StepFails \/ Crash

Spec == Init /\ [][Next]_vars
-----------------------------------------------------------------------------
(***************************************************************************)
(* Properties.                                                             *)
(***************************************************************************)
TypeOK ==
    /\ CurrentDb \in Database
    /\ tx \in {NoTx} \cup OpenTx
    /\ clock \in Stamps
    /\ settled \subseteq Ids
    /\ told \subseteq Stamps
    /\ recorded \subseteq Units
    /\ torn \subseteq 1..MaxCursor
    /\ pc \in {"idle", "status", "pull", "apply", "fallback", "cursor", "read",
               "quarantine", "send", "markOutbox", "markRows", "gc"}
    /\ mode \in {"done", "failed", "refused", "clean", "dirty", "push", "pull", "pushOnly", "pullOnly",
                 "fullSync", "fullResync"}
    /\ tbl \in Tables
    /\ pull \in [kind: {"stored", "baseline"}, filter: SUBSET Tables, second: BOOLEAN,
                 changes: [Rows -> Changes], left: SUBSET Rows, cursor: 0..MaxCursor]
    /\ push \in [units: SUBSET Units, accepted: SUBSET Rows, rejected: SUBSET Rows,
                 missing: SUBSET (Rows \X Ids)]

(* Whatever is lost, delayed, interleaved or crashed, an outbox entry      *)
(* carries synced_at only after the server answered a chunk that held it   *)
(* (push), or because its row no longer existed (quarantine).              *)
MarkedOnlyIfSettled == synced \subseteq settled

(* Why MarkedOnlyIfSettled holds, as an inductive invariant: the units of  *)
(* a push are one per row, in the order of the tables; a unit whose row is *)
(* acknowledged is settled, and marking begins when every row is.          *)
OneUnitPerRow == \A u, v \in push.units : u.row = v.row => u = v
ReadInOrder ==
    /\ pc = "read" => \A u \in push.units : TableOf[u.row] < tbl
    /\ pc = "quarantine" => \A u \in push.units : TableOf[u.row] <= tbl
NoneAnsweredYet == pc \in {"read", "quarantine"} => push.accepted \cup push.rejected = {}
AnsweredIsSettled ==
    \A u \in push.units : u.row \in push.accepted \cup push.rejected => u.id \in settled
MarkingAllAnswered ==
    pc \in {"markOutbox", "markRows"} =>
        \A u \in push.units : u.row \in push.accepted \cup push.rejected
SavedIsSettled == tx.open => tx.saved.synced \subseteq settled

SettledInv ==
    /\ MarkedOnlyIfSettled /\ SavedIsSettled
    /\ OneUnitPerRow /\ ReadInOrder
    /\ NoneAnsweredYet /\ AnsweredIsSettled /\ MarkingAllAnswered

(* The latest local edit of a row is never dropped unnoticed: until the    *)
(* server has answered for it, a pull has replaced it by a row at least as *)
(* new or by a tombstone, or it was made while its entry was in flight,    *)
(* the row still holds it and a pending entry will send it.                *)
NoEditForgotten ==
    \A r \in Rows : Waiting(r) =>
        /\ row[r].st # "absent" /\ row[r].mine
        /\ pending[r] # 0 \/ r \in HalfWritten

(* is_synced = 1 on a locally edited row is earned: the server has         *)
(* answered for exactly that edit, or the edit raced with a push.          *)
FlagEarned ==
    \A r \in Rows : row[r].mine /\ row[r].flag => row[r].upd \in told \cup raced

(* A stored cursor comes from an answer this database has gone through to  *)
(* its last row: a crash or a failure between the rows of a pull and its   *)
(* cursor only repeats the pull.  A rollback of the application's can undo *)
(* the rows alone, before the cursor is stored: those cursors are torn.    *)
CursorNotAhead == cursor # 0 => cursor \in through \cup torn

(* Its inductive strengthening: the same of the cursor that a rollback     *)
(* would restore, and of the one about to be stored.                       *)
CursorInv ==
    /\ CursorNotAhead
    /\ tx.open /\ tx.saved.cursor # 0 => tx.saved.cursor \in tx.saved.through \cup torn
    /\ pc = "cursor" /\ pull.cursor # 0 => pull.cursor \in through \cup torn

-----------------------------------------------------------------------------
(***************************************************************************)
(* Promises of the documentation that the code does not keep.              *)
(***************************************************************************)
(* push-flow.mdx: the check on pending entries "prevents marking a row as  *)
(* synced if a new local write happened while the push was in flight".     *)
InFlightEditNotFlagged ==
    \A r \in Rows : edit[r] \in raced /\ row[r].mine => ~row[r].flag

-----------------------------------------------------------------------------
(***************************************************************************)
(* Fairness: a sync takes its next step unless it waits for an answer of   *)
(* the server, and the poll loop keeps asking for one and at times finds   *)
(* the engine free.  Crashes, failures, rejections and the application's   *)
(* rollbacks may come in any number, but not for ever.  A refused push is  *)
(* not among them: nothing makes it cease.                                 *)
(***************************************************************************)
Waits == pc \in {"status", "pull"} \/ (pc = "send" /\ push.units # {})

Fault ==
    \/ StepFails \/ Crash \/ RollbackTx
    \/ \E m \in push.missing : Quarantine(m, FALSE)
    \/ push'.rejected # {}

Fairness ==
    /\ WF_vars(Engine /\ ~Waits)
    /\ SF_vars(SyncNow)
    /\ <>[][~Fault]_vars

FairSpec == Spec /\ Fairness

(* The row's pending entry is on record at the server with another body:   *)
(* its chunk was processed, the answer or the marking was lost, and the    *)
(* row has changed since, by an edit or by a pull.                         *)
Contested(r) ==
    \E v \in recorded :
        v.row = r /\ v.id = pending[r] /\ OtherBody(v, row[r].upd, row[r].mine)

RequestsEnd == []<>~Waits

(* Once the application stops editing, and if no request is left without   *)
(* an end (the HTTP client sets no timeout), the outbox drains whatever    *)
(* crashes, losses and rejections came before, or it holds for ever an     *)
(* entry that the server's guard contests.                                 *)
OutboxDrains ==
    RequestsEnd =>
        \/ <>[](\A r \in Rows : pending[r] = 0)
        \/ <>[](\E r \in Rows : Contested(r))
=============================================================================
