--------------------------- MODULE ClientSyncProofs ---------------------------
(***************************************************************************)
(* Proofs about ClientSync, for any rows, tables and bounds.               *)
(***************************************************************************)
EXTENDS ClientSync, TLAPS

DbType ==
    /\ row \in [Rows -> RowState]
    /\ pending \in [Rows -> Ids \cup {0}]
    /\ synced \subseteq Ids
    /\ cursor \in 0..MaxCursor
    /\ edit \in [Rows -> Stamps]
    /\ raced \subseteq Ids
    /\ through \subseteq 1..MaxCursor

PullType == [kind: {"stored", "baseline"}, filter: SUBSET Tables, second: BOOLEAN,
             changes: [Rows -> Changes], left: SUBSET Rows, cursor: 0..MaxCursor]
PushType == [units: SUBSET Units, accepted: SUBSET Rows, rejected: SUBSET Rows,
             missing: SUBSET (Rows \X Ids)]
Pcs == {"idle", "status", "pull", "apply", "fallback", "cursor", "read",
        "quarantine", "send", "markOutbox", "markRows", "gc"}
Modes == {"done", "failed", "refused", "clean", "dirty", "push", "pull", "pushOnly",
          "pullOnly", "fullSync", "fullResync"}

EngineType ==
    /\ pc \in Pcs
    /\ mode \in Modes
    /\ tbl \in Tables
    /\ pull \in PullType
    /\ push \in PushType

AppType ==
    /\ tx \in {NoTx} \cup OpenTx
    /\ clock \in Stamps
    /\ settled \subseteq Ids
    /\ told \subseteq Stamps
    /\ recorded \subseteq Units
    /\ torn \subseteq 1..MaxCursor

Types == DbType /\ AppType /\ EngineType

LEMMA DbUnpacked == (CurrentDb \in Database) <=> DbType
  BY DEF CurrentDb, Database, DbType

LEMMA TypesIsTypeOK == Types <=> TypeOK
  BY DbUnpacked DEF Types, TypeOK, AppType, EngineType, PullType, PushType, Pcs, Modes

LEMMA InitTypes == ASSUME Init PROVE Types
  BY ClientAssumption DEF Init, Types, DbType, AppType, EngineType, PullType, PushType,
     Pcs, Modes, NoRow, RowState, Stamps, Ids, Tables, NoPull, NoPush, NoChanges, NoChange,
     Changes

-----------------------------------------------------------------------------
(* The application's steps.                                                *)
LEMMA WriteLocalChangeTypes ==
  ASSUME Types, NEW r \in Rows, NEW st \in {"live", "deleted"}, WriteLocalChange(r, st)
  PROVE  Types'
<1>1. clock + 1 \in Ids /\ clock + 1 \in Stamps
  BY ClientAssumption DEF Types, AppType, WriteLocalChange, Ids, Stamps
<1>2. Edited(r, st) \in RowState
  BY <1>1, ClientAssumption DEF Edited, RowState, Types, DbType
<1>3. Enqueued(r, clock + 1) \in Ids \cup {0}
  BY <1>1 DEF Enqueued, Types, DbType
<1>4. DbType'
  BY <1>1, <1>2, <1>3 DEF Types, DbType, WriteLocalChange
<1>5. AppType' /\ EngineType'
  BY <1>1 DEF Types, AppType, EngineType, WriteLocalChange, history, engineVars
<1> QED
  BY <1>4, <1>5 DEF Types

LEMMA BeginTxTypes == ASSUME Types, BeginTx PROVE Types'
<1>1. CurrentDb \in Database
  BY DbUnpacked DEF Types
<1>2. [open |-> TRUE, saved |-> CurrentDb, half |-> {}] \in OpenTx
  BY <1>1 DEF OpenTx
<1>3. AppType'
  BY <1>2 DEF Types, AppType, BeginTx, history
<1> QED
  BY <1>3 DEF Types, DbType, EngineType, BeginTx, dbVars, engineVars

LEMMA OpenTxShape == ASSUME Types, tx.open PROVE tx \in OpenTx
  BY DEF Types, AppType, NoTx

LEMMA TxWriteTypes ==
  ASSUME Types, NEW r \in Rows, NEW st \in {"live", "deleted"}, TxWrite(r, st)
  PROVE  Types'
<1>1. clock + 1 \in Ids /\ clock + 1 \in Stamps
  BY ClientAssumption DEF Types, AppType, TxWrite, Ids, Stamps
<1>2. Edited(r, st) \in RowState
  BY <1>1, ClientAssumption DEF Edited, RowState, Types, DbType
<1>3. DbType'
  BY <1>1, <1>2 DEF Types, DbType, TxWrite
<1>4. tx' \in OpenTx
  BY <1>1, OpenTxShape DEF TxWrite, OpenTx
<1>5. AppType' /\ EngineType'
  BY <1>1, <1>4 DEF Types, AppType, EngineType, TxWrite, history, engineVars
<1> QED
  BY <1>3, <1>5 DEF Types

LEMMA TxEnqueueTypes ==
  ASSUME Types, NEW r \in Rows, TxEnqueue(r)
  PROVE  Types'
<1>1. tx \in OpenTx
  BY OpenTxShape DEF TxEnqueue
<1>2. tx' \in OpenTx
  BY <1>1 DEF TxEnqueue, OpenTx
<1>3. Enqueued(r, clock) \in Ids \cup {0}
  BY ClientAssumption DEF Enqueued, Types, DbType, AppType, Stamps, Ids
<1>4. DbType'
  BY <1>3 DEF Types, DbType, TxEnqueue
<1>5. AppType' /\ EngineType'
  BY <1>2 DEF Types, AppType, EngineType, TxEnqueue, history, engineVars
<1> QED
  BY <1>4, <1>5 DEF Types

LEMMA RestoreTypes == ASSUME Types, tx.open, RestoreSaved PROVE DbType'
<1>1. tx.saved \in Database
  BY OpenTxShape DEF OpenTx
<1> QED
  BY <1>1 DEF RestoreSaved, DbType, Database

LEMMA CommitTxTypes == ASSUME Types, CommitTx PROVE Types'
  BY DEF Types, CommitTx, DbType, AppType, EngineType, dbVars, history, engineVars

(* A cursor that is not empty names an answer.                             *)
LEMMA PullCursorType == ASSUME Types PROVE {pull.cursor} \ {0} \subseteq 1..MaxCursor
<1>1. pull.cursor \in 0..MaxCursor
  BY DEF Types, EngineType, PullType
<1> QED
  BY <1>1, ClientAssumption

LEMMA RollbackTxTypes == ASSUME Types, RollbackTx PROVE Types'
<1>1. DbType'
  BY RestoreTypes DEF RollbackTx
<1>2. torn' \subseteq 1..MaxCursor
  BY PullCursorType DEF RollbackTx, Types, AppType
<1> QED
  BY <1>1, <1>2 DEF Types, RollbackTx, AppType, EngineType, engineVars

-----------------------------------------------------------------------------
(* The pieces the engine's steps are put together from.                    *)
LEMMA NoPullType == NoPull \in PullType
  BY ClientAssumption DEF NoPull, PullType, NoChanges, NoChange, Changes, Stamps, Tables

LEMMA NoPushType == NoPush \in PushType
  BY DEF NoPush, PushType

LEMMA StartPullTypes ==
  ASSUME Types, NEW kind \in {"stored", "baseline"}, NEW tables \in SUBSET Tables,
         NEW second \in BOOLEAN, StartPull(kind, tables, second)
  PROVE  pc' \in Pcs /\ tbl' \in Tables /\ pull' \in PullType
<1>1. pull' \in PullType
  BY NoPullType DEF StartPull, PullType
<1> QED
  BY <1>1 DEF StartPull, Types, EngineType, Pcs

LEMMA StartPushTypes ==
  ASSUME Types, StartPush
  PROVE  pc' \in Pcs /\ tbl' \in Tables /\ push' \in PushType
  BY NoPushType, ClientAssumption DEF StartPush, Pcs, Tables

LEMMA StartGcTypes ==
  ASSUME Types, StartGc
  PROVE  pc' \in Pcs /\ tbl' \in Tables
  BY ClientAssumption DEF StartGc, Pcs, Tables

LEMMA EndAsTypes ==
  ASSUME Types, NEW outcome \in {"done", "failed", "refused"}, EndAs(outcome)
  PROVE  EngineType'
  BY NoPullType, NoPushType, ClientAssumption DEF EndAs, EngineType, Pcs, Modes, Tables

LEMMA EndSyncTypes == ASSUME Types, EndSync PROVE EngineType'
  BY EndAsTypes DEF EndSync

LEMMA AfterPullTypes == ASSUME Types, AfterPull PROVE EngineType'
<1>1. CASE mode = "pull"
  BY <1>1, EndSyncTypes DEF AfterPull
<1>2. CASE mode \in {"fullResync", "fullSync"} /\ ~pull.second
  <2>1. StartPush /\ pull' = NoPull /\ UNCHANGED mode
    BY <1>2 DEF AfterPull
  <2> QED
    BY <2>1, StartPushTypes, NoPullType DEF Types, EngineType
<1>3. CASE mode # "pull" /\ ~(mode \in {"fullResync", "fullSync"} /\ ~pull.second)
  <2>1. StartGc /\ pull' = NoPull /\ UNCHANGED <<mode, push>>
    BY <1>3 DEF AfterPull
  <2> QED
    BY <2>1, StartGcTypes, NoPullType DEF Types, EngineType
<1> QED
  BY <1>1, <1>2, <1>3

LEMMA AfterPushTypes ==
  ASSUME Types, NEW rejected \in SUBSET Rows, AfterPush(rejected)
  PROVE  EngineType'
<1>1. CASE mode = "push"
  BY <1>1, EndSyncTypes DEF AfterPush
<1>2. CASE mode \in {"pushOnly", "fullSync"} /\ rejected # {}
  <2>1. /\ StartPull("baseline", {TableOf[r] : r \in rejected}, TRUE)
        /\ push' = NoPush
        /\ UNCHANGED mode
    BY <1>2 DEF AfterPush
  <2>2. {TableOf[r] : r \in rejected} \subseteq Tables
    BY ClientAssumption DEF Tables
  <2> QED
    BY <2>1, <2>2, StartPullTypes, NoPushType DEF Types, EngineType
<1>3. CASE mode # "push" /\ ~(mode \in {"pushOnly", "fullSync"} /\ rejected # {})
  <2>1. StartGc /\ push' = NoPush /\ UNCHANGED <<mode, pull>>
    BY <1>3 DEF AfterPush
  <2> QED
    BY <2>1, StartGcTypes, NoPushType DEF Types, EngineType
<1> QED
  BY <1>1, <1>2, <1>3

-----------------------------------------------------------------------------
(* The engine's steps.                                                     *)
LEMMA CommandTypes ==
  ASSUME Types, SyncNow \/ SyncPush \/ SyncPull \/ SyncFullResync
  PROVE  Types'
<1>1. DbType' /\ AppType'
  BY DEF Types, DbType, AppType, SyncNow, SyncPush, SyncPull, SyncFullResync, dbVars,
     appVars, history
<1>2. CASE SyncNow
  BY <1>1, <1>2 DEF SyncNow, Types, EngineType, Pcs, Modes
<1>3. CASE SyncPush
  BY <1>1, <1>3, StartPushTypes DEF SyncPush, Types, EngineType, Modes
<1>4. CASE SyncPull
  BY <1>1, <1>4, StartPullTypes DEF SyncPull, Types, EngineType, Modes
<1>5. CASE SyncFullResync
  BY <1>1, <1>5, StartPullTypes DEF SyncFullResync, Types, EngineType, Modes
<1> QED
  BY <1>2, <1>3, <1>4, <1>5

LEMMA StatusAnswerTypes ==
  ASSUME Types, NEW has \in BOOLEAN, NEW changed \in SUBSET Tables,
         StatusAnswer(has, changed)
  PROVE  Types'
<1> DEFINE tables == IF changed = {} THEN Tables ELSE changed
<1>1. DbType' /\ AppType'
  BY DEF Types, DbType, AppType, StatusAnswer, dbVars, appVars, history
<1> SUFFICES EngineType'
  BY <1>1 DEF Types
<1>2. tables \in SUBSET Tables
  OBVIOUS
<1>3. CASE StartPull("baseline", Tables, FALSE) /\ UNCHANGED <<mode, push>>
  BY <1>3, StartPullTypes DEF Types, EngineType
<1>4. CASE EndSync
  BY <1>4, EndSyncTypes
<1>5. CASE mode' = "pushOnly" /\ StartPush /\ UNCHANGED pull
  BY <1>5, StartPushTypes DEF Types, EngineType, Modes
<1>6. CASE mode' = "pullOnly" /\ StartPull("stored", tables, FALSE) /\ UNCHANGED push
  BY <1>2, <1>6, StartPullTypes DEF Types, EngineType, Modes
<1>7. CASE mode' = "fullSync" /\ StartPull("stored", tables, FALSE) /\ UNCHANGED push
  BY <1>2, <1>7, StartPullTypes DEF Types, EngineType, Modes
<1> QED
  BY <1>3, <1>4, <1>5, <1>6, <1>7 DEF StatusAnswer

LEMMA RecordTypes ==
  ASSUME Types, NEW chunk \in SUBSET Left, Record(chunk) PROVE recorded' \subseteq Units
  BY DEF Record, Left, Types, AppType, EngineType, PushType

LEMMA ChunkInFlightTypes ==
  ASSUME Types, ChunkInFlight PROVE recorded' \subseteq Units
  BY RecordTypes DEF ChunkInFlight, Types, AppType

LEMMA StepFailsTypes == ASSUME Types, StepFails PROVE Types'
  BY EndAsTypes, ChunkInFlightTypes DEF StepFails, Types, DbType, AppType, dbVars, appVars

LEMMA PullAnswerTypes ==
  ASSUME Types, NEW changes \in [Rows -> Changes], NEW c \in 0..MaxCursor,
         PullAnswer(changes, c)
  PROVE  Types'
<1>1. pull' \in PullType
  BY DEF PullAnswer, Types, EngineType, PullType
<1> QED
  BY <1>1 DEF PullAnswer, Types, DbType, AppType, EngineType, Pcs, dbVars, appVars, history

LEMMA AppliedType ==
  ASSUME NEW s \in RowState, NEW c \in Changes PROVE Applied(s, c) \in RowState
  BY ClientAssumption DEF Applied, Incoming, RowState, Stamps

LEMMA EditAfterType ==
  ASSUME Types, NEW r \in Rows, NEW c \in Changes PROVE EditAfter(r, c) \in Stamps
  BY ClientAssumption DEF EditAfter, Types, DbType, Stamps

LEMMA WentThroughType ==
  ASSUME Types, WentThrough PROVE through' \subseteq 1..MaxCursor
  BY PullCursorType DEF WentThrough, Types, DbType

LEMMA ApplyBatchTypes == ASSUME Types, ApplyBatch PROVE Types'
<1>1. pull.changes \in [Rows -> Changes]
  BY DEF Types, EngineType, PullType
<1>2. row' \in [Rows -> RowState] /\ edit' \in [Rows -> Stamps]
  BY <1>1, AppliedType, EditAfterType DEF ApplyBatch, Types, DbType
<1>3. DbType'
  BY <1>2, WentThroughType DEF ApplyBatch, Types, DbType
<1>4. NoChanges \in [Rows -> Changes]
  BY DEF NoChanges, NoChange, Changes
<1>5. pull' \in PullType
  BY <1>4 DEF ApplyBatch, Types, EngineType, PullType
<1> QED
  BY <1>3, <1>5 DEF ApplyBatch, Types, AppType, EngineType, Pcs, appVars, history

LEMMA BatchFailsTypes == ASSUME Types, BatchFails PROVE Types'
  BY DEF BatchFails, Types, DbType, AppType, EngineType, Pcs, dbVars, appVars, history

LEMMA ApplyRowTypes ==
  ASSUME Types, NEW r \in Rows, NEW ok \in BOOLEAN, ApplyRow(r, ok)
  PROVE  Types'
<1> DEFINE c == IF ok THEN pull.changes[r] ELSE NoChange
<1>1. NoChange \in Changes
  BY DEF NoChange, Changes
<1>2. c \in Changes
  BY <1>1 DEF Types, EngineType, PullType
<1>3. row' \in [Rows -> RowState] /\ edit' \in [Rows -> Stamps]
  BY <1>2, AppliedType, EditAfterType DEF ApplyRow, Types, DbType
<1>4. through' \subseteq 1..MaxCursor
  BY WentThroughType DEF ApplyRow, Types, DbType
<1>5. pull' \in PullType
  BY <1>1 DEF ApplyRow, Types, EngineType, PullType
<1>6. DbType'
  BY <1>3, <1>4 DEF ApplyRow, Types, DbType
<1> QED
  BY <1>5, <1>6 DEF ApplyRow, Types, AppType, EngineType, Pcs, appVars, history

LEMMA StoreCursorTypes == ASSUME Types, StoreCursor PROVE Types'
<1>1. cursor' \in 0..MaxCursor
  BY DEF StoreCursor, Types, DbType, EngineType, PullType
<1> QED
  BY <1>1, AfterPullTypes DEF StoreCursor, Types, DbType, AppType, appVars, history

LEMMA NextTableTypes ==
  ASSUME Types, NextTable PROVE pc' \in Pcs /\ tbl' \in Tables
  BY ClientAssumption DEF NextTable, Types, EngineType, Pcs, Tables

LEMMA ReadTableTypes == ASSUME Types, ReadTable PROVE Types'
<1> DEFINE entries == {r \in RowsOf(tbl) : pending[r] # 0}
           gone    == {r \in entries : row[r].st = "absent"}
           found   == {[row |-> r, id |-> pending[r], upd |-> row[r].upd,
                        mine |-> row[r].mine] : r \in entries \ gone}
           missing == {<<r, pending[r]>> : r \in gone}
<1>1. \A r \in entries : r \in Rows /\ pending[r] \in Ids /\ row[r] \in RowState
  BY DEF RowsOf, Types, DbType
<1>2. found \subseteq Units /\ missing \subseteq Rows \X Ids
  BY <1>1 DEF Units, RowState
<1>3. push' = [push EXCEPT !.units = @ \cup found, !.missing = missing]
  BY DEF ReadTable
<1>4. push' \in PushType
  BY <1>2, <1>3 DEF Types, EngineType, PushType
<1>5. pc' \in Pcs /\ tbl' \in Tables
  BY NextTableTypes DEF ReadTable, Types, EngineType, Pcs
<1> QED
  BY <1>4, <1>5 DEF ReadTable, Types, DbType, AppType, EngineType, dbVars, appVars, history

LEMMA RacedByType ==
  ASSUME Types, NEW R \in SUBSET Rows PROVE RacedBy(R) \subseteq Ids
<1>1. \A r \in R : edit[r] \in Ids \cup {0}
  BY ClientAssumption DEF Types, DbType, Stamps, Ids
<1>2. {edit[r] : r \in R} \ {0} \subseteq Ids
  BY <1>1
<1> QED
  BY <1>2 DEF RacedBy, Types, DbType

LEMMA QuarantineTypes ==
  ASSUME Types, NEW m \in push.missing, NEW ok \in BOOLEAN, Quarantine(m, ok)
  PROVE  Types'
<1>1. m[1] \in Rows /\ m[2] \in Ids
  BY DEF Types, EngineType, PushType
<1>2. RacedBy({m[1]}) \subseteq Ids
  BY <1>1, RacedByType
<1>3. pending' \in [Rows -> Ids \cup {0}]
  BY DEF Quarantine, Types, DbType
<1>4. DbType'
  BY <1>1, <1>2, <1>3 DEF Quarantine, Types, DbType
<1>5. AppType'
  BY <1>1 DEF Quarantine, Types, AppType, appVars
<1>6. push' \in PushType
  BY DEF Quarantine, Types, EngineType, PushType
<1>7. pc' \in Pcs /\ tbl' \in Tables
  BY NextTableTypes DEF Quarantine, Types, EngineType
<1> QED
  BY <1>4, <1>5, <1>6, <1>7 DEF Quarantine, Types, EngineType

LEMMA NothingToSendTypes == ASSUME Types, NothingToSend PROVE Types'
  BY AfterPushTypes DEF NothingToSend, Types, DbType, AppType, dbVars, appVars, history

LEMMA ChunkAnsweredTypes ==
  ASSUME Types, NEW chunk, NEW rej, ChunkAnswered(chunk, rej)
  PROVE  Types'
<1> DEFINE accepted == {u.row : u \in chunk} \ rej
<1>1. chunk \subseteq Units
  BY DEF ChunkAnswered, Left, Types, EngineType, PushType
<1>2. \A u \in chunk : u.row \in Rows /\ u.id \in Ids
  BY <1>1 DEF Units
<1>3. \A u \in chunk : u.mine => u.upd \in Stamps
  BY <1>1 DEF Units
<1>4. told' \subseteq Stamps
  BY <1>3 DEF ChunkAnswered, Types, AppType
<1>5. settled' \subseteq Ids
  BY <1>2 DEF ChunkAnswered, Types, AppType
<1>6. AppType'
  BY <1>4, <1>5, RecordTypes DEF ChunkAnswered, Types, AppType, appVars
<1>7. rej \subseteq Rows /\ accepted \subseteq Rows
  BY <1>2 DEF ChunkAnswered
<1>8. push' = [push EXCEPT !.rejected = @ \cup rej, !.accepted = @ \cup accepted]
  BY DEF ChunkAnswered
<1>9. push' \in PushType
  BY <1>7, <1>8 DEF Types, EngineType, PushType
<1> QED
  BY <1>6, <1>9 DEF ChunkAnswered, Types, DbType, EngineType, Pcs, dbVars

LEMMA ChunkRefusedTypes ==
  ASSUME Types, NEW chunk, ChunkRefused(chunk) PROVE Types'
  BY EndAsTypes DEF ChunkRefused, Types, DbType, AppType, dbVars, appVars, history

LEMMA MarkNextTypes == ASSUME Types, MarkNext PROVE EngineType'
<1>1. push.rejected \in SUBSET Rows
  BY DEF Types, EngineType, PushType
<1>2. CASE tbl < NumTables
  BY <1>2, ClientAssumption DEF MarkNext, Types, EngineType, Pcs, Tables
<1>3. CASE ~(tbl < NumTables)
  BY <1>1, <1>3, AfterPushTypes DEF MarkNext
<1> QED
  BY <1>2, <1>3

LEMMA MarkOutboxTypes == ASSUME Types, MarkOutbox PROVE Types'
<1> DEFINE sent == {u \in push.units : TableOf[u.row] = tbl}
           hit(r) == \E u \in sent : u.row = r /\ u.id = pending[r]
<1>1. push.units \subseteq Units
  BY DEF Types, EngineType, PushType
<1>2. \A r \in Rows : hit(r) => pending[r] \in Ids
  BY <1>1 DEF Units
<1>3. pending' \in [Rows -> Ids \cup {0}] /\ synced' \subseteq Ids
  BY <1>2 DEF MarkOutbox, Types, DbType
<1>4. {u.row : u \in {v \in sent : hit(v.row) /\ ~UpToDate(v)}} \subseteq Rows
  BY <1>1 DEF Units
<1>5. raced' \subseteq Ids
  BY <1>4, RacedByType DEF MarkOutbox
<1> QED
  BY <1>3, <1>5 DEF MarkOutbox, Types, DbType, AppType, EngineType, Pcs, appVars, history

LEMMA NothingAcceptedTypes == ASSUME Types, NothingAccepted PROVE Types'
  BY MarkNextTypes DEF NothingAccepted, Types, DbType, AppType, dbVars, appVars, history

LEMMA MarkRowsTypes == ASSUME Types, MarkRows PROVE Types'
<1>1. row' \in [Rows -> RowState]
  BY DEF MarkRows, Types, DbType, RowState
<1>2. {r \in AcceptedIn(tbl) \cap HalfWritten : pending[r] = 0} \in SUBSET Rows
  BY DEF AcceptedIn, Types, EngineType, PushType
<1>3. raced' \subseteq Ids
  BY <1>2, RacedByType DEF MarkRows
<1> QED
  BY <1>1, <1>3, MarkNextTypes DEF MarkRows, Types, DbType, AppType, appVars, history

LEMMA CollectedType ==
  ASSUME Types, NEW t \in Tables, Collected(t) PROVE row' \in [Rows -> RowState]
  BY ClientAssumption DEF Collected, Types, DbType, NoRow, RowState, Stamps

LEMMA GcStepTypes == ASSUME Types, GcStep PROVE Types'
<1>1. tbl \in Tables
  BY DEF Types, EngineType
<1>2. row' \in [Rows -> RowState]
  BY <1>1, CollectedType DEF GcStep
<1>3. EngineType'
  <2>1. CASE tbl < NumTables
    BY <2>1, ClientAssumption DEF GcStep, Types, EngineType, Tables
  <2>2. CASE ~(tbl < NumTables)
    BY <2>2, EndSyncTypes DEF GcStep
  <2> QED
    BY <2>1, <2>2
<1> QED
  BY <1>2, <1>3 DEF GcStep, Types, DbType, AppType, appVars, history

LEMMA GcCommandTypes ==
  ASSUME Types, NEW t \in Tables, GcCommand(t) PROVE Types'
  BY CollectedType DEF GcCommand, Types, DbType, AppType, EngineType, appVars, history,
     engineVars

LEMMA PurgeSyncedTypes ==
  ASSUME Types, NEW kept \in SUBSET synced, PurgeSynced(kept) PROVE Types'
  BY DEF PurgeSynced, Types, DbType, AppType, EngineType, appVars, history, engineVars

LEMMA CrashTypes == ASSUME Types, Crash PROVE Types'
<1>1. DbType'
  <2>1. CASE tx.open
    BY <2>1, RestoreTypes DEF Crash
  <2>2. CASE ~tx.open
    BY <2>2 DEF Crash, Types, DbType, dbVars
  <2> QED
    BY <2>1, <2>2
<1> QED
  BY <1>1, EndAsTypes, ChunkInFlightTypes DEF Crash, Types, AppType

-----------------------------------------------------------------------------
LEMMA NextTypes == ASSUME Types, [Next]_vars PROVE Types'
<1>1. CASE App
  BY <1>1, WriteLocalChangeTypes, BeginTxTypes, TxWriteTypes, TxEnqueueTypes, CommitTxTypes,
     RollbackTxTypes DEF App
<1>2. CASE Engine
  BY <1>2, StatusAnswerTypes, PullAnswerTypes, ApplyBatchTypes, BatchFailsTypes,
     ApplyRowTypes, StoreCursorTypes, ReadTableTypes, QuarantineTypes, NothingToSendTypes,
     ChunkAnsweredTypes, ChunkRefusedTypes, MarkOutboxTypes, NothingAcceptedTypes,
     MarkRowsTypes, GcStepTypes
     DEF Engine
<1>3. CASE Commands
  BY <1>3, CommandTypes, GcCommandTypes, PurgeSyncedTypes DEF Commands
<1>4. CASE StepFails \/ Crash
  BY <1>4, StepFailsTypes, CrashTypes
<1>5. CASE UNCHANGED vars
  BY <1>5 DEF vars, dbVars, appVars, history, engineVars, Types, DbType, AppType, EngineType
<1> QED
  BY <1>1, <1>2, <1>3, <1>4, <1>5 DEF Next

(* Every variable keeps its type, whatever the rows, tables and bounds.    *)
THEOREM TypeCorrect == Spec => []TypeOK
<1>1. Spec => []Types
  BY InitTypes, NextTypes, PTL DEF Spec
<1> QED
  BY <1>1, TypesIsTypeOK, PTL

-----------------------------------------------------------------------------
(***************************************************************************)
(* MarkedOnlyIfSettled.  Its inductive strengthening speaks of the outbox  *)
(* (in the database and in the copy a rollback restores) and of the push   *)
(* being made; most actions leave one of the two alone.                    *)
(***************************************************************************)
OutboxPart == MarkedOnlyIfSettled /\ SavedIsSettled
PushPart ==
    /\ OneUnitPerRow /\ ReadInOrder
    /\ NoneAnsweredYet /\ AnsweredIsSettled /\ MarkingAllAnswered

LEMMA SettledJoin ==
  /\ SettledInv <=> OutboxPart /\ PushPart
  /\ SettledInv' <=> OutboxPart' /\ PushPart'
  BY DEF SettledInv, OutboxPart, PushPart

(* Nothing of a push exists yet, or any more.                              *)
LEMMA EmptyPush ==
  ASSUME push' = NoPush PROVE PushPart'
  BY DEF PushPart, OneUnitPerRow, ReadInOrder, NoneAnsweredYet, AnsweredIsSettled,
     MarkingAllAnswered, NoPush

(* A step that leaves the push alone, outside reading and marking.         *)
LEMMA SamePush ==
  ASSUME PushPart, push' = push, settled \subseteq settled',
         (pc' = pc /\ tbl' = tbl) \/ pc' \notin {"read", "quarantine", "markOutbox", "markRows"}
  PROVE  PushPart'
  BY DEF PushPart, OneUnitPerRow, ReadInOrder, NoneAnsweredYet, AnsweredIsSettled,
     MarkingAllAnswered

LEMMA SameOutbox ==
  ASSUME OutboxPart, UNCHANGED synced, UNCHANGED tx, settled \subseteq settled'
  PROVE  OutboxPart'
  BY DEF OutboxPart, MarkedOnlyIfSettled, SavedIsSettled

LEMMA AfterPullPush ==
  ASSUME PushPart, AfterPull, UNCHANGED settled PROVE PushPart'
<1>1. CASE mode = "pull"
  BY <1>1, EmptyPush DEF AfterPull, EndSync, EndAs
<1>2. CASE mode \in {"fullResync", "fullSync"} /\ ~pull.second
  BY <1>2, EmptyPush DEF AfterPull, StartPush
<1>3. CASE mode # "pull" /\ ~(mode \in {"fullResync", "fullSync"} /\ ~pull.second)
  <2>1. push' = push /\ pc' = "gc"
    BY <1>3 DEF AfterPull, StartGc
  <2> QED
    BY <2>1, SamePush
<1> QED
  BY <1>1, <1>2, <1>3

LEMMA AfterPushEmpties ==
  ASSUME NEW rejected, AfterPush(rejected) PROVE push' = NoPush
<1>1. CASE mode = "push"
  BY <1>1 DEF AfterPush, EndSync, EndAs
<1>2. CASE mode \in {"pushOnly", "fullSync"} /\ rejected # {}
  BY <1>2 DEF AfterPush
<1>3. CASE mode # "push" /\ ~(mode \in {"pushOnly", "fullSync"} /\ rejected # {})
  BY <1>3 DEF AfterPush
<1> QED
  BY <1>1, <1>2, <1>3

LEMMA AppSettled == ASSUME Types, SettledInv, App PROVE SettledInv'
<1>1. OutboxPart /\ PushPart
  BY SettledJoin
<1>2. UNCHANGED <<settled, pc, tbl, push>>
  BY DEF App, WriteLocalChange, BeginTx, TxWrite, TxEnqueue, CommitTx, RollbackTx, history,
     engineVars
<1>3. PushPart'
  BY <1>1, <1>2, SamePush
<1> SUFFICES OutboxPart'
  BY <1>3, SettledJoin
<1>4. CASE \E r \in Rows, st \in {"live", "deleted"} : WriteLocalChange(r, st)
  BY <1>1, <1>2, <1>4, SameOutbox DEF WriteLocalChange
<1>5. CASE BeginTx
  BY <1>1, <1>2, <1>5 DEF BeginTx, OutboxPart, MarkedOnlyIfSettled, SavedIsSettled,
     CurrentDb, dbVars
<1>6. CASE \E r \in Rows, st \in {"live", "deleted"} : TxWrite(r, st)
  <2>1. tx \in OpenTx /\ tx.saved = tx'.saved /\ UNCHANGED synced
    BY <1>6, OpenTxShape DEF TxWrite, OpenTx
  <2> QED
    BY <1>1, <1>2, <1>6, <2>1 DEF TxWrite, OutboxPart, MarkedOnlyIfSettled, SavedIsSettled
<1>7. CASE \E r \in Rows : TxEnqueue(r)
  <2>1. tx \in OpenTx /\ tx.saved = tx'.saved /\ UNCHANGED synced
    BY <1>7, OpenTxShape DEF TxEnqueue, OpenTx
  <2> QED
    BY <1>1, <1>2, <1>7, <2>1 DEF TxEnqueue, OutboxPart, MarkedOnlyIfSettled, SavedIsSettled
<1>8. CASE CommitTx
  BY <1>1, <1>2, <1>8 DEF CommitTx, OutboxPart, MarkedOnlyIfSettled, SavedIsSettled, NoTx,
     dbVars
<1>9. CASE RollbackTx
  BY <1>1, <1>2, <1>9 DEF RollbackTx, RestoreSaved, OutboxPart, MarkedOnlyIfSettled,
     SavedIsSettled, NoTx
<1> QED
  BY <1>4, <1>5, <1>6, <1>7, <1>8, <1>9 DEF App

LEMMA CommandsSettled == ASSUME Types, SettledInv, Commands PROVE SettledInv'
<1>1. OutboxPart /\ PushPart
  BY SettledJoin
<1>2. CASE SyncNow \/ SyncPush \/ SyncPull \/ SyncFullResync
  <2>1. OutboxPart'
    BY <1>1, <1>2, SameOutbox DEF SyncNow, SyncPush, SyncPull, SyncFullResync, dbVars,
       appVars, history
  <2>2. PushPart'
    BY <1>1, <1>2, SamePush, EmptyPush DEF SyncNow, SyncPush, SyncPull, SyncFullResync,
       StartPull, StartPush, history
  <2> QED
    BY <2>1, <2>2, SettledJoin
<1>3. CASE \E t \in Tables : GcCommand(t)
  <2>1. UNCHANGED <<synced, settled, tx, pc, tbl, push>>
    BY <1>3 DEF GcCommand, appVars, history, engineVars
  <2> QED
    BY <1>1, <2>1, SameOutbox, SamePush, SettledJoin
<1>4. CASE \E kept \in SUBSET synced : PurgeSynced(kept)
  <2>1. synced' \subseteq synced /\ UNCHANGED <<settled, tx, pc, tbl, push>>
    BY <1>4 DEF PurgeSynced, appVars, history, engineVars
  <2>2. OutboxPart'
    BY <1>1, <2>1 DEF OutboxPart, MarkedOnlyIfSettled, SavedIsSettled
  <2> QED
    BY <1>1, <2>1, <2>2, SamePush, SettledJoin
<1> QED
  BY <1>2, <1>3, <1>4 DEF Commands

LEMMA StatusSettled ==
  ASSUME SettledInv, NEW has, NEW changed, StatusAnswer(has, changed) PROVE SettledInv'
<1>1. OutboxPart'
  BY SettledJoin, SameOutbox DEF StatusAnswer, dbVars, appVars, history
<1>2. PushPart'
  BY SettledJoin, SamePush, EmptyPush DEF StatusAnswer, StartPull, StartPush, EndSync, EndAs,
     history
<1> QED
  BY <1>1, <1>2, SettledJoin

LEMMA PullSettled ==
  ASSUME SettledInv,
         \/ \E changes, c : PullAnswer(changes, c)
         \/ ApplyBatch \/ BatchFails \/ \E r, ok : ApplyRow(r, ok)
         \/ StoreCursor
  PROVE  SettledInv'
<1>1. OutboxPart'
  BY SettledJoin, SameOutbox DEF PullAnswer, ApplyBatch, BatchFails, ApplyRow, StoreCursor,
     dbVars, appVars, history
<1>2. CASE StoreCursor
  BY <1>1, <1>2, SettledJoin, AfterPullPush DEF StoreCursor, history
<1>3. CASE \E changes, c : PullAnswer(changes, c)
  BY <1>1, <1>3, SettledJoin, SamePush DEF PullAnswer, history
<1>4. CASE ApplyBatch \/ BatchFails
  BY <1>1, <1>4, SettledJoin, SamePush DEF ApplyBatch, BatchFails, history
<1>5. CASE \E r, ok : ApplyRow(r, ok)
  BY <1>1, <1>5, SettledJoin, SamePush DEF ApplyRow, history
<1> QED
  BY <1>2, <1>3, <1>4, <1>5

LEMMA ReadTableSettled == ASSUME Types, SettledInv, ReadTable PROVE SettledInv'
<1> DEFINE entries == {r \in RowsOf(tbl) : pending[r] # 0}
           gone    == {r \in entries : row[r].st = "absent"}
           found   == {[row |-> r, id |-> pending[r], upd |-> row[r].upd,
                        mine |-> row[r].mine] : r \in entries \ gone}
<1>1. push.units \subseteq Units /\ tbl \in Nat /\ NumTables \in Nat
  BY ClientAssumption DEF Types, EngineType, PushType, Tables
<1>2. OutboxPart'
  BY SettledJoin, SameOutbox DEF ReadTable, dbVars, appVars, history
<1>3. /\ push'.units = push.units \cup found
      /\ push'.accepted = push.accepted /\ push'.rejected = push.rejected
  BY DEF ReadTable, Types, EngineType, PushType
<1>4. \A u \in push.units : TableOf[u.row] < tbl
  BY DEF ReadTable, SettledInv, ReadInOrder
<1>5. \A u \in found : TableOf[u.row] = tbl
  BY DEF RowsOf
<1>6. \A u, v \in found : u.row = v.row => u = v
  OBVIOUS
<1>7. OneUnitPerRow'
  BY <1>1, <1>3, <1>4, <1>5, <1>6, ClientAssumption DEF SettledInv, OneUnitPerRow, Units
<1>8. \/ pc' = "quarantine" /\ tbl' = tbl
      \/ pc' = "read" /\ tbl' = tbl + 1
      \/ pc' = "send"
  BY DEF ReadTable, NextTable
<1>9. ReadInOrder'
  BY <1>1, <1>3, <1>4, <1>5, <1>8, ClientAssumption DEF ReadInOrder, Units
<1>10. push.accepted \cup push.rejected = {}
  BY DEF ReadTable, SettledInv, NoneAnsweredYet
<1>11. NoneAnsweredYet' /\ AnsweredIsSettled' /\ MarkingAllAnswered'
  BY <1>3, <1>8, <1>10 DEF NoneAnsweredYet, AnsweredIsSettled, MarkingAllAnswered
<1> QED
  BY <1>2, <1>7, <1>9, <1>11, SettledJoin DEF PushPart

LEMMA QuarantineSettled ==
  ASSUME Types, SettledInv, NEW m \in push.missing, NEW ok \in BOOLEAN, Quarantine(m, ok)
  PROVE  SettledInv'
<1>1. settled \subseteq settled' /\ synced' \subseteq synced \cup settled' /\ UNCHANGED tx
  BY DEF Quarantine, appVars
<1>2. OutboxPart'
  BY <1>1, SettledJoin DEF OutboxPart, MarkedOnlyIfSettled, SavedIsSettled
<1>3. /\ push'.units = push.units
      /\ push'.accepted = push.accepted /\ push'.rejected = push.rejected
  BY DEF Quarantine, Types, EngineType, PushType
<1>4. /\ pc = "quarantine"
      /\ \/ pc' = "quarantine" /\ tbl' = tbl
         \/ pc' = "read" /\ tbl' = tbl + 1
         \/ pc' = "send"
  BY DEF Quarantine, NextTable
<1>5. ReadInOrder'
  <2>1. tbl \in Nat /\ push.units \subseteq Units
    BY DEF Types, EngineType, PushType, Tables
  <2>2. \A u \in push.units : TableOf[u.row] <= tbl /\ TableOf[u.row] \in Nat
    BY <1>4, <2>1, ClientAssumption DEF SettledInv, ReadInOrder, Units
  <2> QED
    BY <1>3, <1>4, <2>1, <2>2 DEF ReadInOrder
<1>6. OneUnitPerRow' /\ NoneAnsweredYet' /\ AnsweredIsSettled' /\ MarkingAllAnswered'
  BY <1>1, <1>3, <1>4 DEF SettledInv, OneUnitPerRow, NoneAnsweredYet, AnsweredIsSettled,
     MarkingAllAnswered
<1> QED
  BY <1>2, <1>5, <1>6, SettledJoin DEF PushPart

LEMMA ChunkAnsweredSettled ==
  ASSUME Types, SettledInv, NEW chunk, NEW rej, ChunkAnswered(chunk, rej)
  PROVE  SettledInv'
<1> DEFINE answered == push.accepted \cup push.rejected
           rows     == {u.row : u \in chunk}
<1>1. settled' = settled \cup {u.id : u \in chunk} /\ UNCHANGED <<synced, tx>>
  BY DEF ChunkAnswered, dbVars, appVars
<1>2. OutboxPart'
  BY <1>1, SettledJoin DEF OutboxPart, MarkedOnlyIfSettled, SavedIsSettled
<1>3. /\ push'.units = push.units
      /\ push'.accepted \cup push'.rejected = answered \cup rows
  BY DEF ChunkAnswered, Types, EngineType, PushType
<1>4. chunk \subseteq push.units
  BY DEF ChunkAnswered, Left
<1>5. \A u \in push.units : u.row \in rows => u \in chunk
  BY <1>4 DEF SettledInv, OneUnitPerRow
<1>6. AnsweredIsSettled'
  BY <1>1, <1>3, <1>5 DEF SettledInv, AnsweredIsSettled
<1>7. \/ pc' = "markOutbox" /\ Left = chunk
      \/ pc' = "send"
  BY DEF ChunkAnswered
<1>8. MarkingAllAnswered'
  BY <1>3, <1>7 DEF MarkingAllAnswered, Left
<1>9. OneUnitPerRow' /\ ReadInOrder' /\ NoneAnsweredYet'
  BY <1>3, <1>7 DEF SettledInv, OneUnitPerRow, ReadInOrder, NoneAnsweredYet
<1> QED
  BY <1>2, <1>6, <1>8, <1>9, SettledJoin DEF PushPart

LEMMA MarkNextPush ==
  ASSUME PushPart, MarkNext, UNCHANGED settled, pc \in {"markOutbox", "markRows"}
  PROVE  PushPart'
<1>1. CASE tbl < NumTables
  BY <1>1 DEF MarkNext, PushPart, OneUnitPerRow, ReadInOrder, NoneAnsweredYet,
     AnsweredIsSettled, MarkingAllAnswered
<1>2. CASE ~(tbl < NumTables)
  BY <1>2, AfterPushEmpties, EmptyPush DEF MarkNext
<1> QED
  BY <1>1, <1>2

LEMMA MarkOutboxSettled == ASSUME Types, SettledInv, MarkOutbox PROVE SettledInv'
<1> DEFINE sent == {u \in push.units : TableOf[u.row] = tbl}
           hit(r) == \E u \in sent : u.row = r /\ u.id = pending[r]
<1>1. \A u \in push.units : u.id \in settled
  BY DEF MarkOutbox, SettledInv, MarkingAllAnswered, AnsweredIsSettled
<1>2. \A r \in Rows : hit(r) => pending[r] \in settled
  BY <1>1
<1>3. synced' \subseteq synced \cup settled /\ UNCHANGED <<settled, tx, push, tbl>>
  BY <1>2 DEF MarkOutbox, appVars, history
<1>4. OutboxPart'
  BY <1>3, SettledJoin DEF OutboxPart, MarkedOnlyIfSettled, SavedIsSettled
<1>5. PushPart'
  BY <1>3, SettledJoin DEF MarkOutbox, PushPart, OneUnitPerRow, ReadInOrder,
     NoneAnsweredYet, AnsweredIsSettled, MarkingAllAnswered
<1> QED
  BY <1>4, <1>5, SettledJoin

LEMMA MarkingSettled ==
  ASSUME SettledInv, NothingAccepted \/ MarkRows PROVE SettledInv'
<1>1. OutboxPart'
  BY SettledJoin, SameOutbox DEF NothingAccepted, MarkRows, dbVars, appVars, history
<1>2. PushPart'
  BY SettledJoin, MarkNextPush DEF NothingAccepted, MarkRows, history
<1> QED
  BY <1>1, <1>2, SettledJoin

LEMMA NothingToSendSettled == ASSUME SettledInv, NothingToSend PROVE SettledInv'
<1>1. OutboxPart'
  BY SettledJoin, SameOutbox DEF NothingToSend, dbVars, appVars, history
<1>2. PushPart'
  BY AfterPushEmpties, EmptyPush DEF NothingToSend
<1> QED
  BY <1>1, <1>2, SettledJoin

LEMMA GcStepSettled == ASSUME SettledInv, GcStep PROVE SettledInv'
<1>1. OutboxPart'
  BY SettledJoin, SameOutbox DEF GcStep, appVars, history
<1>2. PushPart'
  BY SettledJoin, SamePush, EmptyPush DEF GcStep, EndSync, EndAs, history
<1> QED
  BY <1>1, <1>2, SettledJoin

LEMMA FailureSettled ==
  ASSUME SettledInv, StepFails \/ Crash \/ \E chunk \in SUBSET Left : ChunkRefused(chunk)
  PROVE  SettledInv'
<1>1. PushPart'
  BY EmptyPush DEF StepFails, Crash, ChunkRefused, EndAs
<1>2. CASE StepFails \/ \E chunk \in SUBSET Left : ChunkRefused(chunk)
  BY <1>1, <1>2, SettledJoin, SameOutbox DEF StepFails, ChunkRefused, dbVars, appVars, history
<1>3. CASE Crash
  BY <1>1, <1>3, SettledJoin DEF Crash, RestoreSaved, OutboxPart, MarkedOnlyIfSettled,
     SavedIsSettled, NoTx, dbVars
<1> QED
  BY <1>2, <1>3

LEMMA NextSettled == ASSUME Types, SettledInv, [Next]_vars PROVE SettledInv'
<1>1. CASE App
  BY <1>1, AppSettled
<1>2. CASE Engine
  BY <1>2, StatusSettled, PullSettled, ReadTableSettled, QuarantineSettled,
     NothingToSendSettled, ChunkAnsweredSettled, FailureSettled, MarkOutboxSettled,
     MarkingSettled, GcStepSettled DEF Engine
<1>3. CASE Commands
  BY <1>3, CommandsSettled
<1>4. CASE StepFails \/ Crash
  BY <1>4, FailureSettled
<1>5. CASE UNCHANGED vars
  BY <1>5, SettledJoin, SameOutbox, SamePush DEF vars, dbVars, appVars, history, engineVars
<1> QED
  BY <1>1, <1>2, <1>3, <1>4, <1>5 DEF Next

(* An outbox entry carries synced_at only after the server has answered    *)
(* for it or its row is gone, whatever fails, crashes, rolls back or       *)
(* interleaves (mark_outbox_synced_by_outbox_ids_tx and the quarantine).   *)
THEOREM MarkedOnlyIfSettledHolds == Spec => []MarkedOnlyIfSettled
<1>1. Init => Types /\ SettledInv
  BY InitTypes DEF Init, SettledInv, MarkedOnlyIfSettled, SavedIsSettled, OneUnitPerRow,
     ReadInOrder, NoneAnsweredYet, AnsweredIsSettled, MarkingAllAnswered, NoPush, NoTx
<1>2. (Types /\ SettledInv) /\ [Next]_vars => (Types /\ SettledInv)'
  BY NextTypes, NextSettled
<1>3. SettledInv => MarkedOnlyIfSettled
  BY DEF SettledInv
<1> QED
  BY <1>1, <1>2, <1>3, PTL DEF Spec

-----------------------------------------------------------------------------
(***************************************************************************)
(* CursorNotAhead, with interactive transactions: what a rollback restores *)
(* is as sound as what it undoes, and the answer being applied is torn.    *)
(***************************************************************************)
LEMMA SameCursor ==
  ASSUME CursorInv, UNCHANGED <<cursor, through, tx, torn>>, pc' # "cursor"
  PROVE  CursorInv'
  BY DEF CursorInv, CursorNotAhead

LEMMA AfterPullLeavesCursor == ASSUME AfterPull PROVE pc' # "cursor"
<1>1. CASE mode = "pull"
  BY <1>1 DEF AfterPull, EndSync, EndAs
<1>2. CASE mode \in {"fullResync", "fullSync"} /\ ~pull.second
  BY <1>2 DEF AfterPull, StartPush
<1>3. CASE mode # "pull" /\ ~(mode \in {"fullResync", "fullSync"} /\ ~pull.second)
  BY <1>3 DEF AfterPull, StartGc
<1> QED
  BY <1>1, <1>2, <1>3

LEMMA AfterPushLeavesCursor ==
  ASSUME NEW rejected, AfterPush(rejected) PROVE pc' # "cursor"
<1>1. CASE mode = "push"
  BY <1>1 DEF AfterPush, EndSync, EndAs
<1>2. CASE mode \in {"pushOnly", "fullSync"} /\ rejected # {}
  BY <1>2 DEF AfterPush, StartPull
<1>3. CASE mode # "push" /\ ~(mode \in {"pushOnly", "fullSync"} /\ rejected # {})
  BY <1>3 DEF AfterPush, StartGc
<1> QED
  BY <1>1, <1>2, <1>3

LEMMA AppCursor == ASSUME Types, CursorInv, App PROVE CursorInv'
<1>1. CASE (\E r \in Rows, st \in {"live", "deleted"} : WriteLocalChange(r, st)) \/ CommitTx
  BY <1>1 DEF WriteLocalChange, CommitTx, CursorInv, CursorNotAhead, NoTx, dbVars, history,
     engineVars
<1>2. CASE BeginTx
  BY <1>2 DEF BeginTx, CurrentDb, CursorInv, CursorNotAhead, dbVars, history, engineVars
<1>3. CASE \/ \E r \in Rows, st \in {"live", "deleted"} : TxWrite(r, st)
           \/ \E r \in Rows : TxEnqueue(r)
  <2>1. tx.open /\ tx'.saved = tx.saved
    BY <1>3, OpenTxShape DEF TxWrite, TxEnqueue, OpenTx
  <2> QED
    BY <1>3, <2>1 DEF TxWrite, TxEnqueue, CursorInv, CursorNotAhead, history, engineVars
<1>4. CASE RollbackTx
  BY <1>4 DEF RollbackTx, RestoreSaved, CursorInv, CursorNotAhead, NoTx, engineVars
<1> QED
  BY <1>1, <1>2, <1>3, <1>4 DEF App

LEMMA ApplyCursor ==
  ASSUME Types, CursorInv, ApplyBatch \/ \E r, ok : ApplyRow(r, ok)
  PROVE  CursorInv'
<1>1. UNCHANGED <<cursor, tx, torn>> /\ pull'.cursor = pull.cursor
  BY DEF ApplyBatch, ApplyRow, appVars, history, Types, EngineType, PullType
<1>2. CASE WentThrough
  BY <1>1, <1>2 DEF WentThrough, CursorInv, CursorNotAhead
<1>3. CASE UNCHANGED <<pc, through>>
  BY <1>1, <1>3 DEF CursorInv, CursorNotAhead
<1> QED
  BY <1>2, <1>3 DEF ApplyBatch, ApplyRow

LEMMA StoreCursorCursor == ASSUME CursorInv, StoreCursor PROVE CursorInv'
<1>1. cursor' # 0 => cursor' \in through' \cup torn'
  BY DEF StoreCursor, CursorInv, CursorNotAhead, history
<1> QED
  BY <1>1, AfterPullLeavesCursor DEF StoreCursor, CursorInv, CursorNotAhead, appVars, history

LEMMA EngineCursor == ASSUME Types, CursorInv, Engine PROVE CursorInv'
<1>1. CASE \E has \in BOOLEAN, changed \in SUBSET Tables : StatusAnswer(has, changed)
  BY <1>1, SameCursor DEF StatusAnswer, StartPull, StartPush, EndSync, EndAs, dbVars, appVars, history
<1>2. CASE \E changes \in [Rows -> Changes], c \in 0..MaxCursor : PullAnswer(changes, c)
  BY <1>2, SameCursor DEF PullAnswer, dbVars, appVars, history
<1>3. CASE ApplyBatch \/ \E r \in Rows, ok \in BOOLEAN : ApplyRow(r, ok)
  BY <1>3, ApplyCursor
<1>4. CASE StoreCursor
  BY <1>4, StoreCursorCursor
<1>5. CASE BatchFails
  BY <1>5, SameCursor DEF BatchFails, dbVars, appVars, history
<1>6. CASE ReadTable \/ \E m \in push.missing, ok \in BOOLEAN : Quarantine(m, ok)
  BY <1>6, SameCursor DEF ReadTable, Quarantine, NextTable, dbVars, appVars, history
<1>7. CASE NothingToSend
  BY <1>7, SameCursor, AfterPushLeavesCursor DEF NothingToSend, dbVars, appVars, history
<1>8. CASE \E chunk \in SUBSET Left : \E rej \in SUBSET {u.row : u \in chunk} :
              ChunkAnswered(chunk, rej)
  BY <1>8, SameCursor DEF ChunkAnswered, dbVars, appVars
<1>12. CASE \E chunk \in SUBSET Left : ChunkRefused(chunk)
  BY <1>12, SameCursor DEF ChunkRefused, EndAs, dbVars, appVars, history
<1>9. CASE MarkOutbox
  BY <1>9, SameCursor DEF MarkOutbox, appVars, history
<1>10. CASE NothingAccepted \/ MarkRows
  BY <1>10, SameCursor, AfterPushLeavesCursor DEF NothingAccepted, MarkRows, MarkNext,
     dbVars, appVars, history
<1>11. CASE GcStep
  BY <1>11, SameCursor DEF GcStep, EndSync, EndAs, appVars, history
<1> QED
  BY <1>1, <1>2, <1>3, <1>4, <1>5, <1>6, <1>7, <1>8, <1>9, <1>10, <1>11, <1>12
     DEF Engine

LEMMA OtherCursor ==
  ASSUME CursorInv, Commands \/ StepFails \/ Crash \/ UNCHANGED vars PROVE CursorInv'
<1>1. CASE SyncNow \/ SyncPush \/ SyncPull \/ SyncFullResync
  BY <1>1, SameCursor DEF SyncNow, SyncPush, SyncPull, SyncFullResync, StartPush, StartPull,
     dbVars, appVars, history
<1>2. CASE \/ \E t \in Tables : GcCommand(t)
           \/ \E kept \in SUBSET synced : PurgeSynced(kept)
           \/ UNCHANGED vars
  BY <1>2 DEF GcCommand, PurgeSynced, vars, dbVars, appVars, history, engineVars, CursorInv,
     CursorNotAhead
<1>3. CASE StepFails
  BY <1>3, SameCursor DEF StepFails, EndAs, dbVars, appVars
<1>4. CASE Crash
  BY <1>4 DEF Crash, RestoreSaved, EndAs, CursorInv, CursorNotAhead, NoTx, dbVars
<1> QED
  BY <1>1, <1>2, <1>3, <1>4 DEF Commands

(* A stored cursor is that of an answer gone through to its last row,      *)
(* wherever the process dies or a statement fails between                  *)
(* apply_pull_batch_tables_tx and set_last_cursor_tx, save for answers     *)
(* that a rollback of the application's fell upon.                         *)
THEOREM CursorNotAheadHolds == Spec => []CursorNotAhead
<1>1. Init => Types /\ CursorInv
  BY InitTypes DEF Init, CursorInv, CursorNotAhead, NoTx
<1>2. (Types /\ CursorInv) /\ [Next]_vars => (Types /\ CursorInv)'
  BY NextTypes, AppCursor, EngineCursor, OtherCursor DEF Next
<1>3. CursorInv => CursorNotAhead
  BY DEF CursorInv
<1> QED
  BY <1>1, <1>2, <1>3, PTL DEF Spec

-----------------------------------------------------------------------------
(***************************************************************************)
(* What becomes of the application's edits, with or without interactive    *)
(* transactions, as long as the application's writes clear is_synced.      *)
(***************************************************************************)

(***************************************************************************)
(* EditOK says of one row, in the database or in the copy a rollback       *)
(* restores: a local edit that waits for the server is what the row holds, *)
(* is not flagged, and has an entry, or will have one when the statement   *)
(* after it has run.                                                       *)
(***************************************************************************)
EditOK(s, entry, e, excused) ==
    /\ e <= clock
    /\ s.mine => s.st # "absent" /\ e = s.upd /\ e # 0
    /\ e # 0 /\ e \notin excused => s.mine /\ ~s.flag /\ entry
RowOK(r) == EditOK(row[r], pending[r] # 0 \/ r \in HalfWritten, edit[r], told \cup raced)
SavedOK(r) ==
    tx.open => EditOK(tx.saved.row[r], tx.saved.pending[r] # 0, tx.saved.edit[r],
                      told \cup tx.saved.raced)
(* One row is half written, and bears the latest stamp alone.              *)
HalfOK == \A r \in HalfWritten : clock # 0 /\ \A q \in Rows \ {r} :
              q \notin HalfWritten /\ edit[q] # clock
RowsOK == HalfOK /\ \A r \in Rows : RowOK(r) /\ SavedOK(r)

(* An answered unit has told the server of the edit it carried.            *)
AnsweredIsTold ==
    \A u \in push.units : u.row \in push.accepted \cup push.rejected /\ u.mine => u.upd \in told

EditInv == RowsOK /\ AnsweredIsTold

-----------------------------------------------------------------------------
(***************************************************************************)
(* Steps that touch no row, and what a step must show when the application *)
(* takes no part in it.                                                    *)
(***************************************************************************)
LEMMA EngineRows ==
    ASSUME RowsOK, UNCHANGED <<tx, clock>>, told \subseteq told',
           \A r \in Rows : edit'[r] \in {edit[r], 0},
           \A r \in Rows : RowOK(r)'
    PROVE  RowsOK'
<1>1. HalfOK'
    BY DEF RowsOK, HalfOK, HalfWritten
<1>2. ASSUME NEW r \in Rows PROVE SavedOK(r)'
    BY DEF RowsOK, SavedOK, EditOK
<1> QED
    BY <1>1, <1>2 DEF RowsOK

LEMMA SameRows ==
    ASSUME RowsOK, UNCHANGED <<row, pending, edit, raced, tx, clock>>, told \subseteq told'
    PROVE  RowsOK'
<1>1. ASSUME NEW r \in Rows PROVE RowOK(r)'
    BY DEF RowsOK, RowOK, EditOK, HalfWritten
<1> QED
    BY <1>1, EngineRows

LEMMA SameTold ==
    ASSUME AnsweredIsTold, told \subseteq told', push' = push \/ push' = NoPush
    PROVE  AnsweredIsTold'
BY DEF AnsweredIsTold, NoPush

-----------------------------------------------------------------------------
(***************************************************************************)
(* The application.                                                        *)
(***************************************************************************)
LEMMA WriteLocalChangeRows ==
    ASSUME WriterClears, Types, RowsOK,
           NEW r \in Rows, NEW st \in {"live", "deleted"}, WriteLocalChange(r, st)
    PROVE  RowsOK'
<1> USE DEF WriteLocalChange, history
<1>1. HalfWritten' = {} /\ clock \in Nat /\ \A q \in Rows : edit[q] \in Nat
    BY ClientAssumption DEF HalfWritten, Types, AppType, DbType, Stamps
<1>2. ASSUME NEW q \in Rows PROVE RowOK(q)'
    <2>1. CASE q = r
        <3>1. row'[q] = Edited(r, st) /\ edit'[q] = clock + 1 /\ pending'[q] # 0
            BY <1>1, <2>1, ClientAssumption DEF Types, DbType, Enqueued
        <3>2. Edited(r, st).mine /\ ~Edited(r, st).flag /\ Edited(r, st).upd = clock + 1
              /\ Edited(r, st).st # "absent"
            BY DEF Edited
        <3> QED
            BY <1>1, <3>1, <3>2 DEF RowOK, EditOK
    <2>2. CASE q # r
        <3>1. row'[q] = row[q] /\ edit'[q] = edit[q] /\ pending'[q] = pending[q]
            BY <2>2 DEF Types, DbType
        <3>2. q \notin HalfWritten
            BY DEF HalfWritten
        <3> QED
            BY <1>1, <3>1, <3>2 DEF RowsOK, RowOK, EditOK
    <2> QED
        BY <2>1, <2>2
<1>3. HalfOK' /\ \A q \in Rows : SavedOK(q)'
    BY <1>1 DEF HalfOK, SavedOK
<1> QED
    BY <1>2, <1>3 DEF RowsOK

LEMMA BeginTxRows == ASSUME RowsOK, BeginTx PROVE RowsOK'
<1> USE DEF BeginTx, history, dbVars
<1>1. HalfWritten = {} /\ HalfWritten' = {} /\ UNCHANGED <<row, pending, edit, raced, clock, told>>
    BY DEF HalfWritten
<1>2. tx'.saved = CurrentDb
    OBVIOUS
<1>3. ASSUME NEW r \in Rows PROVE RowOK(r)' /\ SavedOK(r)'
    BY <1>1, <1>2 DEF RowsOK, RowOK, SavedOK, EditOK, CurrentDb
<1> QED
    BY <1>1, <1>3 DEF RowsOK, HalfOK

LEMMA TxWriteRows ==
    ASSUME WriterClears, Types, RowsOK,
           NEW r \in Rows, NEW st \in {"live", "deleted"}, TxWrite(r, st)
    PROVE  RowsOK'
<1> USE DEF TxWrite, history
<1>1. /\ HalfWritten = {} /\ HalfWritten' = {r} /\ tx'.open /\ tx'.saved = tx.saved
      /\ clock \in Nat /\ \A q \in Rows : edit[q] \in Nat
    BY OpenTxShape, ClientAssumption DEF HalfWritten, Types, AppType, DbType, Stamps, OpenTx
<1>2. ASSUME NEW q \in Rows PROVE RowOK(q)'
    <2>1. CASE q = r
        <3>1. row'[q] = Edited(r, st) /\ edit'[q] = clock + 1 /\ q \in HalfWritten'
            BY <1>1, <2>1 DEF Types, DbType
        <3>2. Edited(r, st).mine /\ ~Edited(r, st).flag /\ Edited(r, st).upd = clock + 1
              /\ Edited(r, st).st # "absent"
            BY DEF Edited
        <3> QED
            BY <1>1, <3>1, <3>2 DEF RowOK, EditOK
    <2>2. CASE q # r
        <3>1. row'[q] = row[q] /\ edit'[q] = edit[q] /\ pending'[q] = pending[q]
            BY <2>2 DEF Types, DbType
        <3> QED
            BY <1>1, <3>1 DEF RowsOK, RowOK, EditOK
    <2> QED
        BY <2>1, <2>2
<1>3. \A q \in Rows : edit[q] <= clock
    BY DEF RowsOK, RowOK, EditOK
<1>4. ASSUME NEW q \in Rows \ {r} PROVE edit'[q] # clock'
    <2>1. edit'[q] = edit[q]
        BY DEF Types, DbType
    <2> QED
        BY <1>1, <1>3, <2>1
<1>5. HalfOK'
    BY <1>1, <1>4 DEF HalfOK
<1>6. ASSUME NEW q \in Rows PROVE SavedOK(q)'
    <2>1. tx.saved.edit[q] \in Nat
        BY OpenTxShape, ClientAssumption DEF OpenTx, Database, Stamps
    <2> QED
        BY <1>1, <2>1 DEF RowsOK, SavedOK, EditOK
<1> QED
    BY <1>2, <1>5, <1>6 DEF RowsOK

(* The entry that follows a half-written row makes its edit wait again.    *)
LEMMA TxEnqueueRows ==
    ASSUME Types, RowsOK, NEW r \in Rows, TxEnqueue(r) PROVE RowsOK'
<1> USE DEF TxEnqueue, history
<1>1. /\ r \in HalfWritten /\ HalfWritten' = {} /\ tx'.open /\ tx'.saved = tx.saved
      /\ clock # 0
    BY OpenTxShape DEF HalfWritten, RowsOK, HalfOK, OpenTx
<1>2. pending'[r] # 0 /\ \A q \in Rows \ {r} : pending'[q] = pending[q] /\ q \notin HalfWritten
    BY <1>1 DEF Types, DbType, Enqueued, RowsOK, HalfOK
<1>3. ASSUME NEW q \in Rows PROVE RowOK(q)'
    <2>1. CASE q = r
        <3>1. CASE row[r].mine /\ ~row[r].flag
            BY <1>2, <2>1, <3>1 DEF RowsOK, RowOK, EditOK
        <3>2. CASE ~(row[r].mine /\ ~row[r].flag)
            BY <1>2, <2>1, <3>2 DEF RowsOK, RowOK, EditOK
        <3> QED
            BY <3>1, <3>2
    <2>2. CASE q # r
        <3>1. edit[q] # clock
            BY <1>1, <2>2 DEF RowsOK, HalfOK
        <3>2. edit[q] \in told \cup raced => edit[q] \in told \cup raced'
            BY <3>1
        <3> QED
            BY <1>2, <2>2, <3>2 DEF RowsOK, RowOK, EditOK
    <2> QED
        BY <2>1, <2>2
<1>4. HalfOK' /\ \A q \in Rows : SavedOK(q)'
    BY <1>1 DEF RowsOK, HalfOK, SavedOK, EditOK
<1> QED
    BY <1>3, <1>4 DEF RowsOK

LEMMA CommitTxRows == ASSUME RowsOK, CommitTx PROVE RowsOK'
<1>1. HalfWritten = {} /\ HalfWritten' = {} /\ ~tx'.open
    BY DEF CommitTx, HalfWritten, NoTx
<1> QED
    BY <1>1 DEF CommitTx, dbVars, history, RowsOK, HalfOK, RowOK, SavedOK, EditOK

LEMMA RestoreRows ==
    ASSUME RowsOK, tx.open, RestoreSaved, tx' = NoTx, UNCHANGED <<clock, told>> PROVE RowsOK'
<1>1. HalfWritten' = {} /\ ~tx'.open
    BY DEF HalfWritten, NoTx
<1> QED
    BY <1>1 DEF RestoreSaved, RowsOK, HalfOK, RowOK, SavedOK, EditOK

-----------------------------------------------------------------------------
(***************************************************************************)
(* The engine.                                                             *)
(***************************************************************************)
(* A change from the server replaces a waiting edit only by a row at least *)
(* as new or a tombstone, and then the edit is over.                       *)
LEMMA AppliedOK ==
    ASSUME Types, RowsOK, UNCHANGED <<pending, raced, tx, clock, told>>,
           \A r \in Rows : \E c : row'[r] = Applied(row[r], c) /\ edit'[r] = EditAfter(r, c)
    PROVE  RowsOK'
<1>1. ASSUME NEW r \in Rows PROVE RowOK(r)' /\ edit'[r] \in {edit[r], 0}
    <2>1. PICK c : row'[r] = Applied(row[r], c) /\ edit'[r] = EditAfter(r, c)
        OBVIOUS
    <2>2. RowOK(r) /\ HalfWritten' = HalfWritten /\ clock \in Nat /\ edit[r] \in Nat
        BY ClientAssumption DEF RowsOK, HalfWritten, Types, AppType, DbType, Stamps
    <2>3. CASE ~Overwrites(row[r], c)
        BY <2>1, <2>2, <2>3 DEF Applied, EditAfter, RowOK, EditOK
    <2>4. CASE Overwrites(row[r], c)
        <3>1. row'[r] = Incoming(c) /\ ~Incoming(c).mine
            BY <2>1, <2>4 DEF Applied, Incoming
        <3>2. CASE c.do = "delete" \/ c.upd >= row[r].upd
            <4>1. edit'[r] = 0
                BY <2>1, <2>4, <3>2 DEF EditAfter
            <4> QED
                BY <2>2, <3>1, <4>1 DEF RowOK, EditOK
        <3>3. CASE ~(c.do = "delete" \/ c.upd >= row[r].upd)
            <4>1. edit'[r] = edit[r]
                BY <2>1, <3>3 DEF EditAfter
            <4>2. row[r].mine => row[r].flag
                BY <2>2, <2>4, <3>3 DEF Overwrites, RowOK, EditOK
            <4> QED
                BY <2>2, <3>1, <4>1, <4>2 DEF RowOK, EditOK
        <3> QED
            BY <3>2, <3>3
    <2> QED
        BY <2>3, <2>4, <2>1 DEF EditAfter
<1> QED
    BY <1>1, EngineRows

LEMMA ApplyRows ==
    ASSUME Types, RowsOK,
           ApplyBatch \/ \E r \in Rows, ok \in BOOLEAN : ApplyRow(r, ok)
    PROVE  RowsOK'
<1>1. CASE ApplyBatch
    BY <1>1, AppliedOK DEF ApplyBatch, appVars, history
<1>2. ASSUME NEW r \in Rows, NEW ok \in BOOLEAN, ApplyRow(r, ok) PROVE RowsOK'
    <2> DEFINE c == IF ok THEN pull.changes[r] ELSE NoChange
    <2>1. /\ row' = [row EXCEPT ![r] = Applied(@, c)]
          /\ edit' = [edit EXCEPT ![r] = EditAfter(r, c)]
        BY <1>2 DEF ApplyRow
    <2>2. ASSUME NEW q \in Rows
          PROVE  \E d : row'[q] = Applied(row[q], d) /\ edit'[q] = EditAfter(q, d)
        <3>1. Applied(row[q], NoChange) = row[q] /\ EditAfter(q, NoChange) = edit[q]
            BY DEF Applied, EditAfter, Overwrites, NoChange
        <3>2. CASE q = r
            <4>1. row'[q] = Applied(row[q], c) /\ edit'[q] = EditAfter(q, c)
                BY <2>1, <3>2 DEF Types, DbType
            <4> QED
                BY <4>1
        <3>3. CASE q # r
            <4>1. row'[q] = row[q] /\ edit'[q] = edit[q]
                BY <2>1, <3>3 DEF Types, DbType
            <4> QED
                BY <3>1, <4>1
        <3> QED
            BY <3>2, <3>3
    <2> HIDE DEF c
    <2> QED
        BY <1>2, <2>2, AppliedOK DEF ApplyRow, appVars, history
<1> QED
    BY <1>1, <1>2

(* An entry put aside takes with it only an edit that is then excused.     *)
LEMMA QuarantineRows ==
    ASSUME Types, RowsOK, NEW m \in push.missing, NEW ok \in BOOLEAN, Quarantine(m, ok)
    PROVE  RowsOK'
<1> DEFINE marked == ok /\ pending[m[1]] = m[2]
<1>1. /\ UNCHANGED <<row, edit, tx, clock, told>>
      /\ pending' = [pending EXCEPT ![m[1]] = IF marked THEN 0 ELSE @]
      /\ raced' = IF marked /\ row[m[1]].st # "absent" THEN RacedBy({m[1]}) ELSE raced
    BY DEF Quarantine, appVars
<1>2. raced \subseteq raced' /\ HalfWritten' = HalfWritten
    BY <1>1 DEF RacedBy, HalfWritten
<1>3. ASSUME NEW r \in Rows PROVE RowOK(r)'
    <2>1. RowOK(r)
        BY DEF RowsOK
    <2>2. CASE pending'[r] = pending[r]
        BY <1>1, <1>2, <2>1, <2>2 DEF RowOK, EditOK
    <2>3. CASE pending'[r] # pending[r]
        <3>1. r = m[1] /\ marked
            BY <1>1, <2>3 DEF Types, DbType
        <3>2. row[r].st # "absent" /\ edit[r] # 0 => edit[r] \in raced'
            BY <1>1, <3>1 DEF RacedBy
        <3> QED
            BY <1>1, <1>2, <2>1, <3>2 DEF RowOK, EditOK
    <2> QED
        BY <2>2, <2>3
<1> QED
    BY <1>1, <1>3, EngineRows

(* An entry is marked when the unit it was sent in was answered; if that   *)
(* unit carried the edit the server was told, if not the edit is excused.  *)
LEMMA MarkOutboxRows ==
    ASSUME Types, SettledInv, EditInv, MarkOutbox PROVE RowsOK'
<1> DEFINE sent == {u \in push.units : TableOf[u.row] = tbl}
           hit(r) == \E u \in sent : u.row = r /\ u.id = pending[r]
           late == {u.row : u \in {v \in sent : hit(v.row) /\ ~UpToDate(v)}}
<1>1. /\ UNCHANGED <<row, edit, tx, clock, told>> /\ pc = "markOutbox"
      /\ pending' = [r \in Rows |-> IF hit(r) THEN 0 ELSE pending[r]]
      /\ raced' = RacedBy(late)
    BY DEF MarkOutbox, appVars, history
<1>2. raced \subseteq raced' /\ HalfWritten' = HalfWritten
    BY <1>1 DEF RacedBy, HalfWritten
<1>3. ASSUME NEW r \in Rows PROVE RowOK(r)'
    <2>1. RowOK(r)
        BY DEF EditInv, RowsOK
    <2>2. CASE ~hit(r)
        BY <1>1, <1>2, <2>1, <2>2 DEF RowOK, EditOK
    <2>3. CASE hit(r)
        <3>1. PICK u \in sent : u.row = r
            BY <2>3
        <3>2. CASE UpToDate(u)
            <4>1. u.mine => u.upd \in told
                BY <1>1, <3>1 DEF SettledInv, MarkingAllAnswered, EditInv, AnsweredIsTold
            <4>2. u.mine = row[r].mine /\ u.upd = row[r].upd
                BY <3>1, <3>2 DEF UpToDate
            <4>3. row[r].mine => edit[r] \in told
                BY <2>1, <4>1, <4>2 DEF RowOK, EditOK
            <4> QED
                BY <1>1, <1>2, <2>1, <4>3 DEF RowOK, EditOK
        <3>3. CASE ~UpToDate(u)
            <4>1. r \in late
                BY <2>3, <3>1, <3>3
            <4>2. edit[r] # 0 => edit[r] \in raced'
                BY <1>1, <4>1 DEF RacedBy
            <4> QED
                BY <1>1, <1>2, <2>1, <4>2 DEF RowOK, EditOK
        <3> QED
            BY <3>2, <3>3
    <2> QED
        BY <2>2, <2>3
<1> QED
    BY <1>1, <1>3, EngineRows DEF EditInv

(* is_synced = 1 comes to a row without an entry only: if its edit waits,  *)
(* it is the half-written one, which is then excused.                      *)
LEMMA MarkRowsRows == ASSUME Types, RowsOK, MarkRows PROVE RowsOK'
<1> DEFINE late == {r \in AcceptedIn(tbl) \cap HalfWritten : pending[r] = 0}
           flagged(r) == r \in AcceptedIn(tbl) /\ pending[r] = 0 /\ row[r].st # "absent"
<1>1. /\ UNCHANGED <<pending, edit, tx, clock, told>>
      /\ row' = [r \in Rows |-> IF flagged(r) THEN [row[r] EXCEPT !.flag = TRUE] ELSE row[r]]
      /\ raced' = RacedBy(late)
    BY DEF MarkRows, appVars, history
<1>2. raced \subseteq raced' /\ HalfWritten' = HalfWritten
    BY <1>1 DEF RacedBy, HalfWritten
<1>3. ASSUME NEW r \in Rows PROVE RowOK(r)'
    <2>1. RowOK(r)
        BY DEF RowsOK
    <2>2. CASE ~flagged(r)
        BY <1>1, <1>2, <2>1, <2>2 DEF RowOK, EditOK
    <2>3. CASE flagged(r)
        <3>1. r \in HalfWritten /\ edit[r] # 0 => edit[r] \in raced'
            BY <1>1, <2>3 DEF RacedBy
        <3>2. /\ row'[r].mine = row[r].mine /\ row'[r].upd = row[r].upd
              /\ row'[r].st = row[r].st
            BY <1>1, <2>3 DEF Types, DbType, RowState
        <3> QED
            BY <1>1, <1>2, <2>1, <2>3, <3>1, <3>2 DEF RowOK, EditOK
    <2> QED
        BY <2>2, <2>3
<1> QED
    BY <1>1, <1>3, EngineRows

(* A collected tombstone is flagged, so no edit of it waits.               *)
LEMMA CollectedRows ==
    ASSUME Types, RowsOK, NEW t, Collected(t),
           UNCHANGED <<pending, edit, raced, tx, clock, told>>
    PROVE  RowsOK'
<1>1. ASSUME NEW r \in Rows PROVE RowOK(r)'
    <2>1. row'[r] = row[r] \/ (row[r].flag /\ row'[r] = NoRow)
        BY DEF Collected
    <2> QED
        BY <2>1 DEF RowsOK, RowOK, EditOK, HalfWritten, NoRow
<1> QED
    BY <1>1, EngineRows

-----------------------------------------------------------------------------
(***************************************************************************)
(* All steps.                                                              *)
(***************************************************************************)
LEMMA AfterPullPushes == ASSUME AfterPull PROVE push' = push \/ push' = NoPush
<1>1. CASE mode = "pull"
    BY <1>1 DEF AfterPull, EndSync, EndAs
<1>2. CASE mode \in {"fullResync", "fullSync"} /\ ~pull.second
    BY <1>2 DEF AfterPull, StartPush
<1>3. CASE mode # "pull" /\ ~(mode \in {"fullResync", "fullSync"} /\ ~pull.second)
    BY <1>3 DEF AfterPull
<1> QED
    BY <1>1, <1>2, <1>3

LEMMA AppEdits == ASSUME WriterClears, Types, EditInv, App PROVE EditInv'
<1>1. AnsweredIsTold'
    BY SameTold DEF EditInv, App, WriteLocalChange, BeginTx, TxWrite, TxEnqueue, CommitTx,
       RollbackTx, history, engineVars
<1>2. RowsOK'
    <2>1. CASE \E r \in Rows, st \in {"live", "deleted"} :
                   WriteLocalChange(r, st) \/ TxWrite(r, st)
        BY <2>1, WriteLocalChangeRows, TxWriteRows DEF EditInv
    <2>2. CASE \E r \in Rows : TxEnqueue(r)
        BY <2>2, TxEnqueueRows DEF EditInv
    <2>3. CASE BeginTx \/ CommitTx
        BY <2>3, BeginTxRows, CommitTxRows DEF EditInv
    <2>4. CASE RollbackTx
        BY <2>4, RestoreRows DEF EditInv, RollbackTx, history
    <2> QED
        BY <2>1, <2>2, <2>3, <2>4 DEF App
<1> QED
    BY <1>1, <1>2 DEF EditInv

LEMMA ChunkAnsweredTold ==
    ASSUME SettledInv, AnsweredIsTold, Types,
           NEW chunk \in SUBSET Left, NEW rej \in SUBSET {u.row : u \in chunk},
           ChunkAnswered(chunk, rej)
    PROVE  AnsweredIsTold'
<1>1. /\ told' = told \cup {u.upd : u \in {v \in chunk : v.mine}}
      /\ push'.units = push.units
      /\ push'.accepted \cup push'.rejected
            \subseteq push.accepted \cup push.rejected \cup {u.row : u \in chunk}
    BY DEF ChunkAnswered, Types, EngineType, PushType
<1>2. ASSUME NEW u \in push.units, u.mine,
             u.row \in push.accepted \cup push.rejected \cup {v.row : v \in chunk}
      PROVE  u.upd \in told'
    <2>1. CASE u.row \in push.accepted \cup push.rejected
        BY <1>1, <1>2, <2>1 DEF AnsweredIsTold
    <2>2. CASE u.row \in {v.row : v \in chunk}
        <3>1. PICK v \in chunk : v.row = u.row
            BY <2>2
        <3>2. v = u
            BY <3>1 DEF SettledInv, OneUnitPerRow, Left
        <3> QED
            BY <1>1, <1>2, <3>1, <3>2
    <2> QED
        BY <1>2, <2>1, <2>2
<1> QED
    BY <1>1, <1>2 DEF AnsweredIsTold

LEMMA EngineEdits ==
    ASSUME Types, SettledInv, EditInv, Engine PROVE EditInv'
<1> USE DEF EditInv
<1>1. CASE \E has \in BOOLEAN, changed \in SUBSET Tables : StatusAnswer(has, changed)
    BY <1>1, SameRows, SameTold DEF StatusAnswer, StartPull, StartPush, EndSync, EndAs, dbVars,
       appVars, history
<1>2. CASE \E changes \in [Rows -> Changes], c \in 0..MaxCursor : PullAnswer(changes, c)
    BY <1>2, SameRows, SameTold DEF PullAnswer, dbVars, appVars, history
<1>3. CASE ApplyBatch \/ \E r \in Rows, ok \in BOOLEAN : ApplyRow(r, ok)
    BY <1>3, ApplyRows, SameTold DEF ApplyBatch, ApplyRow, history
<1>4. CASE BatchFails
    BY <1>4, SameRows, SameTold DEF BatchFails, dbVars, appVars, history
<1>5. CASE StoreCursor
    BY <1>5, SameRows, SameTold, AfterPullPushes DEF StoreCursor, appVars, history
<1>6. CASE ReadTable
    <2>1. RowsOK'
        BY <1>6, SameRows DEF ReadTable, dbVars, appVars, history
    <2>2. push'.accepted \cup push'.rejected = {}
        BY <1>6 DEF ReadTable, SettledInv, NoneAnsweredYet, Types, EngineType, PushType
    <2> QED
        BY <2>1, <2>2 DEF AnsweredIsTold
<1>7. CASE \E m \in push.missing, ok \in BOOLEAN : Quarantine(m, ok)
    <2>1. RowsOK'
        BY <1>7, QuarantineRows
    <2>2. /\ push'.units = push.units /\ push'.accepted = push.accepted
          /\ push'.rejected = push.rejected /\ told' = told
        BY <1>7 DEF Quarantine, Types, EngineType, PushType
    <2> QED
        BY <2>1, <2>2 DEF AnsweredIsTold
<1>8. CASE NothingToSend
    BY <1>8, SameRows, SameTold, AfterPushEmpties DEF NothingToSend, dbVars, appVars, history
<1>9. CASE \E chunk \in SUBSET Left : \E rej \in SUBSET {u.row : u \in chunk} :
               ChunkAnswered(chunk, rej)
    BY <1>9, SameRows, ChunkAnsweredTold DEF ChunkAnswered, dbVars, appVars
<1>13. CASE \E chunk \in SUBSET Left : ChunkRefused(chunk)
    BY <1>13, SameRows, SameTold DEF ChunkRefused, EndAs, dbVars, appVars, history
<1>10. CASE MarkOutbox
    BY <1>10, MarkOutboxRows, SameTold DEF MarkOutbox, history
<1>11. CASE NothingAccepted \/ MarkRows
    <2>1. push' = push \/ push' = NoPush
        BY <1>11, AfterPushEmpties DEF NothingAccepted, MarkRows, MarkNext
    <2> QED
        BY <1>11, <2>1, MarkRowsRows, SameRows, SameTold
           DEF NothingAccepted, MarkRows, dbVars, appVars, history
<1>12. CASE GcStep
    BY <1>12, CollectedRows, SameTold DEF GcStep, EndSync, EndAs, appVars, history
<1> QED
    BY <1>1, <1>2, <1>3, <1>4, <1>5, <1>6, <1>7, <1>8, <1>9, <1>10, <1>11, <1>12, <1>13
       DEF Engine

LEMMA OtherEdits ==
    ASSUME Types, EditInv, Commands \/ StepFails \/ Crash \/ UNCHANGED vars PROVE EditInv'
<1> USE DEF EditInv
<1>1. CASE SyncNow \/ SyncPush \/ SyncPull \/ SyncFullResync
    BY <1>1, SameRows, SameTold DEF SyncNow, SyncPush, SyncPull, SyncFullResync, StartPush,
       StartPull, dbVars, appVars, history
<1>2. CASE \E t \in Tables : GcCommand(t)
    BY <1>2, CollectedRows, SameTold DEF GcCommand, appVars, history, engineVars
<1>3. CASE (\E kept \in SUBSET synced : PurgeSynced(kept)) \/ UNCHANGED vars
    BY <1>3, SameRows, SameTold DEF PurgeSynced, vars, dbVars, appVars, history, engineVars
<1>4. CASE StepFails
    BY <1>4, SameRows, SameTold DEF StepFails, EndAs, dbVars, appVars, history
<1>5. CASE Crash
    <2>1. AnsweredIsTold' /\ UNCHANGED <<clock, told>>
        BY <1>5, SameTold DEF Crash, EndAs, history
    <2>2. CASE tx.open
        BY <1>5, <2>1, <2>2, RestoreRows DEF Crash
    <2>3. CASE ~tx.open
        BY <1>5, <2>1, <2>3 DEF Crash, dbVars, RowsOK, HalfOK, RowOK, SavedOK, EditOK,
           HalfWritten, NoTx
    <2> QED
        BY <2>1, <2>2, <2>3
<1> QED
    BY <1>1, <1>2, <1>3, <1>4, <1>5 DEF Commands

LEMMA EditInvHolds == ASSUME WriterClears PROVE Spec => [](Types /\ EditInv)
<1>1. Init => Types /\ SettledInv /\ EditInv
    <2> SUFFICES ASSUME Init PROVE Types /\ SettledInv /\ EditInv
        OBVIOUS
    <2>1. SettledInv
        BY DEF Init, SettledInv, MarkedOnlyIfSettled, SavedIsSettled, OneUnitPerRow,
           ReadInOrder, NoneAnsweredYet, AnsweredIsSettled, MarkingAllAnswered, NoPush, NoTx
    <2>2. EditInv
        BY DEF Init, EditInv, RowsOK, HalfOK, RowOK, SavedOK, EditOK, HalfWritten,
           AnsweredIsTold, NoRow, NoTx, NoPush
    <2> QED
        BY <2>1, <2>2, InitTypes
<1>2. (Types /\ SettledInv /\ EditInv) /\ [Next]_vars => (Types /\ SettledInv /\ EditInv)'
    BY NextTypes, NextSettled, AppEdits, EngineEdits, OtherEdits DEF Next
<1> QED
    BY <1>1, <1>2, PTL DEF Spec

(* NoEditForgotten: whatever is interleaved, rolled back, lost or crashed, *)
(* an edit the server has not answered for is in its row and will be sent, *)
(* except one made while its entry was in flight.                          *)
THEOREM NoEditForgottenHolds == ASSUME WriterClears PROVE Spec => []NoEditForgotten
<1>1. Types /\ EditInv => NoEditForgotten
    BY DEF EditInv, RowsOK, RowOK, EditOK, NoEditForgotten, Waiting
<1> QED
    BY <1>1, EditInvHolds, PTL

(* FlagEarned: is_synced = 1 on an edited row means the server has         *)
(* answered for that very edit, or the edit was made while in flight.      *)
THEOREM FlagEarnedHolds == ASSUME WriterClears PROVE Spec => []FlagEarned
<1>1. Types /\ EditInv => FlagEarned
    BY DEF EditInv, RowsOK, RowOK, EditOK, FlagEarned
<1> QED
    BY <1>1, EditInvHolds, PTL
=============================================================================
