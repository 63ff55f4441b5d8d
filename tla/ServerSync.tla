------------------------------ MODULE ServerSync ------------------------------
(***************************************************************************)
(* The server's changes and one device that pulls them: what a cursor is   *)
(* worth when pushes and pulls overlap.                                    *)
(*                                                                         *)
(* A push handler takes its timestamp, and only then writes its rows, one  *)
(* statement each.  A status or pull handler reads the tables in turn, two *)
(* statements each, and answers with the highest timestamp it has seen as  *)
(* the cursor.  Any of these statements may come between any others.       *)
(*                                                                         *)
(* A row is the push that wrote it last; an upsert and a soft delete are   *)
(* the same to a cursor.  Pushes of this device come back to it as those   *)
(* of others do.  What the device edits itself is ClientSync's concern.    *)
(***************************************************************************)
EXTENDS Naturals, FiniteSets

CONSTANTS
    Rows,      \* keys of the synced rows, over all tables
    NumTables, \* tables are 1..NumTables, in the order both sides use
    TableOf,   \* the table of each row
    Pushes,    \* the runs of applyPushChanges; a retry is a run of its own
    MaxTime    \* bound: the clock's last millisecond

ASSUME ServerAssumption ==
    /\ NumTables \in Nat \ {0}
    /\ TableOf \in [Rows -> 1..NumTables]
    /\ "none" \notin Pushes
    /\ MaxTime \in Nat \ {0}

VARIABLES
    now,       \* the server's clock
    stamp,     \* syncUpdatedAt of each push, or 0
    todo,      \* the rows each push has still to write
    srow,      \* the push that wrote each row of the server last, or None
    have,      \* the version of each row on the device
    cursor,    \* the device's last_cursor; 0 is the empty string
    pc,        \* the next step of the request in progress
    kind,      \* what is requested: a status, or a pull by its start cursor
    asked,     \* the tables the pull asks for
    since,     \* the cursor of the request
    tbl,       \* the table the handler has reached
    latest,    \* the highest timestamp it has seen
    page,      \* the rows it has read
    answer,    \* the cursor it answers with
    overtaken, \* history: rows whose last write came too late for the cursor
    fresh      \* history: is the sync undisturbed by writes, and how it ended

server   == <<now, stamp, todo, srow>>
device   == <<have, cursor>>
request  == <<kind, asked, since, tbl, latest, page>>
vars     == <<server, device, pc, request, answer, overtaken, fresh>>

None == "none"
Tables == 1..NumTables
At(r) == IF srow[r] = None THEN 0 ELSE stamp[srow[r]]
In(t) == {r \in Rows : TableOf[r] = t}

Init ==
    /\ now = 1
    /\ stamp = [p \in Pushes |-> 0] /\ todo = [p \in Pushes |-> {}]
    /\ srow = [r \in Rows |-> None]
    /\ have = [r \in Rows |-> None] /\ cursor = 0
    /\ pc = "idle" /\ kind = "status" /\ asked = {} /\ since = 0
    /\ tbl = 1 /\ latest = 0 /\ page = [r \in Rows |-> None]
    /\ answer = 0
    /\ overtaken = {} /\ fresh = "no"

-----------------------------------------------------------------------------
(***************************************************************************)
(* What the device is owed.  A sync that will move the cursor has passed a *)
(* row when it will not look at it again: its table has been read, or is   *)
(* not asked for, since the status found it unchanged.                     *)
(***************************************************************************)
Looked(t) == t < tbl \/ pc \in {"answer", "store"}
Changed == {t \in Tables : \E r \in In(t) : page[r] # None}
Passed(r) ==
    /\ pc # "idle"
    /\ \/ kind = "status" /\ cursor # 0 /\ Looked(TableOf[r]) /\ TableOf[r] \notin Changed
       \/ (kind = "stored" \/ (kind = "baseline" /\ cursor = 0))
              /\ (TableOf[r] \in asked => Looked(TableOf[r]))

-----------------------------------------------------------------------------
(***************************************************************************)
(* The server: time and pushes.                                            *)
(***************************************************************************)
Tick ==
    /\ now < MaxTime
    /\ now' = now + 1
    /\ UNCHANGED <<stamp, todo, srow, device, pc, request, answer, overtaken, fresh>>

(* Mutant: the timestamp is rounded up.                                    *)
ReceivePushAhead(p, rows) ==
    /\ stamp[p] = 0
    /\ stamp' = [stamp EXCEPT ![p] = now + 1]
    /\ todo' = [todo EXCEPT ![p] = rows]
    /\ UNCHANGED <<now, srow, device, pc, request, answer, overtaken, fresh>>

(* The handler takes syncUpdatedAt before anything else is awaited.        *)
ReceivePush(p, rows) ==
    /\ stamp[p] = 0
    /\ stamp' = [stamp EXCEPT ![p] = now]
    /\ todo' = [todo EXCEPT ![p] = rows]
    /\ UNCHANGED <<now, srow, device, pc, request, answer, overtaken, fresh>>

(* One upsertRow or softDeleteRow, in the order of the tables.             *)
WriteRow(p, r) ==
    /\ r \in todo[p]
    /\ \A q \in todo[p] : TableOf[r] <= TableOf[q]
    /\ srow' = [srow EXCEPT ![r] = p]
    /\ todo' = [todo EXCEPT ![p] = @ \ {r}]
    /\ overtaken' = IF stamp[p] <= cursor \/ Passed(r) THEN overtaken \cup {r}
                                                       ELSE overtaken \ {r}
    /\ fresh' = "no"
    /\ UNCHANGED <<now, stamp, device, pc, request, answer>>

(* A write that throws, or the end of the process: the rest is not written.*)
PushFails(p) ==
    /\ todo[p] # {}
    /\ todo' = [todo EXCEPT ![p] = {}]
    /\ UNCHANGED <<now, stamp, srow, device, pc, request, answer, overtaken, fresh>>

-----------------------------------------------------------------------------
(***************************************************************************)
(* The device's requests.                                                  *)
(***************************************************************************)
Request(k, tables) ==
    /\ pc' = "latest"
    /\ kind' = k
    /\ asked' = tables
    /\ since' = IF k = "baseline" THEN 0 ELSE cursor
    /\ tbl' = 1
    /\ latest' = 0
    /\ page' = [r \in Rows |-> None]

EndSync(how) ==
    /\ pc' = "idle"
    /\ fresh' = IF fresh = "running" THEN how ELSE fresh

(* Once no sync is in progress, a row above the cursor will be asked for.  *)
Settle(c) == overtaken' = {r \in overtaken : At(r) <= c}

SyncNow ==
    /\ pc = "idle"
    /\ Request("status", Tables)
    /\ fresh' = "running"
    /\ UNCHANGED <<server, device, answer, overtaken>>

SyncPull ==
    /\ pc = "idle"
    /\ Request("stored", Tables)
    /\ fresh' = "running"
    /\ UNCHANGED <<server, device, answer, overtaken>>

SyncFullResync ==
    /\ pc = "idle"
    /\ Request("baseline", Tables)
    /\ fresh' = "running"
    /\ UNCHANGED <<server, device, answer, overtaken>>

(* The pull of the tables of rejected rows that follows a push.            *)
Reconcile(tables) ==
    /\ pc = "idle"
    /\ cursor # 0
    /\ tables # {}
    /\ Request("baseline", tables)
    /\ UNCHANGED <<server, device, answer, overtaken, fresh>>

-----------------------------------------------------------------------------
(***************************************************************************)
(* The handlers: readTableSnapshots, two statements for each table.        *)
(***************************************************************************)
(* readLatestRow.                                                          *)
ReadLatest ==
    /\ pc = "latest"
    /\ latest' \in {latest} \cup {At(r) : r \in In(tbl)}
    /\ \A t \in {latest} \cup {At(r) : r \in In(tbl)} : t <= latest'
    /\ pc' = "rows"
    /\ UNCHANGED <<server, device, kind, asked, since, tbl, page, answer, overtaken, fresh>>

NextTable ==
    /\ tbl' = IF tbl < NumTables THEN tbl + 1 ELSE tbl
    /\ pc' = IF tbl < NumTables THEN "latest" ELSE "answer"

Reading(from) ==
    /\ pc = "rows"
    /\ page' = [r \in Rows |-> IF TableOf[r] = tbl /\ At(r) > from THEN srow[r] ELSE page[r]]
    /\ NextTable
    /\ UNCHANGED <<server, device, kind, asked, since, latest, answer, overtaken, fresh>>

(* Mutant: a baseline request is read from the cursor too.                 *)
ReadRowsSinceCursor == Reading(cursor)

(* readRows: the rows above the cursor of the request, the deleted as well.*)
ReadRows == Reading(since)

-----------------------------------------------------------------------------
(***************************************************************************)
(* The device takes the answer.                                            *)
(***************************************************************************)
StatusAnswered ==
    /\ pc = "answer"
    /\ kind = "status"
    /\ \/ /\ cursor = 0
          /\ Request("baseline", Tables)
          /\ UNCHANGED <<overtaken, fresh>>
       \/ /\ cursor # 0
          /\ Changed = {}
          /\ EndSync("done")
          /\ Settle(cursor)
          /\ UNCHANGED request
       \/ /\ cursor # 0
          /\ Changed # {}
          /\ Request("stored", Changed)
          /\ UNCHANGED <<overtaken, fresh>>
    /\ UNCHANGED <<server, device, answer>>

Delivered == {r \in Rows : page[r] # None /\ TableOf[r] \in asked}

(* apply_pull_batch_tables_tx, one transaction.                            *)
PullAnswered ==
    /\ pc = "answer"
    /\ kind # "status"
    /\ have' = [r \in Rows |-> IF r \in Delivered THEN page[r] ELSE have[r]]
    /\ answer' = IF latest = 0 THEN now ELSE latest
    /\ overtaken' = {r \in overtaken : r \in Delivered => page[r] # srow[r]}
    /\ pc' = "store"
    /\ UNCHANGED <<server, cursor, request, fresh>>

Storing(c) ==
    /\ pc = "store"
    /\ cursor' = c
    /\ EndSync(IF kind = "baseline" THEN "healed" ELSE "done")
    /\ Settle(c)
    /\ UNCHANGED <<server, have, request, answer>>

(* Mutant: a pull from the start moves the cursor like any other.          *)
StoreAnyCursor == Storing(answer)

(* set_last_cursor_tx, after the batch and outside its transaction.        *)
StoreCursor == Storing(IF kind = "stored" \/ cursor = 0 THEN answer ELSE cursor)

(* A lost request or answer, a batch that fails, the end of the app.       *)
Abort ==
    /\ pc # "idle"
    /\ EndSync("no")
    /\ Settle(cursor)
    /\ UNCHANGED <<server, device, request, answer>>

-----------------------------------------------------------------------------
Next ==
    \/ Tick
    \/ \E p \in Pushes : PushFails(p)
    \/ \E p \in Pushes, rows \in SUBSET Rows : ReceivePush(p, rows)
    \/ \E p \in Pushes, r \in Rows : WriteRow(p, r)
    \/ SyncNow \/ SyncPull \/ SyncFullResync
    \/ \E tables \in SUBSET Tables : Reconcile(tables)
    \/ ReadLatest \/ ReadRows
    \/ StatusAnswered \/ PullAnswered \/ StoreCursor \/ Abort

Spec == Init /\ [][Next]_vars

-----------------------------------------------------------------------------
(***************************************************************************)
(* Properties.                                                             *)
(***************************************************************************)
Versions == Pushes \cup {None}

(* Every variable has its type, and no timestamp or cursor is ahead of the *)
(* server's clock.                                                         *)
TypeOK ==
    /\ now \in 1..MaxTime
    /\ stamp \in [Pushes -> 0..now]
    /\ todo \in [Pushes -> SUBSET Rows]
    /\ srow \in [Rows -> Versions] /\ have \in [Rows -> Versions]
    /\ cursor \in 0..now
    /\ pc \in {"idle", "latest", "rows", "answer", "store"}
    /\ kind \in {"status", "stored", "baseline"}
    /\ asked \subseteq Tables
    /\ since \in 0..now /\ latest \in 0..now /\ answer \in 0..now
    /\ tbl \in Tables
    /\ page \in [Rows -> Versions]
    /\ overtaken \subseteq Rows
    /\ fresh \in {"no", "running", "done", "healed"}

(* The device is past a row it does not have only when the row was written *)
(* with a timestamp the cursor had reached, or behind the handler that was *)
(* reading for it: reading the latest row before the rows, and storing the *)
(* cursor of no partial pull, lose nothing else.                           *)
SkippedOnlyIfOvertaken ==
    \A r \in Rows : At(r) <= cursor /\ have[r] # srow[r] => r \in overtaken

(* A sync during which no row was written leaves the device with every row *)
(* but the overtaken, and a full resync with these too.                    *)
QuietSyncIsComplete ==
    /\ fresh = "done" => \A r \in Rows \ overtaken : have[r] = srow[r]
    /\ fresh = "healed" => have = srow
=============================================================================
