--------------------------- MODULE ServerSyncProofs ---------------------------
(***************************************************************************)
(* SkippedOnlyIfOvertaken and QuietSyncIsComplete for any rows, tables,    *)
(* pushes and clock: of ServerSync first, where a cursor is a time, and    *)
(* then of CursorText, where it is a text.                                 *)
(***************************************************************************)
EXTENDS CursorText, FiniteSetTheorems, WellFoundedInduction, TLAPS

(***************************************************************************)
(* The inductive invariant, row by row.  PassedOK is the heart: what a     *)
(* sync will not look at again is old, or late, or already in its hands.   *)
(* PageOK keeps a page read early from putting an old version over a new   *)
(* one unseen.  StampOK keeps a push from changing the time of rows.       *)
(***************************************************************************)
SkippedOK(r) == At(r) <= cursor /\ have[r] # srow[r] => r \in overtaken
Held(r) == IF pc = "store" THEN have[r] ELSE page[r]
PassedOK(r) ==
    Passed(r) => \/ At(r) <= cursor
                 \/ r \in overtaken
                 \/ kind # "status" /\ TableOf[r] \in asked /\ Held(r) = srow[r]
PageOK(r) == pc # "idle" /\ page[r] # None /\ page[r] # srow[r]
                 => At(r) > cursor \/ r \in overtaken
StampOK(r) == srow[r] # None => stamp[srow[r]] # 0
RequestOK ==
    /\ pc # "idle" => since = IF kind = "baseline" THEN 0 ELSE cursor
    /\ pc = "store" => kind # "status"
TodoOK == \A p \in Pushes : todo[p] # {} => stamp[p] # 0

RowInv ==
    /\ RequestOK
    /\ TodoOK
    /\ \A r \in Rows : SkippedOK(r) /\ PassedOK(r) /\ PageOK(r) /\ StampOK(r)

Inv == TypeOK /\ RowInv

(* A row is as old as the push that wrote it, which is in the past.        *)
LEMMA AtType ==
    ASSUME TypeOK, NEW r \in Rows PROVE At(r) \in 0..now
BY DEF TypeOK, At, Versions, None

-----------------------------------------------------------------------------
THEOREM InitType == Init => TypeOK
BY ServerAssumption DEF Init, TypeOK, Tables, Versions, None

(* Every step keeps the types and the clock ahead of all it stamped.       *)
THEOREM StepType == TypeOK /\ [Next]_vars => TypeOK'
<1> SUFFICES ASSUME TypeOK, [Next]_vars PROVE TypeOK'
    OBVIOUS
<1> USE ServerAssumption
<1>1. CASE Tick
    BY <1>1 DEF Tick, TypeOK, device, request, Tables, Versions
<1>2. ASSUME NEW p \in Pushes, PushFails(p) PROVE TypeOK'
    BY <1>2 DEF PushFails, TypeOK, device, request, Tables, Versions
<1>3. ASSUME NEW p \in Pushes, NEW rows \in SUBSET Rows, ReceivePush(p, rows)
      PROVE  TypeOK'
    BY <1>3 DEF ReceivePush, TypeOK, device, request, Tables, Versions
<1>4. ASSUME NEW p \in Pushes, NEW r \in Rows, WriteRow(p, r) PROVE TypeOK'
    BY <1>4 DEF WriteRow, TypeOK, device, request, Tables, Versions
<1>5. CASE SyncNow
    BY <1>5 DEF SyncNow, Request, TypeOK, server, device, Tables, Versions
<1>6. CASE SyncPull
    BY <1>6 DEF SyncPull, Request, TypeOK, server, device, Tables, Versions
<1>7. CASE SyncFullResync
    BY <1>7 DEF SyncFullResync, Request, TypeOK, server, device, Tables, Versions
<1>8. ASSUME NEW tables \in SUBSET Tables, Reconcile(tables) PROVE TypeOK'
    BY <1>8 DEF Reconcile, Request, TypeOK, server, device, Tables, Versions
<1>9. CASE ReadLatest
    <2>1. latest' \in 0..now
        BY <1>9, AtType DEF ReadLatest, TypeOK, In
    <2> QED
        BY <1>9, <2>1 DEF ReadLatest, TypeOK, server, device, Tables, Versions
<1>10. CASE ReadRows
    <2>1. tbl' \in Tables /\ pc' \in {"latest", "answer"}
        BY <1>10 DEF ReadRows, Reading, NextTable, TypeOK, Tables
    <2> QED
        BY <1>10, <2>1 DEF ReadRows, Reading, TypeOK, server, device, Versions
<1>11. CASE StatusAnswered
    <2> USE DEF TypeOK, server, device, request, Tables, Versions
    <2>1. CASE Request("baseline", Tables) /\ UNCHANGED <<overtaken, fresh>>
        BY <1>11, <2>1 DEF StatusAnswered, Request
    <2>2. CASE EndSync("done") /\ Settle(cursor) /\ UNCHANGED request
        BY <1>11, <2>2 DEF StatusAnswered, EndSync, Settle
    <2>3. CASE Request("stored", Changed) /\ UNCHANGED <<overtaken, fresh>>
        <3>1. Changed \subseteq Tables
            BY DEF Changed
        <3> HIDE DEF TypeOK
        <3>2. UNCHANGED <<now, stamp, todo, srow, have, cursor, answer>>
            BY <1>11 DEF StatusAnswered
        <3>3. page' \in [Rows -> Versions] /\ asked' \subseteq Tables /\ tbl' \in Tables
            BY <2>3, <3>1 DEF Request
        <3> QED
            BY <2>3, <3>2, <3>3 DEF Request, TypeOK
    <2> QED
        BY <1>11, <2>1, <2>2, <2>3 DEF StatusAnswered
<1>12. CASE PullAnswered
    BY <1>12 DEF PullAnswered, TypeOK, server, request, Tables, Versions
<1>13. CASE StoreCursor
    BY <1>13 DEF StoreCursor, Storing, EndSync, Settle, TypeOK, server, request, Tables, Versions
<1>14. CASE Abort
    BY <1>14 DEF Abort, EndSync, Settle, TypeOK, server, device, request, Tables, Versions
<1>15. CASE UNCHANGED vars
    BY <1>15 DEF vars, TypeOK, server, device, request, Tables, Versions
<1> QED
    BY <1>1, <1>2, <1>3, <1>4, <1>5, <1>6, <1>7, <1>8, <1>9, <1>10, <1>11, <1>12, <1>13,
       <1>14, <1>15 DEF Next

(* TypeOK for all values of the constants.                                 *)
THEOREM TypeCorrect == Spec => []TypeOK
BY InitType, StepType, PTL DEF Spec

-----------------------------------------------------------------------------
THEOREM InitRows == Init => RowInv
BY DEF Init, RowInv, RequestOK, TodoOK, SkippedOK, PassedOK, PageOK, StampOK, At, Passed, None

(* What a request starts with: nothing read, and nothing passed but what   *)
(* it does not ask for.                                                    *)
LEMMA AfterRequest ==
    ASSUME Inv, NEW k \in {"status", "stored", "baseline"}, NEW tables \in SUBSET Tables,
           Request(k, tables), UNCHANGED <<server, device, overtaken>>,
           \A r \in Rows : \/ k = "status"
                           \/ k = "baseline" /\ cursor # 0
                           \/ TableOf[r] \in tables
                           \/ At(r) <= cursor
                           \/ r \in overtaken
    PROVE  RowInv'
<1> USE ServerAssumption DEF server, device
<1>1. RequestOK' /\ TodoOK'
    BY DEF Inv, RowInv, RequestOK, TodoOK, Request
<1>2. ASSUME NEW r \in Rows PROVE (SkippedOK(r) /\ PassedOK(r) /\ PageOK(r) /\ StampOK(r))'
    <2>1. SkippedOK(r)' /\ StampOK(r)' /\ PageOK(r)' /\ At(r)' = At(r)
        BY <1>2 DEF Inv, RowInv, SkippedOK, StampOK, PageOK, At, Request
    <2>2. TableOf[r] \in Tables /\ ~(TableOf[r] < tbl')
        BY DEF Request, Tables
    <2>3. PassedOK(r)'
        BY <2>1, <2>2 DEF PassedOK, Passed, Looked, Request
    <2> QED
        BY <2>1, <2>3
<1> QED
    BY <1>1, <1>2 DEF RowInv

(* Nothing is passed once the device is idle.                              *)
LEMMA AfterEnd ==
    ASSUME Inv, pc' = "idle", UNCHANGED <<server, have>>, Settle(cursor'), cursor' \in Nat,
           \A r \in Rows : At(r) <= cursor' /\ have[r] # srow[r] => r \in overtaken
    PROVE  RowInv'
<1> USE DEF server
<1>1. RequestOK' /\ TodoOK'
    BY DEF Inv, RowInv, RequestOK, TodoOK
<1>2. ASSUME NEW r \in Rows PROVE (SkippedOK(r) /\ PassedOK(r) /\ PageOK(r) /\ StampOK(r))'
    BY <1>2 DEF Inv, RowInv, SkippedOK, PassedOK, PageOK, StampOK, At, Settle, Passed
<1> QED
    BY <1>1, <1>2 DEF RowInv

-----------------------------------------------------------------------------
(* A stamp is set once, before any row bears it.                           *)
LEMMA ReceiveRows ==
    ASSUME Inv, NEW p \in Pushes, NEW rows \in SUBSET Rows, ReceivePush(p, rows)
    PROVE  RowInv'
<1> USE ServerAssumption DEF ReceivePush, device, request
<1>1. p # None /\ now # 0
    BY DEF None, Inv, TypeOK
<1>2. TodoOK' /\ RequestOK'
    BY <1>1 DEF Inv, RowInv, TypeOK, TodoOK, RequestOK
<1>3. ASSUME NEW r \in Rows PROVE (SkippedOK(r) /\ PassedOK(r) /\ PageOK(r) /\ StampOK(r))'
    <2>1. srow[r] = None \/ (srow[r] \in Pushes /\ srow[r] # p)
        BY DEF Inv, RowInv, TypeOK, StampOK, Versions
    <2>2. At(r)' = At(r) /\ StampOK(r)'
        BY <2>1, <1>1 DEF Inv, RowInv, TypeOK, StampOK, At
    <2>3. Passed(r)' <=> Passed(r)
        BY DEF Passed, Looked, Changed, In
    <2> QED
        BY <1>3, <2>2, <2>3 DEF Inv, RowInv, SkippedOK, PassedOK, PageOK, Held
<1> QED
    BY <1>2, <1>3 DEF RowInv

(* A row written behind the cursor or the handler is overtaken; any other  *)
(* is above the cursor and still to be looked at.                          *)
LEMMA WriteRows ==
    ASSUME Inv, NEW p \in Pushes, NEW w \in Rows, WriteRow(p, w)
    PROVE  RowInv'
<1> USE ServerAssumption DEF WriteRow, device, request
<1>1. p # None /\ stamp[p] # 0 /\ stamp[p] \in Nat /\ cursor \in Nat
    BY DEF None, Inv, RowInv, TodoOK, TypeOK
<1>2. TodoOK' /\ RequestOK'
    BY DEF Inv, RowInv, TypeOK, TodoOK, RequestOK
<1>3. ASSUME NEW r \in Rows PROVE (SkippedOK(r) /\ PassedOK(r) /\ PageOK(r) /\ StampOK(r))'
    <2>1. Passed(r)' <=> Passed(r)
        BY DEF Passed, Looked, Changed, In
    <2>2. CASE r = w
        <3>1. srow'[w] = p /\ At(w)' = stamp[p]
            BY <1>1 DEF Inv, TypeOK, At
        <3>2. stamp[p] <= cursor \/ Passed(w) => w \in overtaken'
            OBVIOUS
        <3> QED
            BY <1>1, <2>1, <2>2, <3>1, <3>2 DEF SkippedOK, PassedOK, PageOK, StampOK
    <2>3. CASE r # w
        <3>1. srow'[r] = srow[r] /\ At(r)' = At(r)
            BY <2>3 DEF Inv, TypeOK, At
        <3>2. r \in overtaken' <=> r \in overtaken
            BY <2>3
        <3> QED
            BY <1>3, <2>1, <3>1, <3>2
               DEF Inv, RowInv, SkippedOK, PassedOK, PageOK, StampOK, Held
    <2> QED
        BY <2>2, <2>3
<1> QED
    BY <1>2, <1>3 DEF RowInv

(* The row read last was in the table when its rows are read, or later.    *)
LEMMA ReadRowsRows ==
    ASSUME Inv, ReadRows PROVE RowInv'
<1> USE ServerAssumption DEF ReadRows, Reading, server, device
<1>1. TodoOK' /\ RequestOK'
    BY DEF Inv, RowInv, TypeOK, TodoOK, RequestOK, NextTable
<1>2. pc' # "idle" /\ pc' # "store" /\ \A t \in Tables : Looked(t)' => Looked(t) \/ t = tbl
    BY DEF NextTable, Looked, Inv, TypeOK, Tables
<1>3. ASSUME NEW r \in Rows PROVE (SkippedOK(r) /\ PassedOK(r) /\ PageOK(r) /\ StampOK(r))'
    <2>1. At(r)' = At(r) /\ At(r) \in Nat /\ cursor \in Nat /\ TableOf[r] \in Tables
        BY AtType DEF At, Inv, TypeOK, Tables
    <2>2. SkippedOK(r)' /\ StampOK(r)'
        BY <1>3, <2>1 DEF Inv, RowInv, SkippedOK, StampOK
    <2>3. page'[r] = page[r] \/ page'[r] = srow[r]
        OBVIOUS
    <2>4. PageOK(r)'
        BY <1>3, <2>1, <2>3 DEF PageOK, Inv, RowInv
    <2>5. CASE TableOf[r] = tbl
        <3>1. SUFFICES ASSUME Passed(r)', ~(At(r) <= cursor) PROVE PassedOK(r)'
            BY <2>1, <2>2, <2>4 DEF PassedOK
        <3>2. since <= cursor
            BY <2>1, <3>1 DEF Inv, RowInv, RequestOK, Passed
        <3>3. page'[r] = srow[r] /\ srow[r] # None
            BY <2>1, <2>5, <3>1, <3>2 DEF At, Inv, TypeOK
        <3>4. TableOf[r] \in Changed'
            BY <2>1, <3>3 DEF Changed, In, Tables
        <3>5. CASE TableOf[r] \in asked /\ kind # "status"
            BY <1>2, <3>3, <3>5 DEF PassedOK, Held
        <3>6. CASE kind = "status"
            BY <3>1, <3>4, <3>6 DEF Passed
        <3>7. CASE TableOf[r] \notin asked /\ kind # "status"
            <4>1. Passed(r)
                BY <3>1, <3>7 DEF Passed
            <4> QED
                BY <1>3, <2>1, <3>1, <3>7, <4>1 DEF Inv, RowInv, PassedOK
        <3> QED
            BY <3>5, <3>6, <3>7
    <2>6. CASE TableOf[r] # tbl
        <3>1. page'[r] = page[r]
            BY <2>6
        <3>2. TableOf[r] \in Changed' <=> TableOf[r] \in Changed
            BY <2>6 DEF Changed, In
        <3>3. Passed(r)' => Passed(r)
            BY <1>2, <2>1, <2>6, <3>2 DEF Passed
        <3> QED
            BY <1>2, <1>3, <2>1, <2>2, <2>4, <3>1, <3>3 DEF PassedOK, Held, Inv, RowInv
    <2> QED
        BY <2>2, <2>4, <2>5, <2>6
<1> QED
    BY <1>1, <1>3 DEF RowInv

(* A batch brings rows as they were read; what is older than the server's  *)
(* row by now is above the cursor or overtaken.                            *)
LEMMA AnsweredRows ==
    ASSUME Inv, PullAnswered PROVE RowInv'
<1> USE ServerAssumption DEF PullAnswered, server, request
<1>1. TodoOK' /\ RequestOK'
    BY DEF Inv, RowInv, TypeOK, TodoOK, RequestOK
<1>2. ASSUME NEW r \in Rows PROVE (SkippedOK(r) /\ PassedOK(r) /\ PageOK(r) /\ StampOK(r))'
    <2>1. At(r)' = At(r) /\ At(r) \in Nat /\ cursor \in Nat /\ TableOf[r] \in Tables
        BY AtType DEF At, Inv, TypeOK, Tables
    <2>2. r \in overtaken /\ r \notin overtaken' => r \in Delivered /\ page[r] = srow[r]
        BY DEF Inv, TypeOK
    <2>3. r \in Delivered => have'[r] = page[r]
        OBVIOUS
    <2>4. r \notin Delivered => have'[r] = have[r]
        OBVIOUS
    <2>5. SkippedOK(r) /\ PassedOK(r) /\ PageOK(r) /\ StampOK(r)
        BY DEF Inv, RowInv
    <2>6. StampOK(r)'
        BY <2>5 DEF StampOK
    <2>7. PageOK(r)'
        BY <2>1, <2>2, <2>5 DEF PageOK
    <2>8. SkippedOK(r)'
        <3>1. CASE r \in Delivered
            BY <2>1, <2>2, <2>3, <2>5, <3>1 DEF SkippedOK, PageOK, Delivered
        <3>2. CASE r \notin Delivered
            BY <2>1, <2>2, <2>4, <2>5, <3>2 DEF SkippedOK
        <3> QED
            BY <3>1, <3>2
    <2>9. PassedOK(r)'
        <3>1. SUFFICES ASSUME Passed(r)', ~(At(r) <= cursor), r \notin overtaken'
                       PROVE  TableOf[r] \in asked /\ have'[r] = srow[r]
            BY <2>1 DEF PassedOK, Held
        <3>2. Passed(r)
            BY <3>1 DEF Passed, Looked
        <3>3. srow[r] # None
            BY <2>1, <3>1 DEF At
        <3>4. CASE r \in overtaken
            BY <2>2, <2>3, <3>1, <3>4 DEF Delivered
        <3>5. CASE r \notin overtaken
            <4>1. TableOf[r] \in asked /\ page[r] = srow[r]
                BY <2>5, <3>1, <3>2, <3>5 DEF PassedOK, Held
            <4> QED
                BY <2>3, <3>3, <4>1 DEF Delivered
        <3> QED
            BY <3>4, <3>5
    <2> QED
        BY <2>6, <2>7, <2>8, <2>9
<1> QED
    BY <1>1, <1>2 DEF RowInv

(* RowInv is inductive.                                                    *)
LEMMA StepRows == Inv /\ [Next]_vars => RowInv'
<1> SUFFICES ASSUME Inv, [Next]_vars PROVE RowInv'
    OBVIOUS
<1> USE ServerAssumption
<1> USE DEF RowInv, RequestOK, TodoOK, SkippedOK, PassedOK, PageOK, StampOK, Held
<1>1. CASE Tick
    BY <1>1 DEF Tick, Inv, device, request, At, Passed, Looked, Changed, In
<1>2. ASSUME NEW p \in Pushes, PushFails(p) PROVE RowInv'
    BY <1>2 DEF PushFails, Inv, TypeOK, device, request, At, Passed, Looked, Changed, In
<1>3. ASSUME NEW p \in Pushes, NEW rows \in SUBSET Rows, ReceivePush(p, rows)
      PROVE  RowInv'
    BY <1>3, ReceiveRows
<1>4. ASSUME NEW p \in Pushes, NEW r \in Rows, WriteRow(p, r) PROVE RowInv'
    BY <1>4, WriteRows
<1>5. \A r \in Rows : TableOf[r] \in Tables
    BY DEF Tables
<1>6. CASE SyncNow
    BY <1>6, AfterRequest DEF SyncNow
<1>7. CASE SyncPull
    BY <1>5, <1>7, AfterRequest DEF SyncPull
<1>8. CASE SyncFullResync
    BY <1>5, <1>8, AfterRequest DEF SyncFullResync
<1>9. ASSUME NEW tables \in SUBSET Tables, Reconcile(tables) PROVE RowInv'
    BY <1>9, AfterRequest DEF Reconcile
<1>10. CASE ReadLatest
    BY <1>10 DEF ReadLatest, Inv, server, device, At, Passed, Looked, Changed, In
<1>11. CASE ReadRows
    BY <1>11, ReadRowsRows
<1>12. CASE StatusAnswered
    <2> USE DEF server, device
    <2>1. CASE Request("baseline", Tables) /\ UNCHANGED overtaken
        BY <1>5, <1>12, <2>1, AfterRequest DEF StatusAnswered
    <2>2. CASE EndSync("done") /\ Settle(cursor)
        <3>1. cursor' = cursor /\ cursor \in Nat
            BY <1>12 DEF StatusAnswered, Inv, TypeOK
        <3> QED
            BY <1>12, <2>2, <3>1, AfterEnd DEF StatusAnswered, EndSync, Inv
    <2>3. CASE cursor # 0 /\ Request("stored", Changed) /\ UNCHANGED overtaken
        <3>1. ASSUME NEW r \in Rows
              PROVE  TableOf[r] \in Changed \/ At(r) <= cursor \/ r \in overtaken
            <4>1. TableOf[r] \notin Changed => Passed(r)
                BY <1>12, <2>3 DEF StatusAnswered, Passed, Looked
            <4> QED
                BY <1>12, <4>1 DEF StatusAnswered, Inv
        <3>2. Changed \in SUBSET Tables
            BY DEF Changed
        <3> QED
            BY <1>12, <2>3, <3>1, <3>2, AfterRequest DEF StatusAnswered
    <2> QED
        BY <1>12, <2>1, <2>2, <2>3 DEF StatusAnswered
<1>13. CASE PullAnswered
    BY <1>13, AnsweredRows
<1>14. CASE StoreCursor
    <2>1. cursor' \in Nat
        BY <1>14 DEF StoreCursor, Storing, Inv, TypeOK
    <2>2. ASSUME NEW r \in Rows, have[r] # srow[r], At(r) <= cursor' PROVE r \in overtaken
        <3>1. CASE At(r) <= cursor
            BY <2>2, <3>1 DEF Inv
        <3>2. CASE ~(At(r) <= cursor)
            <4>1. kind # "status"
                BY <1>14, <2>2, <3>2 DEF StoreCursor, Storing, Inv
            <4>2. Passed(r)
                BY <1>14, <2>2, <3>2, <4>1
                   DEF StoreCursor, Storing, Passed, Looked, Inv, TypeOK
            <4> QED
                BY <1>14, <2>2, <3>2, <4>2 DEF StoreCursor, Storing, Inv
        <3> QED
            BY <3>1, <3>2
    <2> QED
        BY <1>14, <2>1, <2>2, AfterEnd DEF StoreCursor, Storing, EndSync
<1>15. CASE Abort
    <2>1. cursor' = cursor /\ cursor \in Nat
        BY <1>15 DEF Abort, device, Inv, TypeOK
    <2> QED
        BY <1>15, <2>1, AfterEnd DEF Abort, EndSync, server, device, Inv
<1>16. CASE UNCHANGED vars
    BY <1>16 DEF vars, Inv, server, device, request, At, Passed, Looked, Changed, In
<1> QED
    BY <1>1, <1>2, <1>3, <1>4, <1>6, <1>7, <1>8, <1>9, <1>10, <1>11, <1>12, <1>13, <1>14,
       <1>15, <1>16 DEF Next

THEOREM InvHolds == Spec => []Inv
BY InitType, InitRows, StepType, StepRows, PTL DEF Spec, Inv

(* SkippedOnlyIfOvertaken for all values of the constants: a row below the *)
(* cursor that the device lacks was written late, and nothing else is lost.*)
THEOREM SkippedOnlyIfOvertakenHolds == Spec => []SkippedOnlyIfOvertaken
<1>1. Inv => SkippedOnlyIfOvertaken
    BY DEF Inv, RowInv, SkippedOK, SkippedOnlyIfOvertaken
<1> QED
    BY <1>1, InvHolds, PTL

-----------------------------------------------------------------------------
(***************************************************************************)
(* QuietSyncIsComplete, again row by row.  ReadOK: while no row is         *)
(* written, what a sync has read of a table is what the table holds, and   *)
(* the cursor it will answer with is no lower than any row it has passed.  *)
(* SinceOK: what then survives the end of the sync, and any reconciliation *)
(* that follows it.                                                        *)
(***************************************************************************)
LatestRead(t) == t < tbl \/ (t = tbl /\ pc = "rows") \/ pc = "answer"
SeenOK(r) == page[r] # None \/ have[r] # None => srow[r] # None
ReadOK(r) ==
    /\ LatestRead(TableOf[r]) => At(r) <= latest
    /\ pc # "store" /\ Looked(TableOf[r]) /\ At(r) > since => page[r] = srow[r]
    /\ kind # "status" /\ TableOf[r] \notin asked => At(r) <= cursor
    /\ pc = "store" => /\ At(r) <= answer
                       /\ have[r] = srow[r] \/ (kind = "stored" /\ At(r) <= cursor)
SinceOK(r) ==
    /\ fresh # "no" => page[r] \in {None, srow[r]}
    /\ fresh = "done" => At(r) <= cursor /\ (have[r] = srow[r] \/ r \in overtaken)
    /\ fresh = "healed" => have[r] = srow[r]
FreshOK ==
    /\ fresh = "running" => pc # "idle" /\ (kind = "baseline" => asked = Tables)
    /\ fresh \in {"done", "healed"} /\ pc # "idle" => kind = "baseline" /\ cursor # 0

QuietInv ==
    /\ FreshOK
    /\ \A r \in Rows : SeenOK(r) /\ SinceOK(r) /\ (fresh = "running" => ReadOK(r))

(* A new request has read nothing and passed nothing it asks for.          *)
LEMMA QuietRequest ==
    ASSUME Inv, QuietInv, NEW k \in {"status", "stored", "baseline"},
           NEW tables \in SUBSET Tables,
           Request(k, tables), UNCHANGED <<server, device, answer, overtaken>>,
           \/ /\ fresh' = "running"
              /\ k = "baseline" => tables = Tables
              /\ \A r \in Rows : k = "status" \/ TableOf[r] \in tables \/ At(r) <= cursor
           \/ fresh' = fresh /\ fresh = "no"
           \/ fresh' = fresh /\ fresh # "running" /\ k = "baseline" /\ cursor # 0
    PROVE  QuietInv'
<1> USE ServerAssumption DEF server, device
<1>1. FreshOK'
    BY DEF FreshOK, Request
<1>2. ASSUME NEW r \in Rows
      PROVE  (SeenOK(r) /\ SinceOK(r) /\ (fresh = "running" => ReadOK(r)))'
    <2>1. At(r)' = At(r) /\ At(r) \in Nat /\ TableOf[r] \in Tables
        BY AtType DEF At, Inv, TypeOK, Tables
    <2>2. page'[r] = None /\ pc' = "latest" /\ tbl' = 1
        BY DEF Request
    <2>3. SeenOK(r)' /\ SinceOK(r)'
        BY <1>2, <2>1, <2>2 DEF QuietInv, SeenOK, SinceOK
    <2>4. ~LatestRead(TableOf[r])' /\ ~Looked(TableOf[r])'
        BY <2>1, <2>2 DEF LatestRead, Looked, Tables
    <2>5. fresh' = "running" => ReadOK(r)'
        BY <2>1, <2>2, <2>4 DEF ReadOK, Request
    <2> QED
        BY <2>3, <2>5
<1> QED
    BY <1>1, <1>2 DEF QuietInv

(* A stamp is set before any row bears it.                                 *)
LEMMA QuietReceive ==
    ASSUME Inv, QuietInv, NEW p \in Pushes, NEW rows \in SUBSET Rows, ReceivePush(p, rows)
    PROVE  QuietInv'
<1> USE ServerAssumption DEF ReceivePush, device, request
<1>1. FreshOK'
    BY DEF QuietInv, FreshOK
<1>2. ASSUME NEW r \in Rows
      PROVE  (SeenOK(r) /\ SinceOK(r) /\ (fresh = "running" => ReadOK(r)))'
    <2>1. srow[r] = None \/ (srow[r] \in Pushes /\ srow[r] # p)
        BY DEF Inv, RowInv, TypeOK, StampOK, Versions
    <2>2. At(r)' = At(r)
        BY <2>1 DEF Inv, TypeOK, At
    <2> QED
        BY <1>2, <2>2 DEF QuietInv, SeenOK, SinceOK, ReadOK, LatestRead, Looked
<1> QED
    BY <1>1, <1>2 DEF QuietInv

(* The latest row read is no older than any row of its table.              *)
LEMMA QuietReadLatest ==
    ASSUME Inv, QuietInv, ReadLatest PROVE QuietInv'
<1> USE ServerAssumption DEF ReadLatest, server, device
<1>1. FreshOK'
    BY DEF QuietInv, FreshOK
<1>2. ASSUME NEW r \in Rows
      PROVE  (SeenOK(r) /\ SinceOK(r) /\ (fresh = "running" => ReadOK(r)))'
    <2>1. At(r)' = At(r) /\ At(r) \in Nat /\ latest \in Nat /\ latest <= latest'
        BY AtType DEF At, Inv, TypeOK
    <2>2. latest' \in Nat
        BY AtType DEF Inv, TypeOK, In
    <2>3. TableOf[r] = tbl => At(r) <= latest'
        BY DEF In
    <2>4. TableOf[r] \in Nat /\ tbl \in Nat
        BY DEF Inv, TypeOK, Tables
    <2>5. LatestRead(TableOf[r])' => LatestRead(TableOf[r]) \/ TableOf[r] = tbl
        BY <2>4 DEF LatestRead
    <2>6. Looked(TableOf[r])' <=> Looked(TableOf[r])
        BY DEF Looked
    <2> QED
        BY <1>2, <2>1, <2>2, <2>3, <2>5, <2>6 DEF QuietInv, SeenOK, SinceOK, ReadOK
<1> QED
    BY <1>1, <1>2 DEF QuietInv

(* The rows of a table are read as they are.                               *)
LEMMA QuietReadRows ==
    ASSUME Inv, QuietInv, ReadRows PROVE QuietInv'
<1> USE ServerAssumption DEF ReadRows, Reading, server, device
<1>1. pc = "rows" /\ pc' \in {"latest", "answer"}
    BY DEF NextTable
<1>2. FreshOK'
    BY <1>1 DEF QuietInv, FreshOK
<1>3. ASSUME NEW r \in Rows
      PROVE  (SeenOK(r) /\ SinceOK(r) /\ (fresh = "running" => ReadOK(r)))'
    <2>1. At(r)' = At(r) /\ At(r) \in Nat /\ since \in Nat /\ (At(r) > since => srow[r] # None)
        BY AtType DEF At, Inv, TypeOK
    <2>2. TableOf[r] \in Tables /\ tbl \in Tables /\ tbl' \in Tables
        BY DEF Inv, TypeOK, NextTable, Tables
    <2>3. page'[r] = IF TableOf[r] = tbl /\ At(r) > since THEN srow[r] ELSE page[r]
        OBVIOUS
    <2>4. SeenOK(r)' /\ SinceOK(r)'
        BY <1>3, <2>1, <2>3 DEF QuietInv, SeenOK, SinceOK
    <2>5. LatestRead(TableOf[r])' => LatestRead(TableOf[r])
        BY <1>1, <2>2 DEF LatestRead, NextTable, Tables
    <2>6. Looked(TableOf[r])' => Looked(TableOf[r]) \/ TableOf[r] = tbl
        BY <1>1, <2>2 DEF Looked, NextTable, Tables
    <2>7. fresh = "running" => ReadOK(r)'
        BY <1>1, <1>3, <2>1, <2>3, <2>5, <2>6 DEF QuietInv, ReadOK
    <2> QED
        BY <2>4, <2>7
<1> QED
    BY <1>2, <1>3 DEF QuietInv

(* The batch holds every row above the cursor of the request.              *)
LEMMA QuietAnswered ==
    ASSUME Inv, QuietInv, PullAnswered PROVE QuietInv'
<1> USE ServerAssumption DEF PullAnswered, server, request
<1>1. FreshOK'
    BY DEF QuietInv, FreshOK
<1>2. ASSUME NEW r \in Rows
      PROVE  (SeenOK(r) /\ SinceOK(r) /\ (fresh = "running" => ReadOK(r)))'
    <2> USE DEF Delivered
    <2>1. /\ At(r)' = At(r) /\ At(r) \in 0..now
          /\ cursor \in Nat /\ now \in Nat /\ latest \in Nat /\ since \in Nat
          /\ TableOf[r] \in Tables
        BY AtType DEF At, Inv, TypeOK, Tables
    <2>2. At(r) = 0 => srow[r] = None
        BY <2>1 DEF Inv, RowInv, StampOK, At
    <2>3. have'[r] = IF r \in Delivered THEN page[r] ELSE have[r]
        OBVIOUS
    <2>4. SeenOK(r) /\ SinceOK(r) /\ FreshOK /\ (fresh = "running" => ReadOK(r))
        BY DEF QuietInv
    <2>5. r \in overtaken /\ r \notin overtaken' => r \in Delivered /\ page[r] = srow[r]
        OBVIOUS
    <2>6. SeenOK(r)'
        BY <2>3, <2>4 DEF SeenOK
    <2>7. fresh # "no" /\ r \in Delivered => have'[r] = srow[r]
        BY <2>3, <2>4 DEF SinceOK
    <2>8. SinceOK(r)'
        BY <2>1, <2>3, <2>4, <2>5, <2>7 DEF SinceOK
    <2>9. ASSUME fresh = "running" PROVE ReadOK(r)'
        <3>1. At(r) <= latest
            BY <2>4, <2>9 DEF ReadOK, LatestRead
        <3>2. At(r) <= answer'
            BY <2>1, <3>1
        <3>3. have'[r] = srow[r] \/ (kind = "stored" /\ At(r) <= cursor)
            <4>1. CASE TableOf[r] \notin asked
                BY <2>1, <2>4, <2>9, <4>1 DEF ReadOK, FreshOK, Inv, TypeOK
            <4>2. CASE TableOf[r] \in asked /\ At(r) > since
                <5>1. page[r] = srow[r] /\ srow[r] # None
                    BY <2>1, <2>4, <2>9, <4>2 DEF ReadOK, Looked, At
                <5> QED
                    BY <2>3, <4>2, <5>1
            <4>3. CASE ~(At(r) > since)
                <5>1. kind = "baseline" => srow[r] = None
                    BY <2>1, <2>2, <4>3 DEF Inv, RowInv, RequestOK
                <5>2. kind = "baseline" => have'[r] = srow[r]
                    BY <2>3, <2>4, <5>1 DEF SeenOK
                <5> QED
                    BY <2>1, <4>3, <5>2 DEF Inv, TypeOK, RowInv, RequestOK
            <4> QED
                BY <4>1, <4>2, <4>3
        <3>4. kind # "status" /\ TableOf[r] \notin asked => At(r) <= cursor
            BY <2>4, <2>9 DEF ReadOK
        <3> QED
            BY <2>1, <3>1, <3>2, <3>3, <3>4 DEF ReadOK
    <2> QED
        BY <2>6, <2>8, <2>9
<1> QED
    BY <1>1, <1>2 DEF QuietInv

(* The end of a sync, whatever it ends with.                               *)
LEMMA QuietEnd ==
    ASSUME Inv, QuietInv, NEW how \in {"no", "done", "healed"}, EndSync(how),
           UNCHANGED <<server, have, page>>, Settle(cursor'),
           fresh # "running" => cursor' = cursor,
           fresh = "running" => \A r \in Rows :
               /\ how = "done" => /\ At(r) <= cursor'
                                  /\ have[r] = srow[r] \/ r \in overtaken
               /\ how = "healed" => have[r] = srow[r]
    PROVE  QuietInv'
<1> USE DEF EndSync, Settle, server
<1>1. FreshOK' /\ fresh' # "running"
    BY DEF FreshOK
<1>2. ASSUME NEW r \in Rows PROVE SeenOK(r)' /\ SinceOK(r)'
    <2>1. At(r)' = At(r)
        BY DEF At
    <2>2. SeenOK(r) /\ SinceOK(r)
        BY DEF QuietInv
    <2> QED
        BY <1>2, <2>1, <2>2 DEF SeenOK, SinceOK
<1> QED
    BY <1>1, <1>2 DEF QuietInv

(* QuietInv is inductive.                                                  *)
LEMMA StepQuiet == Inv /\ QuietInv /\ [Next]_vars => QuietInv'
<1> SUFFICES ASSUME Inv, QuietInv, [Next]_vars PROVE QuietInv'
    OBVIOUS
<1> USE ServerAssumption
<1> USE DEF server, device, request
<1>1. ASSUME UNCHANGED <<stamp, srow, device, pc, request, answer, overtaken, fresh>>
      PROVE  QuietInv'
    BY <1>1 DEF QuietInv, FreshOK, SeenOK, SinceOK, ReadOK, LatestRead, Looked, At
<1>2. CASE Tick \/ (\E p \in Pushes : PushFails(p)) \/ UNCHANGED vars
    BY <1>1, <1>2 DEF Tick, PushFails, vars
<1>3. ASSUME NEW p \in Pushes, NEW rows \in SUBSET Rows, ReceivePush(p, rows)
      PROVE  QuietInv'
    BY <1>3, QuietReceive
<1>4. ASSUME NEW p \in Pushes, NEW w \in Rows, WriteRow(p, w) PROVE QuietInv'
    <2>1. ASSUME NEW r \in Rows PROVE SeenOK(r)'
        BY <1>4, ServerAssumption DEF None, WriteRow, QuietInv, SeenOK, Inv, TypeOK
    <2> QED
        BY <1>4, <2>1 DEF WriteRow, QuietInv, FreshOK, SinceOK
<1>5. \A r \in Rows : TableOf[r] \in Tables
    BY DEF Tables
<1>6. CASE SyncNow
    BY <1>6, QuietRequest DEF SyncNow
<1>7. CASE SyncPull
    BY <1>5, <1>7, QuietRequest DEF SyncPull
<1>8. CASE SyncFullResync
    BY <1>5, <1>8, QuietRequest DEF SyncFullResync
<1>9. ASSUME NEW tables \in SUBSET Tables, Reconcile(tables) PROVE QuietInv'
    <2>1. fresh # "running"
        BY <1>9 DEF Reconcile, QuietInv, FreshOK
    <2> QED
        BY <1>9, <2>1, QuietRequest DEF Reconcile
<1>10. CASE ReadLatest
    BY <1>10, QuietReadLatest
<1>11. CASE ReadRows
    BY <1>11, QuietReadRows
<1>12. CASE StatusAnswered
    <2>1. UNCHANGED <<server, device, answer>> /\ pc = "answer" /\ kind = "status"
        BY <1>12 DEF StatusAnswered
    <2>2. fresh \in {"no", "running"}
        BY <2>1 DEF Inv, TypeOK, QuietInv, FreshOK
    <2>3. ASSUME fresh = "running", NEW r \in Rows, TableOf[r] \notin Changed, cursor # 0
          PROVE  At(r) <= cursor
        <3>1. page[r] = None
            BY <1>5, <2>3 DEF Changed, In
        <3>2. At(r) \in Nat /\ cursor \in Nat /\ since = cursor
            BY <2>1, AtType DEF Inv, TypeOK, RowInv, RequestOK
        <3>3. At(r) > since => page[r] = srow[r] /\ srow[r] # None
            BY <2>1, <2>3, <3>2 DEF QuietInv, ReadOK, Looked, At
        <3> QED
            BY <3>1, <3>2, <3>3
    <2>4. CASE Request("baseline", Tables) /\ UNCHANGED <<overtaken, fresh>>
        BY <1>5, <2>1, <2>2, <2>4, QuietRequest
    <2>5. CASE cursor # 0 /\ Changed = {} /\ EndSync("done") /\ Settle(cursor) /\ UNCHANGED request
        <3>1. fresh = "running" => \A r \in Rows : /\ At(r) <= cursor
                                                   /\ have[r] = srow[r] \/ r \in overtaken
            BY <2>3, <2>5 DEF Inv, RowInv, SkippedOK
        <3> QED
            BY <2>1, <2>5, <3>1, QuietEnd
    <2>6. CASE cursor # 0 /\ Request("stored", Changed) /\ UNCHANGED <<overtaken, fresh>>
        <3>1. Changed \in SUBSET Tables
            BY DEF Changed
        <3> QED
            BY <2>1, <2>2, <2>3, <2>6, <3>1, QuietRequest
    <2> QED
        BY <1>12, <2>4, <2>5, <2>6 DEF StatusAnswered
<1>13. CASE PullAnswered
    BY <1>13, QuietAnswered
<1>14. CASE StoreCursor
    <2>1. kind # "status" /\ pc = "store"
        BY <1>14 DEF StoreCursor, Storing, Inv, RowInv, RequestOK
    <2>2. fresh \in {"done", "healed"} => cursor' = cursor
        BY <1>14, <2>1 DEF StoreCursor, Storing, QuietInv, FreshOK
    <2>3. ASSUME fresh = "running", kind # "baseline", NEW r \in Rows
          PROVE  At(r) <= cursor' /\ (have[r] = srow[r] \/ r \in overtaken)
        BY <1>14, <2>1, <2>3
           DEF StoreCursor, Storing, QuietInv, ReadOK, Inv, TypeOK, RowInv, SkippedOK
    <2>4. ASSUME fresh = "running", kind = "baseline", NEW r \in Rows PROVE have[r] = srow[r]
        BY <2>1, <2>4 DEF QuietInv, ReadOK
    <2>5. CASE fresh = "no"
        BY <1>14, <2>5
           DEF StoreCursor, Storing, EndSync, QuietInv, FreshOK, SeenOK, SinceOK
    <2>6. CASE fresh # "no"
        <3>1. fresh # "running" => cursor' = cursor
            BY <2>2, <2>6 DEF Inv, TypeOK
        <3> QED
            BY <1>14, <2>3, <2>4, <3>1, QuietEnd DEF StoreCursor, Storing
    <2> QED
        BY <2>5, <2>6
<1>15. CASE Abort
    BY <1>15, QuietEnd DEF Abort
<1> QED
    BY <1>2, <1>3, <1>4, <1>6, <1>7, <1>8, <1>9, <1>10, <1>11, <1>12, <1>13, <1>14, <1>15
       DEF Next

(* QuietSyncIsComplete for all values of the constants: however requests,  *)
(* pushes and failures are interleaved, a sync that met no write leaves    *)
(* the device short of overtaken rows only, a full resync short of none.   *)
THEOREM QuietSyncIsCompleteHolds == Spec => []QuietSyncIsComplete
<1>1. Init => QuietInv
    BY DEF Init, QuietInv, FreshOK, SeenOK, SinceOK, None
<1>2. Inv /\ QuietInv => QuietSyncIsComplete
    <2> SUFFICES ASSUME Inv, QuietInv PROVE QuietSyncIsComplete
        OBVIOUS
    <2>1. fresh = "done" => \A r \in Rows \ overtaken : have[r] = srow[r]
        BY DEF QuietInv, SinceOK
    <2>2. ASSUME fresh = "healed" PROVE have = srow
        <3>1. have \in [Rows -> Versions] /\ srow \in [Rows -> Versions]
            BY DEF Inv, TypeOK
        <3> QED
            BY <2>2, <3>1 DEF QuietInv, SinceOK
    <2> QED
        BY <2>1, <2>2 DEF QuietSyncIsComplete
<1> QED
    BY <1>1, <1>2, StepQuiet, InvHolds, PTL DEF Spec

-----------------------------------------------------------------------------
(***************************************************************************)
(* CursorText for any rows, tables, pushes and clock: it is ServerSync     *)
(* with a text beside every time, so what ServerSync is proved to be holds *)
(* of it, and a device whose text does not parse keeps it.                 *)
(***************************************************************************)

(* Every step with texts is a step of ServerSync.                          *)
LEMMA StepMaps == [CNext]_cvars => [Next]_vars
<1>1. CASE Elsewhere
    BY <1>1 DEF Elsewhere, Next
<1>2. CASE AnyRequest
    BY <1>2 DEF AnyRequest, Next
<1>3. CASE Refused
    BY <1>3 DEF Refused, Next
<1>4. CASE ReadLatestText
    BY <1>4 DEF ReadLatestText, Next
<1>5. CASE StatusAnsweredText
    BY <1>5 DEF StatusAnsweredText, Next
<1>6. CASE PullAnsweredText
    BY <1>6 DEF PullAnsweredText, Next
<1>7. CASE StoreCursorText
    BY <1>7 DEF StoreCursorText, Next
<1>8. CASE UNCHANGED cvars
    BY <1>8 DEF cvars, vars
<1> QED
    BY <1>1, <1>2, <1>3, <1>4, <1>5, <1>6, <1>7, <1>8 DEF CNext

(* The cursor as text implements the cursor as a number.                   *)
THEOREM TextImplementsTime == CSpec => Spec
<1>1. CInit => Init
    BY DEF CInit
<1> QED
    BY <1>1, StepMaps, PTL DEF CSpec, Spec

(* SkippedOnlyIfOvertaken for the program with its texts: what has been    *)
(* proved of the times is not lost in formatting and parsing them.         *)
THEOREM SkippedOnlyIfOvertakenWithText == CSpec => []SkippedOnlyIfOvertaken
BY TextImplementsTime, SkippedOnlyIfOvertakenHolds, PTL

(* QuietSyncIsComplete for the program with its texts.                     *)
THEOREM QuietSyncIsCompleteWithText == CSpec => []QuietSyncIsComplete
BY TextImplementsTime, QuietSyncIsCompleteHolds, PTL

-----------------------------------------------------------------------------
(***************************************************************************)
(* What a device keeps while its text does not parse.  A request that      *)
(* carries that text is refused before it reads, so a pull that has come   *)
(* further was from the start, and that does not replace a cursor.         *)
(***************************************************************************)
RefusedOK == ~Parses(text) /\ pc # "idle" /\ ~(pc = "latest" /\ tbl = 1) => kind = "baseline"
CInv == TypeOK /\ RefusedOK

LEMMA EmptyParses == Parses(Empty)
BY TextAssumption DEF Parses, Empty, None

LEMMA RefusedStep == CInv /\ [CNext]_cvars => RefusedOK'
<1> SUFFICES ASSUME CInv, [CNext]_cvars PROVE RefusedOK'
    OBVIOUS
<1> USE DEF CInv, RefusedOK, Parses
<1>1. ASSUME AnyRequest PROVE RefusedOK'
    BY <1>1 DEF AnyRequest, SyncNow, SyncPull, SyncFullResync, Reconcile, Request
<1>2. ASSUME ReadLatestText PROVE RefusedOK'
    BY <1>2 DEF ReadLatestText, ReadLatest, Sent
<1>3. ASSUME StatusAnsweredText PROVE RefusedOK'
    BY <1>3 DEF StatusAnsweredText, StatusAnswered, Request, EndSync, request
<1>4. ASSUME PullAnsweredText PROVE RefusedOK'
    BY <1>4 DEF PullAnsweredText, PullAnswered, request
<1>5. ASSUME StoreCursorText PROVE RefusedOK'
    BY <1>5 DEF StoreCursorText, StoreCursor, Storing, EndSync
<1>6. ASSUME Refused PROVE RefusedOK'
    BY <1>6 DEF Refused, Abort, EndSync
<1>7. ASSUME ReadRows, UNCHANGED text PROVE RefusedOK'
    BY <1>7 DEF ReadRows, Reading, NextTable, TypeOK, Tables
<1>8. ASSUME Abort, UNCHANGED text PROVE RefusedOK'
    BY <1>8 DEF Abort, EndSync
<1>9. ASSUME UNCHANGED <<pc, request, text>> PROVE RefusedOK'
    BY <1>9 DEF request
<1>10. ASSUME Tick, UNCHANGED text PROVE RefusedOK'
    BY <1>10, <1>9 DEF Tick
<1>11. ASSUME NEW p \in Pushes, PushFails(p), UNCHANGED text PROVE RefusedOK'
    BY <1>11, <1>9 DEF PushFails
<1>12. ASSUME NEW p \in Pushes, NEW rows \in SUBSET Rows, ReceivePush(p, rows),
              UNCHANGED text
       PROVE  RefusedOK'
    BY <1>12, <1>9 DEF ReceivePush
<1>13. ASSUME NEW p \in Pushes, NEW r \in Rows, WriteRow(p, r), UNCHANGED text
       PROVE  RefusedOK'
    BY <1>13, <1>9 DEF WriteRow
<1>14. ASSUME Elsewhere PROVE RefusedOK'
    BY <1>14, <1>7, <1>8, <1>10, <1>11, <1>12, <1>13 DEF Elsewhere
<1>15. ASSUME UNCHANGED cvars PROVE RefusedOK'
    BY <1>15, <1>9 DEF cvars, vars
<1> QED
    BY <1>1, <1>2, <1>3, <1>4, <1>5, <1>6, <1>14, <1>15 DEF CNext

LEMMA RefusedInit == CInit => RefusedOK
BY EmptyParses DEF CInit, RefusedOK

LEMMA CInvHolds == CSpec => []CInv
<1>1. CInit => CInv
    BY InitType, RefusedInit DEF CInit, CInv
<1>2. CInv /\ [CNext]_cvars => CInv'
    <2> SUFFICES ASSUME CInv, [CNext]_cvars PROVE CInv'
        OBVIOUS
    <2>1. TypeOK'
        BY StepMaps, StepType DEF CInv
    <2>2. RefusedOK'
        BY RefusedStep
    <2> QED
        BY <2>1, <2>2 DEF CInv
<1> QED
    BY <1>1, <1>2, PTL DEF CSpec

LEMMA KeepsRefused ==
    ASSUME CInv, [CNext]_cvars, ~Parses(text)
    PROVE  text' = text /\ (have' # have => kind = "baseline")
<1> USE DEF CInv, RefusedOK, server, device
<1>1. ASSUME PullAnsweredText PROVE text' = text /\ kind = "baseline"
    BY <1>1 DEF PullAnsweredText, PullAnswered
<1>2. ASSUME StoreCursorText PROVE text' = text /\ have' = have
    <2>1. kind = "baseline" /\ text # Empty
        BY <1>2, EmptyParses DEF StoreCursorText, StoreCursor, Storing
    <2> QED
        BY <1>2, <2>1 DEF StoreCursorText, StoreCursor, Storing
<1>3. ASSUME AnyRequest PROVE text' = text /\ have' = have
    BY <1>3 DEF AnyRequest, SyncNow, SyncPull, SyncFullResync, Reconcile
<1>4. ASSUME ReadLatestText \/ Refused \/ StatusAnsweredText
      PROVE  text' = text /\ have' = have
    BY <1>4 DEF ReadLatestText, ReadLatest, Refused, Abort, StatusAnsweredText, StatusAnswered
<1>5. ASSUME Elsewhere PROVE text' = text /\ have' = have
    <2>1. ASSUME Tick \/ Abort \/ ReadRows PROVE have' = have
        BY <2>1 DEF Tick, Abort, ReadRows, Reading
    <2>2. ASSUME NEW p \in Pushes, PushFails(p) PROVE have' = have
        BY <2>2 DEF PushFails
    <2>3. ASSUME NEW p \in Pushes, NEW rows \in SUBSET Rows, ReceivePush(p, rows)
          PROVE  have' = have
        BY <2>3 DEF ReceivePush
    <2>4. ASSUME NEW p \in Pushes, NEW r \in Rows, WriteRow(p, r) PROVE have' = have
        BY <2>4 DEF WriteRow
    <2> QED
        BY <1>5, <2>1, <2>2, <2>3, <2>4 DEF Elsewhere
<1>6. ASSUME UNCHANGED cvars PROVE text' = text /\ have' = have
    BY <1>6 DEF cvars, vars
<1> QED
    BY <1>1, <1>2, <1>3, <1>4, <1>5, <1>6 DEF CNext

(* RefusedStaysRefused for any rows, tables and pushes: no call of the     *)
(* device's replaces a cursor that the server cannot parse.                *)
THEOREM RefusedStaysRefusedHolds == CSpec => RefusedStaysRefused
<1>1. CInv /\ [CNext]_cvars
        => [~Parses(text) => text' = text /\ (have' # have => kind = "baseline")]_cvars
    BY KeepsRefused
<1> QED
    BY <1>1, CInvHolds, PTL DEF CSpec, RefusedStaysRefused

-----------------------------------------------------------------------------
(***************************************************************************)
(* The texts say what the times do.  The heart is one step: the handler's  *)
(* candidate after a table bears the highest time read so far, because     *)
(* among finitely many rows of that time one has the highest id.           *)
(***************************************************************************)
LEMMA HighestId ==
    ASSUME NEW S \in SUBSET Rows, S # {}
    PROVE  \E r \in S : \A q \in S : IdRank[q] <= IdRank[r]
<1> DEFINE Above(r) == {q \in S : IdRank[q] > IdRank[r]}
           T == {Above(r) : r \in S}
           R == StrictSubsetOrdering(Rows)
<1>1. IsWellFoundedOn(R, SUBSET Rows)
    BY FS_StrictSubsetOrderingWellFounded, FS_FiniteSubsetsOfFinite, TextAssumption
<1>2. T \subseteq SUBSET Rows /\ T # {}
    OBVIOUS
<1>3. PICK U \in T : \A V \in T : <<V, U>> \notin R
    <2> HIDE DEF R, T
    <2> QED
        BY <1>1, <1>2, WFMin
<1>4. PICK r \in S : U = Above(r)
    OBVIOUS
<1>5. ASSUME NEW q \in S, ~(IdRank[q] <= IdRank[r]) PROVE FALSE
    <2>1. IdRank[q] > IdRank[r] /\ \A s \in S : IdRank[s] \in Nat
        BY <1>5, TextAssumption
    <2>2. Above(q) \subseteq Above(r) /\ q \in Above(r) /\ q \notin Above(q)
        BY <2>1
    <2>3. <<Above(q), Above(r)>> \in R
        BY <1>2, <2>2 DEF StrictSubsetOrdering
    <2> QED
        BY <1>3, <1>4, <2>3
<1> QED
    BY <1>5

(* A text and the time it stands for.                                      *)
Says(c, time) ==
    /\ c \in Texts
    /\ c.time = time
    /\ c.time = 0 <=> c = Empty
    /\ c.row = None <=> c = Empty

LEMMA TellsIsSays ==
    CursorTextTells <=> Says(text, cursor) /\ Says(best, latest) /\ Says(reply, answer)
BY DEF CursorTextTells, Says

LEMMA EmptySays == Says(Empty, 0)
BY ServerAssumption DEF Says, Empty, Texts, None

(* A row that was written is a candidate with a time and an id.            *)
LEMMA CandidateSays ==
    ASSUME Inv, NEW r \in Rows, srow[r] # None PROVE Says(latestCursorCandidate(r), At(r))
<1>1. At(r) # 0
    BY DEF Inv, RowInv, StampOK, At
<1>2. At(r) \in 0..MaxTime
    BY AtType, ServerAssumption DEF Inv, TypeOK
<1>3. r # None
    BY TextAssumption DEF None
<1> QED
    BY <1>1, <1>2, <1>3 DEF Says, latestCursorCandidate, Texts, Empty

LEMMA LatestSays ==
    ASSUME Inv, Says(best, latest), ReadLatestText PROVE Says(best', latest')
<1> USE DEF latestCursorCandidate
<1>1. /\ latest \in Nat /\ latest' \in Nat
      /\ latest <= latest'
      /\ \A q \in In(tbl) : At(q) \in Nat /\ At(q) <= latest'
      /\ latest' = latest \/ \E q \in In(tbl) : latest' = At(q)
    BY AtType DEF ReadLatestText, ReadLatest, In, Inv, TypeOK
<1>2. \A q \in In(tbl) : q \in Rows /\ IdRank[q] \in Nat
    BY TextAssumption DEF In
<1>3. ASSUME NEW c \in pickLatestSyncCursorRow(tbl) PROVE Says(c, latest')
    <2>1. PICK r \in In(tbl) : srow[r] # None /\ c = latestCursorCandidate(r)
        BY DEF pickLatestSyncCursorRow, Candidates
    <2>2. latest <= At(r)
        BY <1>1, <2>1, <1>3 DEF pickLatestSyncCursorRow, Newer, Says
    <2>3. ASSUME NEW q \in In(tbl) PROVE At(q) <= At(r)
        <3>1. CASE srow[q] = None
            BY <1>1, <2>1, <3>1 DEF At
        <3>2. CASE srow[q] # None
            <4>1. latestCursorCandidate(q) \in Candidates(tbl)
                BY <3>2 DEF Candidates
            <4>2. ~Newer(latestCursorCandidate(q), c)
                BY <1>3, <4>1 DEF pickLatestSyncCursorRow
            <4> QED
                BY <1>1, <2>1, <4>2 DEF Newer
        <3> QED
            BY <3>1, <3>2
    <2>4. At(r) = latest'
        BY <1>1, <2>2, <2>3
    <2> QED
        BY <1>2, <2>1, <2>4, CandidateSays
<1>4. ASSUME pickLatestSyncCursorRow(tbl) = {} PROVE latest' = latest
    <2> SUFFICES ASSUME latest' # latest PROVE FALSE
        OBVIOUS
    <2> DEFINE S == {q \in In(tbl) : At(q) = latest'}
    <2>1. S # {} /\ S \subseteq Rows
        BY <1>1, <1>2
    <2>2. PICK r \in S : \A q \in S : IdRank[q] <= IdRank[r]
        <3> HIDE DEF S
        <3> QED
            BY <2>1, HighestId
    <2>3. latestCursorCandidate(r) \in Candidates(tbl)
        BY <1>1, <2>2 DEF Candidates, At
    <2>4. Newer(latestCursorCandidate(r), best)
        BY <1>1, <2>2 DEF Newer, Says
    <2>5. ASSUME NEW d \in Candidates(tbl) PROVE ~Newer(d, latestCursorCandidate(r))
        <3>1. PICK q \in In(tbl) : d = latestCursorCandidate(q)
            BY DEF Candidates
        <3>2. q \in S => IdRank[q] <= IdRank[r]
            BY <2>2
        <3> QED
            BY <1>1, <1>2, <2>2, <3>1, <3>2 DEF Newer
    <2> QED
        BY <1>4, <2>3, <2>4, <2>5 DEF pickLatestSyncCursorRow
<1> QED
    BY <1>3, <1>4 DEF ReadLatestText

LEMMA StepTells == Inv /\ CursorTextTells /\ [CNext]_cvars => CursorTextTells'
<1> SUFFICES ASSUME Inv, Says(text, cursor), Says(best, latest), Says(reply, answer),
                    [CNext]_cvars
             PROVE  (Says(text, cursor) /\ Says(best, latest) /\ Says(reply, answer))'
    BY TellsIsSays DEF CursorTextTells, Says
<1> USE DEF server, device, request
<1>1. CASE Elsewhere
    <2>1. UNCHANGED <<text, best, reply>>
        BY <1>1 DEF Elsewhere
    <2>2. ASSUME NEW p \in Pushes, PushFails(p) PROVE UNCHANGED <<cursor, latest, answer>>
        BY <2>2 DEF PushFails
    <2>3. ASSUME NEW p \in Pushes, NEW rows \in SUBSET Rows, ReceivePush(p, rows)
          PROVE  UNCHANGED <<cursor, latest, answer>>
        BY <2>3 DEF ReceivePush
    <2>4. ASSUME NEW p \in Pushes, NEW r \in Rows, WriteRow(p, r)
          PROVE  UNCHANGED <<cursor, latest, answer>>
        BY <2>4 DEF WriteRow
    <2>5. UNCHANGED <<cursor, latest, answer>>
        BY <1>1, <2>2, <2>3, <2>4 DEF Elsewhere, Tick, Abort, ReadRows, Reading
    <2> QED
        BY <2>1, <2>5 DEF Says
<1>2. CASE AnyRequest
    <2>1. UNCHANGED <<text, reply, cursor, answer>> /\ latest' = 0 /\ best' = Empty
        BY <1>2 DEF AnyRequest, SyncNow, SyncPull, SyncFullResync, Reconcile, Request
    <2> QED
        BY <2>1, EmptySays DEF Says, Empty
<1>3. CASE Refused
    BY <1>3 DEF Refused, Abort, Says
<1>4. CASE ReadLatestText
    BY <1>4, LatestSays DEF ReadLatestText, ReadLatest, Says
<1>5. CASE StatusAnsweredText
    <2>1. UNCHANGED <<text, reply, cursor, answer>>
        BY <1>5 DEF StatusAnsweredText, StatusAnswered
    <2>2. \/ pc' # "idle" /\ latest' = 0
          \/ pc' = "idle" /\ latest' = latest
        BY <1>5 DEF StatusAnsweredText, StatusAnswered, Request, EndSync
    <2>3. Says(best', latest')
        BY <1>5, <2>2, EmptySays DEF StatusAnsweredText
    <2> QED
        BY <2>1, <2>3 DEF Says
<1>6. CASE PullAnsweredText
    <2>1. UNCHANGED <<text, best, cursor, latest>>
        BY <1>6 DEF PullAnsweredText, PullAnswered
    <2>2. now \in 1..MaxTime
        BY DEF Inv, TypeOK
    <2>3. CASE best = Empty
        <3>1. latest = 0 /\ reply' = formatSyncWatermarkCursor(now) /\ answer' = now
            BY <1>6, <2>3
               DEF PullAnsweredText, PullAnswered, formatCursorOrWatermark, Says, Empty
        <3>2. Says(formatSyncWatermarkCursor(now), now)
            BY <2>2 DEF Says, formatSyncWatermarkCursor, Texts, Empty, None
        <3> QED
            BY <2>1, <3>1, <3>2 DEF Says
    <2>4. CASE best # Empty
        <3>1. reply' = best /\ answer' = latest
            BY <1>6, <2>4 DEF PullAnsweredText, PullAnswered, formatCursorOrWatermark, Says
        <3> QED
            BY <2>1, <3>1 DEF Says
    <2> QED
        BY <2>3, <2>4
<1>7. CASE StoreCursorText
    <2>1. UNCHANGED <<best, reply, latest, answer>>
        BY <1>7 DEF StoreCursorText, StoreCursor, Storing
    <2>2. cursor = 0 <=> text = Empty
        BY DEF Says
    <2>3. (text' = reply /\ cursor' = answer) \/ UNCHANGED <<text, cursor>>
        BY <1>7, <2>2 DEF StoreCursorText, StoreCursor, Storing
    <2> QED
        BY <2>1, <2>3 DEF Says
<1>8. CASE UNCHANGED cvars
    BY <1>8 DEF cvars, vars, Says
<1> QED
    BY <1>1, <1>2, <1>3, <1>4, <1>5, <1>6, <1>7, <1>8 DEF CNext

(* CursorTextTells for all values of the constants: a stored text parses   *)
(* to the cursor's time or to nothing, and names a row of the highest time *)
(* read whenever a row was read.                                           *)
THEOREM CursorTextTellsHolds == CSpec => []CursorTextTells
<1>1. CInit => CursorTextTells
    BY TellsIsSays, EmptySays DEF CInit, Init
<1>2. Inv /\ CursorTextTells /\ [CNext]_cvars => CursorTextTells'
    BY StepTells
<1>3. CSpec => []Inv
    BY TextImplementsTime, InvHolds, PTL
<1> QED
    BY <1>1, <1>2, <1>3, PTL DEF CSpec
=============================================================================
