------------------------------- MODULE MCPushRun -------------------------------
(* Three rows in two tables.  One of them grows when it is edited.          *)
EXTENDS PushRun

MCTableOf == [r \in {"a", "b", "c"} |-> IF r = "c" THEN 2 ELSE 1]
MCSize == [p \in Rows \X (1..MaxVersion) |-> IF p[1] = "b" /\ p[2] > 1 THEN 3 ELSE 1]

MCFirstEdits == <<"a", "c", "b">>

Limit(rows, target, bytes, apiRows, apiBytes, maxEdits, maxFaults) ==
    [rows |-> rows, target |-> target, bytes |-> bytes, apiRows |-> apiRows, apiBytes |-> apiBytes,
     edits |-> maxEdits, faults |-> maxFaults]

(* The usual limits, in the order of their defaults; a target above the     *)
(* device's limit; a server that takes less than the device sends, in bytes *)
(* and in rows; a row that either refuses when it has grown.  Three faults  *)
(* are what it takes for a handler to be left behind twice.                 *)
MCLimits == { Limit(2, 3, 6, 3, 6, 1, 1), Limit(3, 9, 9, 3, 9, 2, 1),
              Limit(3, 9, 9, 3, 9, 1, 3), Limit(3, 9, 4, 3, 9, 1, 1),
              Limit(3, 9, 9, 3, 3, 1, 1), Limit(2, 9, 9, 1, 9, 1, 1) }
=============================================================================
