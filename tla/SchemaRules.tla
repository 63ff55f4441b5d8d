------------------------------ MODULE SchemaRules ------------------------------
(* What the generator accepts and in which order it lists the tables:       *)
(* generator/diagnostics.ts, generator/fk-order.ts, generator/config.ts,    *)
(* schema/contract.ts and schema/synced-table.ts, as operators on schemas.  *)
(*                                                                          *)
(* A table of a Drizzle schema is a record                                  *)
(*   [name, columns, primaryKeys, foreignKeys, indexes]                     *)
(* columns     a sequence of [name, columnType, notNull, primary, long]     *)
(*             (long: a declared text length over 10000)                    *)
(* primaryKeys the columns of its composite keys, flattened                 *)
(* foreignKeys a sequence of [to, notNull] (notNull: some column is)        *)
(* indexes     the set of the column names of each index, in their order;   *)
(*             an expression stands in one as Expression                    *)
(* A synced table is [table, scope, localOnlyColumns, serverOnlyColumns],   *)
(* with the scope's mapping [source, field]; a contract is a sequence of    *)
(* synced tables.  A diagnostic is [severity, code, table]: two columns     *)
(* that break one rule in one way give one.                                 *)
EXTENDS Integers, FiniteSets, SequencesExt, Lists

Expression == "expression"
NoTable == "no table"

(* The case conversions on the names used here: word_word and wordWord are  *)
(* each other's image; org_i_d is what the conversion makes of orgID.       *)
CaseTable == { <<"is_synced", "isSynced">>, <<"sync_updated_at", "syncUpdatedAt">>,
               <<"org_id", "orgId">>, <<"created_at", "createdAt">>,
               <<"updated_at", "updatedAt">>, <<"deleted_at", "deletedAt">>,
               <<"org_i_d", "orgID">> }
camelToSnake(s) ==
    IF \E p \in CaseTable : p[2] = s THEN (CHOOSE p \in CaseTable : p[2] = s)[1] ELSE s
snakeToCamel(s) ==
    IF \E p \in CaseTable : p[1] = s THEN (CHOOSE p \in CaseTable : p[1] = s)[2] ELSE s

ColumnsOf(t) == { t.columns[i] : i \in DOMAIN t.columns }
getColumnNames(t) == { c.name : c \in ColumnsOf(t) }

ColumnsNamed(t, names) == { c \in ColumnsOf(t) : c.name \in names }

(* The first column of those that pass, or a column without a name.         *)
NoColumn == [name |-> "", columnType |-> "", notNull |-> TRUE, primary |-> FALSE, long |-> FALSE]
FindColumn(t, passing) ==
    LET found == Keep(t.columns, passing) IN IF found = <<>> THEN NoColumn ELSE Head(found)
-----------------------------------------------------------------------------
(* Contracts: config.ts, synced-table.ts, contract.ts.                      *)

resolveScopeFromTable(t, scopeName) ==
    FindColumn(t, { c \in ColumnsOf(t) : c.name = scopeName \/ snakeToCamel(c.name) = scopeName })

(* defineSyncContract keeps a table, and does not throw.                    *)
validateAndExtractTableMeta(def) ==
    /\ def.table.primaryKeys = <<>> => "id" \in getColumnNames(def.table)
    /\ {def.scope.field, camelToSnake(def.scope.field)} \cap getColumnNames(def.table) # {}
    /\ "deleted_at" \in getColumnNames(def.table)

namesWithColumnAliases(names) == names \cup { camelToSnake(n) : n \in names }

(* A list of one-sided columns that the options leave out has a default in  *)
(* a paired configuration; in a contract built by hand it is empty.         *)
localOnlyColumns(options, paired) ==
    IF "localOnlyColumns" \in DOMAIN options THEN options.localOnlyColumns
    ELSE IF paired THEN {"isSynced"} ELSE {}
serverOnlyColumns(options, paired) ==
    IF "serverOnlyColumns" \in DOMAIN options THEN options.serverOnlyColumns
    ELSE IF paired THEN {"syncUpdatedAt"} ELSE {}

validatePairedTableColumns(localTable, apiTable, options) ==
    /\ getColumnNames(localTable) \ getColumnNames(apiTable)
            \subseteq namesWithColumnAliases(localOnlyColumns(options, TRUE))
    /\ getColumnNames(apiTable) \ getColumnNames(localTable)
            \subseteq namesWithColumnAliases(serverOnlyColumns(options, TRUE))

(* syncedTable with the scope given by the name of a column.                *)
syncedTable(t, options, paired) ==
    [ table |-> t,
      scope |-> [source |-> "scope",
                 field |-> snakeToCamel(resolveScopeFromTable(t, options.scopeColumn).name)],
      localOnlyColumns |-> localOnlyColumns(options, paired),
      serverOnlyColumns |-> serverOnlyColumns(options, paired) ]

(* The contract over the exports that a configuration names, and whether    *)
(* building it throws, for which the lists do not count: an export or the   *)
(* scope's column is missing, or defineSyncContract refuses a table; for a  *)
(* paired configuration also when the columns of the two modules do not     *)
(* pair.  A schema module is a function from its exports to tables.         *)
Contract(tables, localModule, paired) ==
    [ i \in DOMAIN tables |-> syncedTable(localModule[tables[i].exportName], tables[i], paired) ]

ContractThrows(tables, localModule) ==
    \E i \in DOMAIN tables :
        \/ tables[i].exportName \notin DOMAIN localModule
        \/ resolveScopeFromTable(localModule[tables[i].exportName], tables[i].scopeColumn) = NoColumn
        \/ ~ validateAndExtractTableMeta(Contract(tables, localModule, FALSE)[i])

PairedContractThrows(tables, localModule, apiModule) ==
    \/ ContractThrows(tables, localModule)
    \/ \E i \in DOMAIN tables :
          LET export == tables[i].exportName
          IN  \/ export \notin DOMAIN apiModule
              \/ ~ validatePairedTableColumns(localModule[export], apiModule[export], tables[i])

(* The API table of each local table name, for the index rule.              *)
PairedTables(tables, localModule, apiModule) ==
    { <<localModule[tables[i].exportName].name, apiModule[tables[i].exportName]>> : i \in DOMAIN tables }
-----------------------------------------------------------------------------
(* The order of the tables: fk-order.ts.                                    *)

Names(contract) == { contract[i].table.name : i \in DOMAIN contract }

(* Of two tables of one name the later is the one in the schema module.     *)
TableNamed(contract, name) ==
    LET places == { i \in DOMAIN contract : contract[i].table.name = name }
    IN  contract[CHOOSE i \in places : \A j \in places : j <= i].table

ExternalReference(contract) ==
    \E n \in Names(contract) : \E f \in ToSet(TableNamed(contract, n).foreignKeys) :
        f.to \notin Names(contract) /\ f.notNull

(* Mutant: a nullable reference is left out inside the contract too.        *)
OnlyRequiredReferences(contract) ==
    [ n \in Names(contract) |->
        LET all == TableNamed(contract, n).foreignKeys
            keys == Keep(all, { f \in ToSet(all) : f.notNull })
        IN  Keep([i \in DOMAIN keys |-> keys[i].to], Names(contract) \ {n}) ]

(* The synced tables that each synced table refers to, in order.  A         *)
(* nullable reference outside the contract is left out, and one to the      *)
(* table itself; a nullable reference inside it counts like any other.      *)
buildGraph(contract) ==
    [ n \in Names(contract) |->
        LET keys == TableNamed(contract, n).foreignKeys
        IN  Keep([i \in DOMAIN keys |-> keys[i].to], Names(contract) \ {n}) ]

(* One turn of visit: s.stack holds the calls that have not returned, each  *)
(* with the dependencies it still has to visit, s.roots the names that the  *)
(* outer loop has not reached.                                              *)
Call(nodes, s, t) ==
    IF t \in ToSet(s.ordered) THEN s
    ELSE IF \E i \in DOMAIN s.stack : s.stack[i].table = t THEN [s EXCEPT !.cycle = TRUE]
    ELSE [s EXCEPT !.stack = Append(@, [table |-> t, left |-> nodes[t]])]

Turn(nodes, s) ==
    CASE s.cycle \/ (s.stack = <<>> /\ s.roots = <<>>) -> s
      [] ~ s.cycle /\ s.stack = <<>> /\ s.roots # <<>> ->
            Call(nodes, [s EXCEPT !.roots = Tail(@)], Head(s.roots))
      [] OTHER ->
            LET frame == Last(s.stack)
            IN  IF frame.left = <<>>
                THEN [s EXCEPT !.stack = Front(@), !.ordered = Append(@, frame.table)]
                ELSE Call(nodes, [s EXCEPT !.stack[Len(s.stack)].left = Tail(@)], Head(frame.left))

(* Every root is called, every table left once and each of its dependencies *)
(* called.                                                                  *)
topologicalSort(nodes, roots) ==
    LET Turns == Len(roots) + Cardinality(UNION { {t} \X (0..Len(nodes[t])) : t \in DOMAIN nodes })
        Run[n \in 0..Turns] ==
            IF n = 0 THEN [ordered |-> <<>>, stack |-> <<>>, roots |-> roots, cycle |-> FALSE]
                     ELSE Turn(nodes, Run[n - 1])
    IN  Run[Turns]

(* computeSyncTableOrder as the generator calls it: what it throws, or the  *)
(* two orders.  A name that two tables have is called twice, the second     *)
(* time for nothing.                                                        *)
computeSyncTableOrder(contract) ==
    LET roots == [i \in DOMAIN contract |-> contract[i].table.name]
        sorted == topologicalSort(buildGraph(contract), roots)
    IN  IF ExternalReference(contract) THEN [throws |-> "external", upsertOrder |-> <<>>, deleteOrder |-> <<>>]
        ELSE IF sorted.cycle THEN [throws |-> "cycle", upsertOrder |-> <<>>, deleteOrder |-> <<>>]
        ELSE [throws |-> "nothing", upsertOrder |-> sorted.ordered, deleteOrder |-> Reverse(sorted.ordered)]
-----------------------------------------------------------------------------
(* The rules: diagnostics.ts.                                               *)

Report(broken, severity, code, table) ==
    IF broken THEN {[severity |-> severity, code |-> code, table |-> table]} ELSE {}

PrimaryColumns(t) == { i \in DOMAIN t.columns : t.columns[i].primary }

checkMissingPrimaryKey(t) ==
    Report(PrimaryColumns(t) = {} /\ t.primaryKeys = <<>>, "error", "MISSING_PRIMARY_KEY", t.name)

(* Anything but one text column called id; two columns that are each        *)
(* declared a primary key are not looked at.                                *)
checkUnsupportedPrimaryKey(t) ==
    LET Unsupported(c) == c.columnType # "SQLiteText" \/ c.name # "id"
    IN  Report(\/ Len(t.primaryKeys) > 1
               \/ \E i \in PrimaryColumns(t) : PrimaryColumns(t) = {i} /\ Unsupported(t.columns[i])
               \/ Len(t.primaryKeys) = 1 /\ Unsupported(FindColumn(t, ColumnsNamed(t, {t.primaryKeys[1]}))),
               "error", "UNSUPPORTED_PRIMARY_KEY", t.name)

Spellings(field) == {field, camelToSnake(field), snakeToCamel(field)}

checkMissingScopeColumn(def) ==
    Report(Spellings(def.scope.field) \cap getColumnNames(def.table) = {},
           "error", "MISSING_SCOPE_COLUMN", def.table.name)

checkMissingDeletedAt(t) ==
    Report("deleted_at" \notin getColumnNames(t), "error", "MISSING_DELETED_AT", t.name)

checkMissingRowStateColumns(t) ==
    Report(~ {"created_at", "updated_at"} \subseteq getColumnNames(t),
           "error", "MISSING_ROW_STATE_COLUMN", t.name)

(* Declaring the column server-only, or local-only below, is enough.        *)
checkMissingSyncUpdatedAt(def) ==
    Report(/\ "sync_updated_at" \notin getColumnNames(def.table)
           /\ def.serverOnlyColumns \cap {"sync_updated_at", "syncUpdatedAt"} = {},
           "warning", "MISSING_SYNC_UPDATED_AT", def.table.name)

(* Mutant: a missing flag is no more than a warning.                        *)
FlagOnlyWarned(def) ==
    Report(/\ "is_synced" \notin getColumnNames(def.table)
           /\ def.localOnlyColumns \cap {"is_synced", "isSynced"} = {},
           "warning", "MISSING_LOCAL_IS_SYNCED", def.table.name)

checkMissingLocalIsSynced(def) ==
    Report(/\ "is_synced" \notin getColumnNames(def.table)
           /\ def.localOnlyColumns \cap {"is_synced", "isSynced"} = {},
           "error", "MISSING_LOCAL_IS_SYNCED", def.table.name)

checkDuplicateTableName(contract) ==
    UNION { Report(\E i, j \in DOMAIN contract :
                      i # j /\ contract[i].table.name = n /\ contract[j].table.name = n,
                   "error", "DUPLICATE_TABLE_NAME", n) : n \in Names(contract) }

KNOWN_COLUMN_TYPES == { "SQLiteText", "SQLiteInteger", "SQLiteBoolean", "SQLiteTimestamp", "SQLiteReal",
                        "SQLiteBlobBuffer", "SQLiteBlobJson", "SQLiteTextJson" }

checkUnsupportedColumnType(t) ==
    Report(\E c \in ColumnsOf(t) : c.columnType \notin KNOWN_COLUMN_TYPES,
           "error", "UNSUPPORTED_COLUMN_TYPE", t.name)

checkDuplicateFieldName(t) ==
    Report(\E i, j \in DOMAIN t.columns : i # j /\ t.columns[i].name = t.columns[j].name,
           "error", "DUPLICATE_FIELD_NAME", t.name)

(* The types each reserved column may have.                                 *)
RESERVED_FIELDS ==
    [ n \in {"id", "created_at", "updated_at", "deleted_at", "is_synced", "sync_updated_at"} |->
        CASE n = "is_synced" -> {"SQLiteInteger", "SQLiteBoolean"}
          [] n = "sync_updated_at" -> {"SQLiteInteger", "SQLiteTimestamp"}
          [] OTHER -> {"SQLiteText"} ]

checkReservedFieldReused(t) ==
    Report(\E c \in ColumnsOf(t) :
              c.name \in DOMAIN RESERVED_FIELDS /\ c.columnType \notin RESERVED_FIELDS[c.name],
           "error", "RESERVED_FIELD_REUSED", t.name)

checkFkCycleAndExternalFk(contract) ==
    LET throws == computeSyncTableOrder(contract).throws
    IN  Report(throws = "cycle", "error", "FK_CYCLE", NoTable)
            \cup Report(throws = "external", "error", "REQUIRED_EXTERNAL_FK", NoTable)

checkNullableScopeColumn(def) ==
    LET column == FindColumn(def.table, ColumnsNamed(def.table, {def.scope.field, camelToSnake(def.scope.field)}))
    IN  Report(column # NoColumn /\ ~ column.notNull, "warning", "NULLABLE_SCOPE_COLUMN", def.table.name)

checkBatteriesIncludedNot1To1(def) ==
    Report(/\ { camelToSnake(c) : c \in def.localOnlyColumns } \ {"is_synced"} # {}
           /\ { camelToSnake(c) : c \in def.serverOnlyColumns } \ {"sync_updated_at"} # {},
           "warning", "BATTERIES_INCLUDED_NOT_1_TO_1", def.table.name)

checkLargeTextField(t) ==
    Report(\E c \in ColumnsOf(t) : c.columnType = "SQLiteText" /\ c.long,
           "warning", "LARGE_TEXT_FIELD", t.name)

checkJsonOnlyField(t) ==
    Report(\E c \in ColumnsOf(t) : c.columnType \in {"SQLiteBlobJson", "SQLiteTextJson"},
           "warning", "JSON_ONLY_FIELD", t.name)

indexHasOrderedPrefix(index, expectedPrefix) ==
    Expression \notin ToSet(index) /\ IsPrefix(expectedPrefix, index)

findPhysicalColumnName(t, field) == FindColumn(t, ColumnsNamed(t, Spellings(field))).name

(* Looked up in the API table where the configuration is paired.            *)
checkMissingScopeWatermark(def, t) ==
    LET scopeColumn == findPhysicalColumnName(t, def.scope.field)
    IN  Report(/\ "sync_updated_at" \in getColumnNames(t)
               /\ scopeColumn # ""
               /\ ~ \E index \in t.indexes : indexHasOrderedPrefix(index, <<scopeColumn, "sync_updated_at">>),
               "warning", "SYNC_INDEX_MISSING_SCOPE_WATERMARK", def.table.name)

checkBatteriesIncludedComplexMapping(def) ==
    Report(\/ def.scope.source # "scope"
           \/ def.scope.field # snakeToCamel(camelToSnake(def.scope.field)),
           "warning", "BATTERIES_INCLUDED_COMPLEX_MAPPING", def.table.name)

(* The comparison with an earlier manifest, checkAdditiveChange, reports    *)
(* nothing: no command hands runDiagnostics the earlier tables.             *)
runDiagnostics(contract, paired) ==
    checkDuplicateTableName(contract) \cup checkFkCycleAndExternalFk(contract)
    \cup UNION { LET def == contract[i]
                     t == def.table
                     api == { p[2] : p \in { q \in paired : q[1] = t.name } }
                 IN  UNION { checkMissingPrimaryKey(t), checkUnsupportedPrimaryKey(t),
                             checkMissingScopeColumn(def), checkMissingDeletedAt(t),
                             checkMissingRowStateColumns(t), checkMissingSyncUpdatedAt(def),
                             checkMissingLocalIsSynced(def), checkUnsupportedColumnType(t),
                             checkDuplicateFieldName(t), checkReservedFieldReused(t),
                             checkNullableScopeColumn(def), checkBatteriesIncludedNot1To1(def),
                             checkLargeTextField(t), checkJsonOnlyField(t),
                             checkMissingScopeWatermark(def, IF api = {} THEN t ELSE CHOOSE a \in api : TRUE),
                             checkBatteriesIncludedComplexMapping(def) } : i \in DOMAIN contract }
=============================================================================
