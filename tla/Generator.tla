------------------------------- MODULE Generator -------------------------------
(* The generator's commands: cli/generator.ts and generator/index.ts.       *)
(* `baresync generate`, `generate --check` and `doctor` load the config     *)
(* module, resolve its exports to entries, build the contract of each entry *)
(* and diagnose it; generate then writes the files of the day's directory   *)
(* one by one and has them formatted, entry after entry.  The schema files  *)
(* may be edited, midnight may pass and the process may be killed between   *)
(* any two of these steps.                                                  *)
EXTENDS Workbench, SchemaRules

CONSTANTS Dirs,          \* output directories
          DefaultDir,    \* "./generated", where a bare contract goes
          NoDir,         \* no --output
          LocalModule, ApiModule, \* the exports of a schema file, by its contents
          SyncTables,    \* the tables of the configuration, in their order
          Configs,       \* the config modules to consider
          Outputs        \* what --output may be, NoDir if it is not given

(* An export of the config module: a paired configuration, one that holds a *)
(* contract and a directory, a bare contract, or nothing.                   *)
Kinds == {"paired", "config", "contract", "none"}
Export == [kind : Kinds, dir : Dirs]
ConfigModules == [syncGeneratorConfig : Export, default : Export, contract : Export]

ASSUME GeneratorAssumption ==
    /\ DefaultDir \in Dirs /\ NoDir \notin Dirs /\ Outputs \subseteq Dirs \cup {NoDir}
    /\ Configs \subseteq ConfigModules
    /\ SyncTables \in Seq(ToSet(SyncTables))
    /\ \A l \in Schemas : \A export \in DOMAIN LocalModule[l] :
          LET t == LocalModule[l][export]
          IN  \A list \in {t.columns, t.primaryKeys, t.foreignKeys} : list \in Seq(ToSet(list))

VARIABLES exports,    \* the exports of the config module
          generated,  \* the files of each output directory, by day
          run,        \* the generator process, while the terminal shows it
          last,       \* how the last generator command ended
          checked     \* what the last successful --check was about

generator == <<exports, generated, run, last, checked>>

(* What comes of building and diagnosing a contract from the two schemas:   *)
(* the severities of what runDiagnostics finds, or a throw.  A contract     *)
(* that is not paired is built by syncSchema from the local schema alone.   *)
Severities(diagnostics) == { d.severity : d \in diagnostics }
PairedOutcome ==
    [ l \in Schemas |-> [ a \in Schemas |->
        IF PairedContractThrows(SyncTables, LocalModule[l], ApiModule[a]) THEN {"throws"}
        ELSE Severities(runDiagnostics(Contract(SyncTables, LocalModule[l], TRUE),
                                       PairedTables(SyncTables, LocalModule[l], ApiModule[a]))) ] ]
BareOutcome ==
    [ l \in Schemas |->
        IF ContractThrows(SyncTables, LocalModule[l]) THEN {"throws"}
        ELSE Severities(runDiagnostics(Contract(SyncTables, LocalModule[l], FALSE), {})) ]
Outcome(kind, schema) ==
    IF kind = "paired"
    THEN IF NoFile \in {schema.local, schema.api} THEN {"throws"}
         ELSE PairedOutcome[schema.local][schema.api]
    ELSE IF schema.local = NoFile THEN {"throws"} ELSE BareOutcome[schema.local]

(* The order is of the tables alone, whichever lists the contract has.      *)
TableOrder ==
    [ l \in { s \in Schemas : ~ ContractThrows(SyncTables, LocalModule[s]) } |->
        computeSyncTableOrder(Contract(SyncTables, LocalModule[l], FALSE)) ]

(* The entries that the exports make, but for those whose directory an      *)
(* earlier one has.                                                         *)
Exported == <<exports.syncGeneratorConfig, exports.default, exports.contract>>
EntryOf(export, output) ==
    [kind |-> export.kind,
     dir |-> IF output # NoDir THEN output ELSE IF export.kind = "contract" THEN DefaultDir ELSE export.dir]
Taken(output) ==
    { i \in 1..3 : /\ Exported[i].kind # "none"
                   /\ \A j \in 1..i - 1 : Exported[j].kind # "none" =>
                         EntryOf(Exported[j], output).dir # EntryOf(Exported[i], output).dir }
resolveLoadedConfigEntries(output) ==
    LET taken == Keep(<<1, 2, 3>>, Taken(output))
    IN  [ n \in DOMAIN taken |-> EntryOf(Exported[taken[n]], output) ]
-----------------------------------------------------------------------------
(* A dated directory holds what was written of the five files, by name, and *)
(* "whole", no file: it records, for the properties, which kind of entry    *)
(* last wrote all its files here ("none" once another began to), and for a  *)
(* paired one, whose snapshots come from the disk, if it was edited.        *)
EmptyDir == [whole |-> "none"]

Entries == [kind : Kinds, dir : Dirs]
NotLoaded == [local |-> NoFile, api |-> NoFile]
NoRun == [pc |-> "none", command |-> "none", strict |-> FALSE, output |-> NoDir, entries |-> <<>>,
          schema |-> NotLoaded, loaded |-> FALSE, today |-> 0, began |-> 0, from |-> NotLoaded,
          edited |-> FALSE, found |-> {}]
NeverRan == [command |-> "none", why |-> "none", strict |-> FALSE, output |-> NoDir,
             from |-> NotLoaded, edited |-> FALSE, began |-> 0, ended |-> 0]

NeverChecked == [passed |-> FALSE, from |-> NotLoaded, output |-> NoDir, strict |-> FALSE]

(* A command ends: exit code 0 when why is "ok".  A check under which a     *)
(* file was edited was about no one state of the disk.                      *)
Finish(why) ==
    /\ End
    /\ run' = NoRun
    /\ last' = [command |-> run.command, why |-> why, strict |-> run.strict, output |-> run.output,
                from |-> run.from, edited |-> run.edited, began |-> run.began, ended |-> day]
    /\ checked' = IF run.command = "check" /\ why = "ok"
                  THEN [passed |-> ~ run.edited, from |-> run.from, output |-> run.output, strict |-> run.strict]
                  ELSE checked

(* The config module is imported: defineSyncConfig throws when a schema     *)
(* file is missing, and a contract in the module is built there and then.   *)
ConfigThrows ==
    \E e \in {exports.syncGeneratorConfig, exports.default, exports.contract} :
        \/ e.kind = "paired" /\ NoFile \in {disk.local, disk.api}
        \/ e.kind \in {"config", "contract"} /\ "throws" \in Outcome(e.kind, disk)

(* The local schema is in the module cache if the config module needed it.  *)
CachedByConfig ==
    \E e \in {exports.syncGeneratorConfig, exports.default, exports.contract} : e.kind \in {"config", "contract"}

Invoke(command, strict, output) ==
    /\ Start("generator")
    /\ command = "doctor" => ~ strict /\ output = NoDir
    /\ LET entries == resolveLoadedConfigEntries(output)
       IN  run' = [NoRun EXCEPT !.pc = IF ConfigThrows \/ entries = <<>> THEN "failed" ELSE "load",
                                !.command = command, !.strict = strict, !.output = output,
                                !.entries = entries, !.began = day, !.from = disk,
                                !.schema.local = IF CachedByConfig THEN disk.local ELSE NoFile]
    /\ last' = NeverRan
    /\ UNCHANGED <<day, disk, exports, generated, checked>>

(* The schemas an entry sees: from the module cache or else from the disk.  *)
Imported(entry) ==
    IF run.loaded \/ entry.kind # "paired" THEN run.schema
    ELSE [local |-> IF run.schema.local # NoFile THEN run.schema.local ELSE disk.local,
          api |-> disk.api]

Entry == Head(run.entries)
Schema == Imported(Entry)
Found == Outcome(Entry.kind, Schema)
Loading(command) ==
    run.pc = "load" /\ run.command = command /\ "throws" \notin Found

GeneratorFrame == UNCHANGED <<day, disk, budget, exports>>

LoadThrows ==
    /\ run.pc = "failed" \/ (run.pc = "load" /\ "throws" \in Found)
    /\ Finish("throws")
    /\ UNCHANGED <<day, disk, exports, generated>>

(* --check and doctor go through all entries before they judge; doctor      *)
(* takes no account of warnings.                                            *)
Judge ==
    LET found == run.found \cup Found
        blocking == IF run.strict THEN {"error", "warning"} ELSE {"error"}
    IN  /\ \/ Loading("check") \/ Loading("doctor")
        /\ IF Len(run.entries) = 1
           THEN Finish(IF found \cap blocking = {} THEN "ok" ELSE "diagnostics")
           ELSE /\ run' = [run EXCEPT !.entries = Tail(@), !.found = found, !.schema = Schema,
                                      !.loaded = @ \/ Entry.kind = "paired"]
                /\ UNCHANGED <<terminal, budget, last, checked>>
        /\ UNCHANGED <<day, disk, exports, generated>>

(* Mutant: a warning blocks whatever the flag.                              *)
BlocksOnWarnings(entry, found) == found # {}

(* generate judges each entry as it comes to it.  Only a bare contract is   *)
(* handed --warnings-as-errors; the date is taken here, entry by entry.     *)
Blocks(entry, found) ==
    \/ "error" \in found
    \/ entry.kind = "contract" /\ run.strict /\ "warning" \in found

Refuse ==
    /\ Loading("generate") /\ Blocks(Entry, Found)
    /\ Finish("diagnostics")
    /\ UNCHANGED <<day, disk, exports, generated>>

(* Mutant: the dated directory that is there is used again.                 *)
AcceptIntoOldest ==
    /\ Loading("generate") /\ ~ Blocks(Entry, Found)
    /\ run' = [run EXCEPT !.pc = "contract", !.schema = Schema,
                          !.today = IF generated[Entry.dir][0] # EmptyDir THEN 0 ELSE day,
                          !.loaded = @ \/ Entry.kind = "paired"]
    /\ UNCHANGED <<terminal, last, checked, generated>> /\ GeneratorFrame

Accept ==
    /\ Loading("generate") /\ ~ Blocks(Entry, Found)
    /\ run' = [run EXCEPT !.pc = "contract", !.schema = Schema, !.today = day,
                          !.loaded = @ \/ Entry.kind = "paired"]
    /\ UNCHANGED <<terminal, last, checked, generated>> /\ GeneratorFrame

(* A file is written, if it is; the write that completes an entry marks the *)
(* directory whole.                                                         *)
Wholeness(next) ==
    CASE next # "format" -> "none"
      [] next = "format" /\ Entry.kind = "paired" /\ run.edited -> "edited"
      [] OTHER -> Entry.kind

Write(files, content, next) ==
    LET whole == Wholeness(next)
        dated == generated[Entry.dir][run.today]
    IN  /\ run' = [run EXCEPT !.pc = next]
        /\ generated' = [generated EXCEPT ![Entry.dir][run.today] =
                            Put({"whole"}, whole, Put(files, content, dated))]
        /\ UNCHANGED <<terminal, last, checked>> /\ GeneratorFrame

Orders == [upsertOrder |-> TableOrder[run.schema.local].upsertOrder,
           deleteOrder |-> TableOrder[run.schema.local].deleteOrder]

writeSyncContractJson ==
    /\ run.pc = "contract"
    /\ Write({"contract"}, [version |-> run.today, tables |-> run.schema.local,
                            paired |-> Entry.kind = "paired", orders |-> Orders], "order")

writeTableOrderConstants ==
    run.pc = "order" /\ Write({"order"}, Orders, "manifest")

(* Mutant: the manifest takes the date again.                               *)
ManifestTakesDate ==
    /\ run.pc = "manifest"
    /\ Write({"manifest"}, [contractVersion |-> day, tables |-> run.schema.local, orders |-> Orders],
             IF Entry.kind = "paired" THEN "api" ELSE "format")

(* Mutant: no snapshots.                                                    *)
ManifestEndsEntry ==
    /\ run.pc = "manifest"
    /\ Write({"manifest"}, [contractVersion |-> run.today, tables |-> run.schema.local, orders |-> Orders],
             "format")

writeManifest ==
    /\ run.pc = "manifest"
    /\ Write({"manifest"}, [contractVersion |-> run.today, tables |-> run.schema.local, orders |-> Orders],
             IF Entry.kind = "paired" THEN "api" ELSE "format")

(* The snapshots are copied from the disk, not from what was imported; a    *)
(* file that has gone is skipped.                                           *)
CopySnapshot(file, next) ==
    /\ run.pc = file
    /\ Write(IF disk[file] = NoFile THEN {} ELSE {file}, disk[file], next)

(* formatGeneratedTsAndJson, by what each formatter does: it is not there,  *)
(* its command is missing, it declines the paths, it fails or it formats.   *)
FormatThrows(biome, oxfmt, prettier) ==
    \/ biome = "fails"
    \/ /\ biome \in {"absent", "missing", "declines"}
       /\ oxfmt = "fails" \/ (oxfmt = "absent" /\ prettier = "fails")

Format ==
    \E biome \in {"absent", "missing", "declines", "fails", "formats"},
       oxfmt \in {"absent", "missing", "fails", "formats"}, prettier \in {"fails", "formats"} :
        /\ run.pc = "format"
        /\ IF FormatThrows(biome, oxfmt, prettier) THEN Finish("format")
           ELSE IF Len(run.entries) = 1 THEN Finish("ok")
           ELSE /\ run' = [run EXCEPT !.pc = "load", !.entries = Tail(@)]
                /\ UNCHANGED <<terminal, budget, last, checked>>
        /\ UNCHANGED <<day, disk, exports, generated>>

KillGenerator ==
    /\ run.pc # "none"
    /\ Finish("killed")
    /\ UNCHANGED <<day, disk, exports, generated>>

(* A file changes under a command that runs.                                *)
GeneratorEdited == run' = [run EXCEPT !.edited = @ \/ run.pc # "none"]

GeneratorInit ==
    /\ exports \in Configs
    /\ generated = [d \in Dirs |-> [n \in 0..MaxDay |-> EmptyDir]]
    /\ run = NoRun /\ last = NeverRan
    /\ checked = NeverChecked

GeneratorSteps ==
    \/ LoadThrows \/ Judge \/ Refuse \/ Accept
    \/ writeSyncContractJson \/ writeTableOrderConstants \/ writeManifest
    \/ CopySnapshot("api", "local") \/ CopySnapshot("local", "format")
    \/ Format \/ KillGenerator

GeneratorNext ==
    \/ \E command \in {"generate", "check", "doctor"}, strict \in BOOLEAN, output \in Outputs :
          Invoke(command, strict, output)
    \/ GeneratorSteps
-----------------------------------------------------------------------------
(* Properties.                                                              *)

RunTypeOK ==
    /\ run.pc \in {"none", "failed", "load", "contract", "order", "manifest", "api", "local", "format"}
    /\ run.command \in {"none", "generate", "check", "doctor"}
    /\ run.strict \in BOOLEAN /\ run.edited \in BOOLEAN /\ run.loaded \in BOOLEAN
    /\ run.output \in Dirs \cup {NoDir}
    /\ run.entries \in Seq(Entries)
    /\ run.schema \in [{"local", "api"} -> Schemas \cup {NoFile}]
    /\ run.from \in [{"local", "api"} -> Schemas \cup {NoFile}]
    /\ run.today \in 0..MaxDay /\ run.began \in 0..MaxDay
    /\ run.pc \in {"contract", "order", "manifest", "api", "local", "format"} =>
          run.entries # <<>> /\ run.schema.local \in DOMAIN TableOrder

GeneratorTypeOK ==
    /\ RunTypeOK
    /\ (run.pc # "none") = (terminal = "generator")
    /\ \A d \in Dirs, n \in 0..MaxDay :
          /\ DOMAIN generated[d][n] \subseteq {"whole", "contract", "order", "manifest", "api", "local"}
          /\ generated[d][n].whole \in Kinds \cup {"edited"}

(* Every sync-contract.json lists each table of its schema once, a table    *)
(* that is referred to before the tables that refer to it, and deletes in   *)
(* the opposite order: what a push or a pull that follows the lists needs   *)
(* of topologicalSort (fk-order.ts:100), whichever of the diagnostics let   *)
(* the schema through.                                                      *)
Position(order, name) == CHOOSE i \in DOMAIN order : order[i] = name
OrdersTables(orders, contract) ==
    LET up == orders.upsertOrder
    IN  /\ ToSet(up) = Names(contract) /\ Len(up) = Cardinality(Names(contract))
        /\ orders.deleteOrder = Reverse(up)
        /\ \A i \in DOMAIN contract : \A f \in ToSet(contract[i].table.foreignKeys) :
              f.to \in Names(contract) \ {contract[i].table.name} =>
                  Position(up, f.to) < Position(up, contract[i].table.name)
ParentsFirst ==
    \A d \in Dirs, n \in 0..MaxDay :
        "contract" \in DOMAIN generated[d][n] =>
            LET file == generated[d][n].contract
            IN  OrdersTables(file.orders, Contract(SyncTables, LocalModule[file.tables], file.paired))

(* A table that reaches a contract file is one the engine's statements can  *)
(* work on: its key is the text column "id" alone, except that two columns  *)
(* that are each declared a key are not looked at (diagnostics.ts:104); it  *)
(* has the scope column and the columns that record a row's times, of their *)
(* types, every column once, and no is_synced that is not a number.  It has *)
(* is_synced, or its contract declares it local-only: a bare contract only  *)
(* if its author wrote so, a paired one whenever the author wrote nothing   *)
(* (generator/index.ts:127), so that a paired table may well lack it.       *)
KeyIsTextId(t) ==
    /\ \E c \in ColumnsOf(t) : c.name = "id" /\ c.columnType = "SQLiteText"
    /\ t.primaryKeys = <<"id">> \/ (t.primaryKeys = <<>> /\ PrimaryColumns(t) # {})
    /\ \A i \in PrimaryColumns(t) : PrimaryColumns(t) = {i} => t.columns[i].name = "id"
SyncableTable(def) ==
    LET t == def.table
    IN  /\ KeyIsTextId(t)
        /\ \A name \in {"created_at", "updated_at", "deleted_at"} :
              \E c \in ColumnsOf(t) : c.name = name /\ c.columnType = "SQLiteText"
        /\ \/ "is_synced" \in getColumnNames(t)
           \/ def.localOnlyColumns \cap {"is_synced", "isSynced"} # {}
        /\ \A c \in ColumnsOf(t) : c.name = "is_synced" => c.columnType \in {"SQLiteInteger", "SQLiteBoolean"}
        /\ \E c \in ColumnsOf(t) : snakeToCamel(c.name) = snakeToCamel(def.scope.field)
        /\ Cardinality(getColumnNames(t)) = Len(t.columns)
OnlySyncableTables ==
    \A d \in Dirs, n \in 0..MaxDay :
        "contract" \in DOMAIN generated[d][n] =>
            LET file == generated[d][n].contract
                contract == Contract(SyncTables, LocalModule[file.tables], file.paired)
            IN  \A i \in DOMAIN contract : SyncableTable(contract[i])

(* Once an entry has written all its files to a dated directory, and until  *)
(* another begins to write there, the contract, the orders and the manifest *)
(* are of one schema and say this day, whatever was edited meanwhile.  If   *)
(* the entry was paired and nothing was edited under its command, the two   *)
(* snapshots are of the schemas that were paired: the API snapshot the      *)
(* server imports has the columns of the contract's tables but for the      *)
(* one-sided ones, although snapshots are copied from the disk and the      *)
(* contract comes from the module cache (generator/index.ts:209).  Nothing  *)
(* is said of the snapshots that a bare or config entry finds in the        *)
(* directory of a paired one: it leaves them, beside a new contract.        *)
DirectoryAgrees ==
    \A d \in Dirs, n \in 0..MaxDay :
        LET dated == generated[d][n]
        IN  dated.whole # "none" =>
              /\ dated.contract.version = n /\ dated.manifest.contractVersion = n
              /\ dated.manifest.tables = dated.contract.tables
              /\ dated.order = dated.contract.orders /\ dated.manifest.orders = dated.order
              /\ dated.whole = "paired" =>
                    /\ dated.local = dated.contract.tables
                    /\ "throws" \notin PairedOutcome[dated.local][dated.api]

(* What --check let through is not refused by generate for the same files,  *)
(* the same directory and no stricter flags: the two go through the entries *)
(* in different ways (cli/generator.ts:144 and 179).                        *)
CheckPredictsGenerate ==
    /\ last.command = "generate" /\ last.why \in {"throws", "diagnostics"}
    /\ checked.passed /\ ~ last.edited /\ last.from = checked.from /\ last.output = checked.output
    => last.strict /\ ~ checked.strict

(* A dated directory is only written by a command that began on its day or  *)
(* before, and no later than that day ends for it: once the commands that   *)
(* were running at midnight are over, the contract that an application was  *)
(* built with stays what it was, until the project is removed.              *)
FrozenForLaterRuns ==
    [][\A d \in Dirs, n \in 0..MaxDay :
          generated'[d][n] \notin {generated[d][n], EmptyDir} =>
              run.pc # "none" /\ run.began <= n /\ n <= day]_<<workbench, generator>>
=============================================================================
