----------------------------- MODULE MCToolchain -----------------------------
(* An instance of the toolchain: three tables, in schemas that are sound,   *)
(* raise a warning, break a rule each, or refer to one another in every     *)
(* way that matters to the order.                                           *)
EXTENDS Toolchain

Text(n) == [name |-> n, columnType |-> "SQLiteText", notNull |-> TRUE, primary |-> n = "id", long |-> FALSE]
Integer(n) == [Text(n) EXCEPT !.columnType = "SQLiteInteger"]
Common == <<Text("id"), Text("org_id"), Text("created_at"), Text("updated_at"), Text("deleted_at")>>

Table(name, columns, keys) ==
    [name |-> name, columns |-> columns, primaryKeys |-> <<>>,
     foreignKeys |-> keys, indexes |-> {<<"org_id", "sync_updated_at">>}]
To(t) == [to |-> t, notNull |-> FALSE]
Required(t) == [to |-> t, notNull |-> TRUE]

(* The columns all three tables have, and the references of each.           *)
Module(columns, lists, todos, tags) ==
    [lists |-> Table("lists", columns, lists), todos |-> Table("todos", columns, todos),
     tags |-> Table("tags", columns, tags)]

Local == Append(Common, Integer("is_synced"))
Sound(columns) == Module(columns, <<>>, <<Required("lists")>>, <<To("todos"), To("tags")>>)

MCLocalModule ==
    "sound"     :> Sound(Local) @@
    "turned"    :> Module(Local, <<Required("tags"), To("todos")>>, <<To("tags"), To("gone")>>, <<>>) @@
    "cycle"     :> Module(Local, <<To("tags")>>, <<To("lists")>>, <<To("todos")>>) @@
    "external"  :> Module(Local, <<Required("gone")>>, <<>>, <<>>) @@
    "nullable"  :> Sound([Local EXCEPT ![2].notNull = FALSE]) @@
    "noflag"    :> Sound(Common) @@
    "merged"    :> Sound(Append(Local, Integer("sync_updated_at"))) @@
    "nodelete"  :> Sound(SelectSeq(Local, LAMBDA c : c.name # "deleted_at")) @@
    "notimes"   :> Sound(SelectSeq(Local, LAMBDA c : c.name # "updated_at")) @@
    "intkey"    :> Sound([Local EXCEPT ![1].columnType = "SQLiteInteger"]) @@
    "twice"     :> Sound(Append(Local, Text("updated_at"))) @@
    "inttime"   :> Sound([Local EXCEPT ![4].columnType = "SQLiteInteger"]) @@
    "keyless"   :> Sound([Local EXCEPT ![1].primary = FALSE])

MCApiModule ==
    [ s \in DOMAIN MCLocalModule |->
        LET module == MCLocalModule[s]
        IN  [ t \in DOMAIN module |->
                [ module[t] EXCEPT !.columns =
                    Append(SelectSeq(@, LAMBDA c : c.name \notin {"is_synced", "sync_updated_at"}),
                           Integer("sync_updated_at")) ] ] ]

MCEdited == {"turned", NoFile}
MCSchemas == DOMAIN MCLocalModule
MCSyncTables ==
    << [exportName |-> "tags", scopeColumn |-> "org_id"], [exportName |-> "todos", scopeColumn |-> "orgId"],
       [exportName |-> "lists", scopeColumn |-> "org_id"] >>

None == [kind |-> "none", dir |-> "generated"]
NoConfig == [syncGeneratorConfig |-> None, default |-> None, contract |-> None]
MCConfigs ==
    { NoConfig,
      [syncGeneratorConfig |-> [kind |-> "config", dir |-> "contracts"], default |-> None,
       contract |-> [kind |-> "contract", dir |-> "generated"]],
      [syncGeneratorConfig |-> None, default |-> [kind |-> "paired", dir |-> "contracts"],
       contract |-> [kind |-> "contract", dir |-> "generated"]] }
MCTemplateExports == [NoConfig EXCEPT !.default = [kind |-> "paired", dir |-> "contracts"]]

Budget(a, b, c, d, e) ==
    "scaffold" :> a @@ "generator" :> b @@ "skills" :> c @@ "edit" :> d @@ "midnight" :> e
MCBudgets == { Budget(0, 2, 0, 1, 0), Budget(0, 2, 0, 0, 1), Budget(0, 1, 0, 1, 1),
               Budget(2, 0, 0, 0, 0), Budget(1, 1, 0, 0, 1), Budget(0, 0, 2, 0, 0) }

MCAppLeavings ==
    LET all == {App, AppSource, "apps/app/package.json", "apps/app/tsconfig.json", Vite}
    IN  {{}, {App, "apps/app/package.json"}, all, all \ {Vite}, all \cup {OddVite}}
MCServerLeavings == {{}, {Server}, {Server, "apps/server/package.json", "apps/server/tsconfig.json"}}
MCProviders == <<".claude", ".opencode">>
MCDefaultTargets == <<".claude">>
MCSkillFiles == <<{"SKILL.md", "a.md"}, {"SKILL.md", "b.md"}>>
=============================================================================
