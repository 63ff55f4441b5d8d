------------------------------- MODULE Toolchain -------------------------------
(* The command-line tools on one machine: the scaffolder makes a project,   *)
(* its developer edits the schemas and runs the generator in it, and the    *)
(* skills are installed and updated, one command at a time.                 *)
EXTENDS Generator, Scaffold, Skills

CONSTANTS NoExports,       \* there is no config module
          TemplateExports  \* what the template's sync.config.ts exports

(* What templates.ts writes into sync.config.ts: a paired configuration as  *)
(* its default export.                                                      *)
ASSUME ToolchainAssumption ==
    /\ NoExports \in ConfigModules /\ TemplateExports \in ConfigModules
    /\ TemplateExports.default.kind = "paired"
    /\ TemplateExports.syncGeneratorConfig.kind = "none" /\ TemplateExports.contract.kind = "none"

vars == <<workbench, generator, scaffold, skills>>

UserFile == [how |-> "user", run |-> 0, framework |-> "any", date |-> 0]

(* The machine has a project with a configuration, or an empty or missing   *)
(* directory, or a repository that does not use Baresync yet, perhaps with  *)
(* directories of AI harnesses.  Where a command has no budget, what only   *)
(* it reads is left out of the choice.                                      *)
Init ==
    /\ day = 0 /\ terminal = "prompt" /\ budget \in Budgets
    /\ GeneratorInit /\ SkillsInit
    /\ setup = NotRun
    /\ \/ /\ budget["scaffold"] = 0 /\ budget["skills"] = 0
          /\ project = Put({NodeModules}, UserFile, <<>>) /\ exports # NoExports
          /\ \E s \in Schemas : disk = [local |-> s, api |-> s]
       \/ /\ project = <<>> /\ exports = NoExports
          /\ disk = [local |-> NoFile, api |-> NoFile]
       \/ /\ project = Put({NodeModules}, UserFile, <<>>) /\ exports = NoExports
          /\ disk = [local |-> NoFile, api |-> NoFile]

(* The config module is there once the scaffolder has written it.           *)
ScaffoldStep ==
    /\ ScaffoldNext
    /\ exports' = IF ConfigFile \in DOMAIN project' /\ project'[ConfigFile].run = setup.run /\ setup.pc = "write"
                  THEN TemplateExports ELSE exports
    /\ UNCHANGED <<generated, run, last, checked, skills>>

(* sync.config.ts imports the generator: where it is not installed, every   *)
(* command ends at the import and changes nothing.                          *)
Installed == NodeModules \in DOMAIN project

(* The developer edits a schema file of the project, or removes the project *)
(* directory to begin again.                                                *)
Edit ==
    /\ EditFile /\ disk # [local |-> NoFile, api |-> NoFile]
    /\ GeneratorEdited
    /\ UNCHANGED <<exports, generated, last, checked, scaffold, skills>>

StartOver ==
    /\ terminal = "prompt" /\ budget["scaffold"] > 0 /\ project # <<>>
    /\ project' = <<>> /\ disk' = [local |-> NoFile, api |-> NoFile] /\ exports' = NoExports
    /\ setup' = [setup EXCEPT !.why = "none"]
    /\ generated' = [d \in Dirs |-> [n \in 0..MaxDay |-> EmptyDir]]
    /\ last' = NeverRan /\ checked' = NeverChecked
    /\ UNCHANGED <<day, terminal, budget, run, skills>>

Next ==
    \/ Midnight /\ UNCHANGED <<generator, scaffold, skills>>
    \/ Edit \/ StartOver
    \/ GeneratorNext /\ Installed /\ UNCHANGED <<scaffold, skills>>
    \/ ScaffoldStep
    \/ SkillsNext /\ UNCHANGED <<generator, scaffold>>
    \/ Upgrade /\ UNCHANGED <<generator, scaffold>>

Spec == Init /\ [][Next]_vars
-----------------------------------------------------------------------------
TypeOK == WorkbenchTypeOK /\ GeneratorTypeOK /\ ScaffoldTypeOK /\ SkillsTypeOK

(* In a project the scaffolder finished, the paths with the contract date   *)
(* that lib.rs and the server's repository import exist once a generate has *)
(* succeeded, begun and ended on the day of the scaffolding, without        *)
(* --output: the two programs take the date from two clocks readings        *)
(* (templates.ts:35, generator/index.ts:197) and agree on no other day.     *)
ImportsResolve ==
    /\ setup.why = "success" /\ exports = TemplateExports
    /\ last.command = "generate" /\ last.why = "ok" /\ last.output = NoDir /\ ~ last.edited
    /\ \A p \in DOMAIN project : project[p].how = "dated" => project[p].date = last.began /\ last.began = last.ended
    => \A p \in DOMAIN project : project[p].how = "dated" =>
          {"contract", "order", "api"} \subseteq
              DOMAIN generated[TemplateExports.default.dir][project[p].date]
=============================================================================
