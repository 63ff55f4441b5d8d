-------------------------------- MODULE Skills --------------------------------
(* `baresync skills install` and `baresync skills update`: cli/skills.ts    *)
(* and skills/install.ts copy the package's skill into the directories of   *)
(* the AI harnesses of a project, file by file, after a confirmation.  The  *)
(* package may be updated between two commands, and a command be killed     *)
(* between two files.                                                       *)
EXTENDS Workbench, Lists, FiniteSets, SequencesExt

CONSTANTS Providers,      \* the harness directories, in the order of the code
          DefaultTargets, \* those used when there is none
          OpenCode,       \* the one that also gets a command file
          SkillFiles      \* the files of the skill in each version of the package

ASSUME SkillsAssumption ==
    /\ Providers \in Seq(ToSet(Providers)) /\ DefaultTargets \in Seq(ToSet(Providers))
    /\ OpenCode \in ToSet(Providers) /\ 1 \in DOMAIN SkillFiles
    /\ \A v \in DOMAIN SkillFiles : "SKILL.md" \in SkillFiles[v]

VARIABLES version,  \* the version of the package that the command runs from
          harness,  \* harness directories of the project
          global,   \* harness directories in the home directory
          skill,    \* the files of each project harness: name and version
          job,      \* the command, while the terminal shows it
          torn      \* harnesses whose last copy was killed half way

skills == <<version, harness, global, skill, job, torn>>

Command == "commands/baresync.md"
NoJob == [pc |-> "none", sub |-> "none", targets |-> <<>>, left |-> {}]

Ordered(dirs) == Keep(Providers, dirs)
NamesIn(p) == { f[1] : f \in skill[p] }

(* Named with --providers, or found in the project, or in the home          *)
(* directory, or the default ones.                                          *)
resolveInstallTargets(flag) ==
    CASE flag # {} -> Ordered(flag)
      [] flag = {} /\ harness # {} -> Ordered(harness)
      [] flag = {} /\ harness = {} /\ global # {} -> Ordered(global)
      [] OTHER -> DefaultTargets

findInstalledSkillDirs == Ordered({ p \in ToSet(Providers) : "SKILL.md" \in NamesIn(p) })

SkillsFrame == UNCHANGED <<day, disk, version, global>>
Done == End /\ job' = NoJob

(* The targets are settled before the question is asked; update has nothing *)
(* to do where findInstalledSkillDirs finds nothing.                        *)
runSkillsCommand(sub, flag) ==
    LET targets == IF sub = "install" \/ flag # {} THEN resolveInstallTargets(flag)
                   ELSE findInstalledSkillDirs
    IN  /\ Start("skills")
        /\ job' = [pc |-> IF sub = "update" /\ findInstalledSkillDirs = <<>> THEN "nothing" ELSE "ask",
                   sub |-> sub, targets |-> targets, left |-> {}]
        /\ UNCHANGED <<harness, skill, torn>> /\ SkillsFrame

NothingInstalled ==
    /\ job.pc = "nothing" /\ Done
    /\ UNCHANGED <<harness, skill, torn>> /\ SkillsFrame

(* "No" ends the command.  "Yes" and --yes go on, and so does a cancelled   *)
(* prompt: confirm then returns a symbol, which is not falsy.               *)
Answer(answer) ==
    /\ job.pc = "ask"
    /\ IF answer = "no" THEN Done
       ELSE job' = [job EXCEPT !.pc = "next"] /\ UNCHANGED <<terminal, budget>>
    /\ UNCHANGED <<harness, skill, torn>> /\ SkillsFrame

(* The next target: installSkills makes its directories, updateSkills skips *)
(* it unless it has the skill's directory.                                  *)
NextTarget ==
    /\ job.pc = "next"
    /\ IF job.targets = <<>> THEN Done /\ UNCHANGED harness
       ELSE LET p == Head(job.targets)
            IN  /\ UNCHANGED <<terminal, budget>>
                /\ IF job.sub = "update" /\ NamesIn(p) \ {Command} = {}
                   THEN job' = [job EXCEPT !.targets = Tail(@)] /\ UNCHANGED harness
                   ELSE /\ job' = [job EXCEPT !.pc = "copy", !.left = SkillFiles[version]
                                        \cup IF p = OpenCode THEN {Command} ELSE {}]
                        /\ harness' = harness \cup {p}
    /\ UNCHANGED <<skill, torn>> /\ SkillsFrame

(* Mutant: a file that is there is left as it is.                           *)
CopyMissingFile ==
    /\ job.pc = "copy"
    /\ \E f \in job.left :
          /\ f = Command => job.left = {Command}
          /\ skill' = IF f \in NamesIn(Head(job.targets)) THEN skill
                      ELSE [skill EXCEPT ![Head(job.targets)] = @ \cup {<<f, version>>}]
          /\ job' = IF job.left = {f}
                    THEN [job EXCEPT !.left = {}, !.pc = "next", !.targets = Tail(@)]
                    ELSE [job EXCEPT !.left = @ \ {f}]
          /\ torn' = IF job.left = {f} THEN torn \ {Head(job.targets)} ELSE torn
    /\ UNCHANGED <<terminal, budget, harness>> /\ SkillsFrame

(* cpSync copies the files in some order, and removes none; the command     *)
(* file of OpenCode comes last.                                             *)
CopyFile ==
    /\ job.pc = "copy"
    /\ \E f \in job.left :
          /\ f = Command => job.left = {Command}
          /\ skill' = [skill EXCEPT ![Head(job.targets)] =
                          { g \in @ : g[1] # f } \cup {<<f, version>>}]
          /\ job' = IF job.left = {f}
                    THEN [job EXCEPT !.left = {}, !.pc = "next", !.targets = Tail(@)]
                    ELSE [job EXCEPT !.left = @ \ {f}]
          /\ torn' = IF job.left = {f} THEN torn \ {Head(job.targets)} ELSE torn
    /\ UNCHANGED <<terminal, budget, harness>> /\ SkillsFrame

KillSkills ==
    /\ job.pc # "none" /\ Done
    /\ torn' = IF job.pc = "copy" THEN torn \cup {Head(job.targets)} ELSE torn
    /\ UNCHANGED <<harness, skill>> /\ SkillsFrame

(* A newer package is installed.                                            *)
Upgrade ==
    /\ terminal = "prompt" /\ budget["skills"] > 0 /\ version + 1 \in DOMAIN SkillFiles
    /\ version' = version + 1
    /\ UNCHANGED <<workbench, harness, global, skill, job, torn>>

SkillsInit ==
    /\ version = 1
    /\ harness \in SUBSET ToSet(Providers) /\ global \in SUBSET ToSet(Providers)
    /\ budget["skills"] = 0 => harness = {} /\ global = {}
    /\ skill = [p \in ToSet(Providers) |-> {}]
    /\ job = NoJob /\ torn = {}

SkillsNext ==
    \/ \E sub \in {"install", "update"}, flag \in SUBSET ToSet(Providers) : runSkillsCommand(sub, flag)
    \/ NothingInstalled
    \/ \E answer \in {"yes", "no", "cancel"} : Answer(answer)
    \/ NextTarget \/ CopyFile \/ KillSkills
-----------------------------------------------------------------------------
(* Properties.                                                              *)

SkillsTypeOK ==
    /\ version \in DOMAIN SkillFiles
    /\ torn \subseteq harness /\ harness \subseteq ToSet(Providers)
    /\ job.pc \in {"none", "nothing", "ask", "next", "copy"}
    /\ (job.pc # "none") = (terminal = "skills")
    /\ \A p \in ToSet(Providers) : skill[p] # {} => p \in harness

(* A harness has no skill, or all files of one version of it and at most    *)
(* some older ones beside them, unless a copy to it was killed: cpSync      *)
(* writes over an older skill file by file (skills/install.ts:152), and     *)
(* update goes on to the next harness whatever the one before had.          *)
SkillsAreWhole ==
    \A p \in ToSet(Providers) \ torn :
        \/ skill[p] = {}
        \/ job.pc = "copy" /\ p = Head(job.targets)
        \/ \E v \in 1..version :
              /\ \A f \in SkillFiles[v] : <<f, v>> \in skill[p]
              /\ \A g \in skill[p] : g[2] <= v
=============================================================================
