---------------------------- MODULE ToolchainProofs ----------------------------
(* The toolchain's safety properties, for any schemas, tables and exports   *)
(* of the config module, any outcomes of the initializers, any harnesses,   *)
(* days and budgets.                                                        *)
EXTENDS Toolchain, GeneratorProofs

-----------------------------------------------------------------------------
(* The scaffolder.  Once the directory has been found empty, every file is  *)
(* of this run; a file of a framework is of the one chosen.                 *)

SetupPcs == {"none", "name", "mkdir", "tauri", "framework", "write", "server", "install"}
Whys == {"none", "cancelled", "not empty", "failed", "success", "killed"}
SetupOK ==
    setup \in [pc: SetupPcs, why: Whys, next: Int, framework: Frameworks \cup {"none"},
               date: Int, run: Nat]

FilesOK ==
    /\ setup.pc \notin {"none", "name"} => \A p \in DOMAIN project : project[p].run = setup.run
    /\ setup.pc \in {"mkdir", "tauri", "framework"} =>
          \A p \in DOMAIN project : project[p].framework = "any"
    /\ setup.pc \in {"write", "server", "install"} =>
          \A p \in DOMAIN project : project[p].framework \in {"any", setup.framework}

ProjectInv == day \in Int /\ SetupOK /\ FilesOK /\ OneRunPerProject

(* A step that adds files of this run, none of them of another framework,   *)
(* keeps what is known of the project.                                      *)
LEMMA AddFiles ==
    ASSUME ProjectInv, setup.pc \notin {"none", "name"}, setup'.run = setup.run,
           SetupOK', day' \in Int,
           setup'.pc \in {"mkdir", "tauri", "framework"} => setup.pc \in {"mkdir", "tauri", "framework"},
           setup.pc \in {"write", "server", "install"} /\ setup'.pc # "none" => setup'.framework = setup.framework,
           NEW paths, NEW how,
           how = "framework" => setup.pc \in {"write", "server", "install"},
           DOMAIN project' = paths \cup DOMAIN project,
           \A p \in DOMAIN project' : project'[p] = IF p \in paths THEN Made(how) ELSE project[p]
    PROVE  ProjectInv'
BY DEF ProjectInv, SetupOK, SetupPcs, FilesOK, OneRunPerProject, Made

(* A step that leaves the files alone.                                      *)
LEMMA KeepFiles ==
    ASSUME ProjectInv, SetupOK', day' \in Int, UNCHANGED project,
           setup'.pc \notin {"none", "name"} =>
               /\ setup.pc \notin {"none", "name"} \/ DOMAIN project = {}
               /\ setup'.run = setup.run,
           setup'.pc \in {"mkdir", "tauri", "framework"} =>
               setup.pc \in {"mkdir", "tauri", "framework"} \/ DOMAIN project = {},
           setup'.pc \in {"write", "server", "install"} =>
               \/ setup.pc \in {"mkdir", "tauri", "framework"}
               \/ setup.pc \in {"write", "server", "install"} /\ setup'.framework = setup.framework
    PROVE  ProjectInv'
BY DEF ProjectInv, SetupOK, SetupPcs, FilesOK, OneRunPerProject

(* The process ends, and starts.                                            *)
LEMMA LeavesSetup ==
    ASSUME SetupOK, day \in Int, NEW why \in Whys, Leaves(why)
    PROVE  SetupOK' /\ day' \in Int /\ setup'.pc = "none" /\ setup'.run = setup.run
<1> DEFINE s == [setup EXCEPT !.pc = "none"]
<1>1. s \in [pc: SetupPcs, why: Whys, next: Int, framework: Frameworks \cup {"none"}, date: Int, run: Nat]
      /\ s.pc = "none" /\ s.run = setup.run
    BY DEF SetupOK, SetupPcs
<1>2. setup' = [s EXCEPT !.why = why] /\ day' = day
    BY DEF Leaves, SetupFrame
<1> HIDE DEF s
<1> QED  BY <1>1, <1>2 DEF SetupOK

LEMMA StartSetup ==
    ASSUME SetupOK, day \in Int, scaffoldProject
    PROVE  SetupOK' /\ day' \in Int /\ setup'.pc = "name" /\ UNCHANGED project
<1> DEFINE s == [NotRun EXCEPT !.pc = "name"]
<1>0. NotRun \in [pc: SetupPcs, why: Whys, next: Int, framework: Frameworks \cup {"none"}, date: Int, run: Nat]
    BY DEF NotRun, SetupPcs, Whys
<1>1. s \in [pc: SetupPcs, why: Whys, next: Int, framework: Frameworks \cup {"none"}, date: Int, run: Nat]
      /\ s.pc = "name"
    BY <1>0 DEF SetupPcs
<1>2. setup' = [s EXCEPT !.run = setup.run + 1] /\ day' = day /\ UNCHANGED project
    BY DEF scaffoldProject, SetupFrame
<1>3. setup.run + 1 \in Nat
    BY DEF SetupOK
<1> HIDE DEF s
<1> QED  BY <1>1, <1>2, <1>3 DEF SetupOK

LEMMA ScaffoldProject ==
    ASSUME ProjectInv, ScaffoldNext PROVE ProjectInv'
<1> USE DEF SetupOK, SetupPcs, SetupFrame, Going
<1>s. SetupOK /\ day \in Int
    BY DEF ProjectInv
<1>1. CASE scaffoldProject
    BY <1>1, <1>s, StartSetup, KeepFiles
<1>2. CASE Cancel \/ WriteFails \/ KillScaffold
    <2>1. PICK why \in Whys : Leaves(why)
        BY <1>2 DEF Cancel, WriteFails, KillScaffold, Whys
    <2>2. UNCHANGED project
        BY <1>2 DEF Cancel, WriteFails, KillScaffold
    <2> QED  BY <2>1, <2>2, <1>s, LeavesSetup, KeepFiles
<1>3. CASE ensureEmptyTargetDir
    <2>1. CASE DOMAIN project = {} /\ Goto("mkdir") /\ Going
        <3>1. SetupOK' /\ day' \in Int /\ UNCHANGED project /\ setup'.pc = "mkdir" /\ setup'.run = setup.run
            BY <1>3, <2>1, <1>s DEF ensureEmptyTargetDir, Goto
        <3> QED  BY <3>1, <2>1, KeepFiles
    <2>2. CASE DOMAIN project # {} /\ Leaves("not empty")
        <3>1. UNCHANGED project
            BY <1>3 DEF ensureEmptyTargetDir
        <3> QED  BY <3>1, <2>2, <1>s, LeavesSetup, KeepFiles DEF Whys
    <2> QED  BY <1>3, <2>1, <2>2 DEF ensureEmptyTargetDir
<1>4. CASE MakeDirectories
    <2>1. /\ setup.pc = "mkdir" /\ setup' = [setup EXCEPT !.pc = "tauri"] /\ day' = day
          /\ project' = Put({"apps", "packages"}, Made("initializer"), project)
        BY <1>4 DEF MakeDirectories, Goto, Leave
    <2>2. SetupOK' /\ setup'.run = setup.run /\ setup'.pc = "tauri"
        BY <2>1, <1>s
    <2> QED  BY <2>1, <2>2, <1>s, AddFiles DEF Put
<1>5. CASE RunTauriInitializer
    <2>1. PICK paths \in AppLeavings : Leave(paths)
        BY <1>5 DEF RunTauriInitializer
    <2>2. /\ setup.pc = "tauri" /\ setup' = [setup EXCEPT !.pc = "framework"] /\ day' = day
          /\ project' = Put(paths, Made("initializer"), project)
        BY <1>5, <2>1 DEF RunTauriInitializer, Goto, Leave
    <2>3. SetupOK' /\ setup'.run = setup.run /\ setup'.pc = "framework"
        BY <2>2, <1>s
    <2> QED  BY <2>2, <2>3, <1>s, AddFiles DEF Put
<1>6. CASE buildRootScaffoldFiles
    <2>1. PICK f \in Frameworks : setup' = [setup EXCEPT !.pc = "write", !.framework = f, !.date = day]
        BY <1>6 DEF buildRootScaffoldFiles
    <2>2. setup.pc = "framework" /\ UNCHANGED project /\ day' = day
        BY <1>6 DEF buildRootScaffoldFiles
    <2>3. SetupOK' /\ setup'.run = setup.run /\ setup'.pc = "write"
        BY <2>1, <1>s
    <2> QED  BY <2>2, <2>3, <1>s, KeepFiles
<1>7. CASE RunServerInitializer
    <2>1. PICK paths \in ServerLeavings : Leave(paths)
        BY <1>7 DEF RunServerInitializer
    <2>2. /\ setup.pc = "server" /\ setup' = [setup EXCEPT !.pc = "write"] /\ day' = day
          /\ project' = Put(paths, Made("initializer"), project)
        BY <1>7, <2>1 DEF RunServerInitializer, Goto, Leave
    <2>3. SetupOK' /\ setup'.run = setup.run /\ setup'.pc = "write" /\ setup'.framework = setup.framework
        BY <2>2, <1>s
    <2> QED  BY <2>2, <2>3, <1>s, AddFiles DEF Put
<1>8. CASE WriteFile
    <2> DEFINE step == Writes[setup.next]
               pc == CASE setup.next = Len(writeTemplateSubset) -> "server"
                       [] setup.next = Len(Writes) -> "install"
                       [] OTHER -> "write"
    <2>1. /\ setup.pc = "write" /\ day' = day
          /\ setup' = [setup EXCEPT !.next = @ + 1, !.pc = pc]
          /\ project' = Put({step.path}, Made(HowWritten(step)), project)
        BY <1>8 DEF WriteFile
    <2>2. pc \in {"server", "install", "write"}
        OBVIOUS
    <2> DEFINE s == [setup EXCEPT !.next = @ + 1]
    <2>a. /\ s \in [pc: SetupPcs, why: Whys, next: Int, framework: Frameworks \cup {"none"}, date: Int, run: Nat]
          /\ s.run = setup.run /\ s.framework = setup.framework
        BY <1>s
    <2>b. setup' = [s EXCEPT !.pc = pc]
        BY <2>1
    <2> HIDE DEF pc, step, s
    <2>3. SetupOK' /\ setup'.run = setup.run /\ setup'.pc = pc /\ setup'.framework = setup.framework
        BY <2>a, <2>b, <2>2
    <2> QED  BY <2>1, <2>2, <2>3, <1>s, AddFiles DEF Put
<1>9. CASE Install
    <2>1. PICK why \in {"failed", "success"} :
             Leaves(why) /\ (UNCHANGED project \/ project' = Put({NodeModules}, Made("own"), project))
        BY <1>9 DEF Install
    <2>2. setup.pc = "install"
        BY <1>9 DEF Install
    <2>3. SetupOK' /\ day' \in Int /\ setup'.pc = "none" /\ setup'.run = setup.run
        BY <2>1, <1>s, LeavesSetup DEF Whys
    <2>4. CASE UNCHANGED project
        BY <2>2, <2>3, <2>4, KeepFiles
    <2>5. CASE project' = Put({NodeModules}, Made("own"), project)
        BY <2>2, <2>3, <2>5, AddFiles DEF Put
    <2> QED  BY <2>1, <2>4, <2>5
<1> QED  BY <1>1, <1>2, <1>3, <1>4, <1>5, <1>6, <1>7, <1>8, <1>9 DEF ScaffoldNext

LEMMA InitProject == Init => ProjectInv
<1> SUFFICES ASSUME Init PROVE ProjectInv
    OBVIOUS
<1>1. day = 0 /\ setup = NotRun
    BY DEF Init
<1>2. SetupOK /\ setup.pc = "none"
    BY <1>1 DEF SetupOK, SetupPcs, Whys, NotRun
<1>3. project = <<>> \/ project = Put({NodeModules}, UserFile, <<>>)
    BY DEF Init
<1>4. DOMAIN (<<>>) = {}
    OBVIOUS
<1>5. \A p \in DOMAIN project : project[p] = UserFile
    BY <1>3, <1>4 DEF Put
<1> QED  BY <1>1, <1>2, <1>5 DEF ProjectInv, FilesOK, OneRunPerProject, UserFile

(* The other commands and the developer write no file of a project.         *)
LEMMA NextProject == ProjectInv /\ [Next]_vars => ProjectInv'
<1> SUFFICES ASSUME ProjectInv, [Next]_vars PROVE ProjectInv'
    OBVIOUS
<1>1. CASE ScaffoldStep
    BY <1>1, ScaffoldProject DEF ScaffoldStep
<1>2. CASE StartOver
    <2>1. SetupOK' /\ day' \in Int
        BY <1>2 DEF StartOver, ProjectInv, SetupOK, Whys
    <2>2. \A p : p \notin DOMAIN project'
        BY <1>2 DEF StartOver
    <2> QED  BY <2>1, <2>2 DEF ProjectInv, FilesOK, OneRunPerProject
<1>3. CASE Midnight /\ UNCHANGED scaffold
    BY <1>3 DEF Midnight, scaffold, ProjectInv, SetupOK, FilesOK, OneRunPerProject
<1>4. CASE UNCHANGED <<day, scaffold>>
    BY <1>4 DEF scaffold, ProjectInv, SetupOK, FilesOK, OneRunPerProject
<1>5. CASE Edit
    BY <1>5, <1>4 DEF Edit, EditFile
<1>6. ASSUME GeneratorNext, UNCHANGED scaffold PROVE UNCHANGED <<day, scaffold>>
    BY <1>6 DEF GeneratorNext, GeneratorSteps, Invoke, LoadThrows, Judge, Refuse, Accept,
        writeSyncContractJson, writeTableOrderConstants, writeManifest, CopySnapshot, Write,
        Format, KillGenerator, GeneratorFrame
<1>7. ASSUME SkillsNext, UNCHANGED scaffold PROVE UNCHANGED <<day, scaffold>>
    BY <1>7 DEF SkillsNext, runSkillsCommand, NothingInstalled, Answer, NextTarget, CopyFile, KillSkills, SkillsFrame
<1>8. CASE Upgrade /\ UNCHANGED scaffold
    BY <1>8, <1>4 DEF Upgrade, workbench
<1>9. CASE UNCHANGED vars
    BY <1>9, <1>4 DEF vars, workbench
<1> QED  BY <1>1, <1>2, <1>3, <1>4, <1>5, <1>6, <1>7, <1>8, <1>9 DEF Next

(* A project is of one making, whatever was cancelled, failed or killed     *)
(* before (scaffold.ts:382, write.ts:24).                                   *)
THEOREM ProjectOfOneRun == Spec => []OneRunPerProject
<1>1. ProjectInv => OneRunPerProject
    BY DEF ProjectInv
<1> QED  BY <1>1, InitProject, NextProject, PTL DEF Spec

-----------------------------------------------------------------------------
(* The generator.  The date of the entry at hand was taken after the        *)
(* command began and not after today.                                       *)

WritePcs == {"contract", "order", "manifest", "api", "local", "format"}
RunFields == DOMAIN NoRun

DatesInv ==
    /\ day \in Int
    /\ DOMAIN generated = Dirs /\ \A d \in Dirs : DOMAIN generated[d] = 0..MaxDay
    /\ DOMAIN run = RunFields
    /\ run.pc # "none" => run.began \in Int /\ run.began <= day
    /\ run.pc \in WritePcs => run.today \in Int /\ run.began <= run.today /\ run.today <= day

DatedWrite ==
    \A d \in Dirs, n \in 0..MaxDay :
        generated'[d][n] \notin {generated[d][n], EmptyDir} =>
            run.pc # "none" /\ run.began <= n /\ n <= day

LEMMA FieldsOfRun ==
    RunFields = {"pc", "command", "strict", "output", "entries", "schema", "loaded", "today", "began",
                 "from", "edited", "found"}
BY DEF RunFields, NoRun

(* Every write goes to the directory of that date and to no other.          *)
LEMMA WriteDates ==
    ASSUME DatesInv, run.pc \in WritePcs,
           NEW files, NEW content, NEW next \in WritePcs, Write(files, content, next)
    PROVE  DatesInv' /\ DatedWrite
<1> DEFINE new == Put({"whole"}, Wholeness(next),
                      Put(files, content, generated[Entry.dir][run.today]))
           dir == Entry.dir
<1>1. /\ generated' = [generated EXCEPT ![dir][run.today] = new]
      /\ run' = [run EXCEPT !.pc = next] /\ day' = day
    BY DEF Write, GeneratorFrame
<1> HIDE DEF new, dir
<1>2. /\ DOMAIN generated' = Dirs
      /\ \A d \in Dirs : generated'[d] = IF d = dir THEN [generated[d] EXCEPT ![run.today] = new] ELSE generated[d]
    BY <1>1 DEF DatesInv
<1>3. \A d \in Dirs : DOMAIN generated'[d] = 0..MaxDay
    BY <1>2 DEF DatesInv
<1>4. \A d \in Dirs, n \in 0..MaxDay : n # run.today => generated'[d][n] = generated[d][n]
    BY <1>2 DEF DatesInv
<1>5. DatedWrite
    BY <1>4 DEF DatedWrite, DatesInv, WritePcs
<1>6. DOMAIN run' = RunFields /\ run'.began = run.began /\ run'.today = run.today
    BY <1>1, FieldsOfRun DEF DatesInv
<1> QED  BY <1>1, <1>2, <1>3, <1>5, <1>6 DEF DatesInv, WritePcs

LEMMA InvokeDates ==
    ASSUME DatesInv, NEW command, NEW strict, NEW output, Invoke(command, strict, output)
    PROVE  DatesInv' /\ UNCHANGED generated
<1> DEFINE pc == IF ConfigThrows \/ resolveLoadedConfigEntries(output) = <<>> THEN "failed" ELSE "load"
           local == IF CachedByConfig THEN disk.local ELSE NoFile
           r == [NoRun EXCEPT !.pc = pc, !.command = command, !.strict = strict, !.output = output]
           q == [r EXCEPT !.entries = resolveLoadedConfigEntries(output), !.began = day, !.from = disk]
<1>1. run' = [q EXCEPT !.schema.local = local]
    BY DEF Invoke
<1>2. UNCHANGED <<day, generated>>
    BY DEF Invoke
<1>3. pc \in {"failed", "load"}
    OBVIOUS
<1> HIDE DEF pc, local
<1>4. DOMAIN r = RunFields /\ r.pc = pc
    BY FieldsOfRun DEF RunFields
<1> HIDE DEF r
<1>5. DOMAIN q = RunFields /\ q.pc = pc /\ q.began = day
    BY <1>4, FieldsOfRun
<1> HIDE DEF q
<1>6. DOMAIN run' = RunFields /\ run'.pc = pc /\ run'.began = day
    BY <1>1, <1>5, FieldsOfRun
<1> QED  BY <1>2, <1>3, <1>6 DEF DatesInv, WritePcs

(* The steps that only move the process.                                    *)
LEMMA OtherDates ==
    ASSUME DatesInv, UNCHANGED generated, day' \in Int, day <= day', DOMAIN run' = RunFields,
           run'.pc # "none" => run'.began = run.began /\ run.pc # "none",
           run'.pc \in WritePcs =>
               (run.pc \in WritePcs /\ run'.today = run.today) \/ run'.today = day
    PROVE  DatesInv' /\ DatedWrite
BY DEF DatesInv, DatedWrite, WritePcs

LEMMA FinishDates ==
    ASSUME DatesInv, NEW why, Finish(why), UNCHANGED <<day, generated>>
    PROVE  DatesInv' /\ DatedWrite
<1>1. DOMAIN run' = RunFields /\ run'.pc = "none"
    BY DEF Finish, RunFields, NoRun
<1> QED  BY <1>1, OtherDates DEF DatesInv, WritePcs

LEMMA GeneratorDates ==
    ASSUME DatesInv, GeneratorNext PROVE DatesInv' /\ DatedWrite
<1>1. ASSUME NEW command, NEW strict, NEW output, Invoke(command, strict, output)
      PROVE  DatesInv' /\ DatedWrite
    BY <1>1, InvokeDates DEF DatedWrite
<1>2. CASE LoadThrows
    BY <1>2, FinishDates DEF LoadThrows
<1>3. CASE Judge
    <2>1. CASE \E why : Finish(why) /\ UNCHANGED <<day, generated>>
        BY <2>1, FinishDates
    <2>2. ASSUME NEW found, NEW schema, NEW loaded,
                 run' = [run EXCEPT !.entries = Tail(@), !.found = found, !.schema = schema, !.loaded = loaded],
                 UNCHANGED <<day, generated>>
          PROVE  DatesInv' /\ DatedWrite
        <3> DEFINE r == [run EXCEPT !.entries = Tail(@), !.found = found]
        <3>1. DOMAIN r = RunFields /\ r.pc = run.pc /\ r.began = run.began /\ r.today = run.today
            BY FieldsOfRun DEF DatesInv
        <3>2. run' = [r EXCEPT !.schema = schema, !.loaded = loaded]
            BY <2>2
        <3> HIDE DEF r
        <3>3. DOMAIN run' = RunFields /\ run'.pc = run.pc /\ run'.began = run.began /\ run'.today = run.today
            BY <3>1, <3>2, FieldsOfRun
        <3> QED  BY <2>2, <3>3, OtherDates DEF DatesInv
    <2>3. UNCHANGED <<day, generated>>
        BY <1>3 DEF Judge
    <2> QED  BY <1>3, <2>1, <2>2, <2>3 DEF Judge
<1>4. CASE Refuse
    BY <1>4, FinishDates DEF Refuse
<1>5. CASE Accept
    <2> DEFINE r == [run EXCEPT !.pc = "contract", !.schema = Schema]
               loaded == run.loaded \/ Entry.kind = "paired"
    <2>1. /\ run' = [r EXCEPT !.today = day, !.loaded = loaded]
          /\ UNCHANGED <<day, generated>> /\ run.pc = "load"
        BY <1>5 DEF Accept, GeneratorFrame, Loading
    <2>2. DOMAIN r = RunFields /\ r.pc = "contract" /\ r.began = run.began
        BY FieldsOfRun DEF DatesInv
    <2> HIDE DEF r, loaded
    <2>3. DOMAIN run' = RunFields /\ run'.pc = "contract" /\ run'.began = run.began /\ run'.today = day
        BY <2>1, <2>2, FieldsOfRun
    <2> QED  BY <2>1, <2>3, OtherDates DEF DatesInv
<1>6. CASE writeSyncContractJson
    <2> DEFINE content == [version |-> run.today, tables |-> run.schema.local,
                    paired |-> Entry.kind = "paired", orders |-> Orders]
    <2>1. run.pc = "contract" /\ Write({"contract"}, content, "order")
        BY <1>6 DEF writeSyncContractJson
    <2> HIDE DEF content
    <2> QED  BY <2>1, WriteDates DEF WritePcs
<1>9. CASE writeTableOrderConstants
    BY <1>9, WriteDates DEF writeTableOrderConstants, WritePcs
<1>10. CASE writeManifest
    <2> DEFINE content == [contractVersion |-> run.today, tables |-> run.schema.local, orders |-> Orders]
               next == IF Entry.kind = "paired" THEN "api" ELSE "format"
    <2>1. run.pc = "manifest" /\ Write({"manifest"}, content, next)
        BY <1>10 DEF writeManifest
    <2>2. next \in WritePcs
        BY DEF WritePcs
    <2> HIDE DEF content, next
    <2> QED  BY <2>1, <2>2, WriteDates DEF WritePcs
<1>11. ASSUME NEW file \in {"api", "local"}, NEW next \in {"local", "format"}, CopySnapshot(file, next)
       PROVE  DatesInv' /\ DatedWrite
    <2> DEFINE files == IF disk[file] = NoFile THEN {} ELSE {file}
    <2>1. run.pc = file /\ Write(files, disk[file], next)
        BY <1>11 DEF CopySnapshot
    <2> HIDE DEF files
    <2> QED  BY <2>1, WriteDates DEF WritePcs
<1>7. CASE Format
    <2>1. CASE \E why : Finish(why) /\ UNCHANGED <<day, generated>>
        BY <2>1, FinishDates
    <2>2. CASE run' = [run EXCEPT !.pc = "load", !.entries = Tail(@)]
        <3>1. DOMAIN run' = RunFields /\ run'.pc = "load" /\ run'.began = run.began
            BY <2>2, FieldsOfRun DEF DatesInv
        <3>2. run.pc # "none" /\ UNCHANGED <<day, generated>>
            BY <1>7 DEF Format
        <3> QED  BY <3>1, <3>2, OtherDates DEF DatesInv, WritePcs
    <2>3. UNCHANGED <<day, generated>>
        BY <1>7 DEF Format
    <2> QED  BY <1>7, <2>1, <2>2, <2>3 DEF Format
<1>8. CASE KillGenerator
    BY <1>8, FinishDates DEF KillGenerator
<1> QED  BY <1>1, <1>2, <1>3, <1>4, <1>5, <1>6, <1>7, <1>8, <1>9, <1>10, <1>11 DEF GeneratorNext, GeneratorSteps

LEMMA InitDates == Init => DatesInv
<1> SUFFICES ASSUME Init PROVE DatesInv
    OBVIOUS
<1>1. day = 0 /\ run = NoRun /\ generated = [d \in Dirs |-> [n \in 0..MaxDay |-> EmptyDir]]
    BY DEF Init, GeneratorInit
<1> QED  BY <1>1 DEF DatesInv, RunFields, NoRun, WritePcs

LEMMA NextDates == DatesInv /\ [Next]_vars => DatesInv' /\ DatedWrite
<1> SUFFICES ASSUME DatesInv, [Next]_vars PROVE DatesInv' /\ DatedWrite
    OBVIOUS
<1>1. CASE GeneratorNext
    BY <1>1, GeneratorDates
<1>2. CASE Midnight /\ UNCHANGED generator
    <2>1. day' = day + 1 /\ UNCHANGED <<run, generated>>
        BY <1>2 DEF Midnight, generator
    <2> QED  BY <2>1, OtherDates DEF DatesInv
<1>3. CASE UNCHANGED <<day, run, generated>>
    BY <1>3, OtherDates DEF DatesInv
<1>4. CASE ScaffoldStep
    <2>1. UNCHANGED day
        BY <1>4 DEF ScaffoldStep, ScaffoldNext, scaffoldProject, Cancel, Leaves, ensureEmptyTargetDir,
            MakeDirectories, RunTauriInitializer, buildRootScaffoldFiles, RunServerInitializer, WriteFile,
            WriteFails, Install, KillScaffold, Going, SetupFrame
    <2> QED  BY <1>3, <1>4, <2>1 DEF ScaffoldStep
<1>5. CASE Edit
    <2> DEFINE edited == run.edited \/ run.pc # "none"
    <2>1. UNCHANGED <<day, generated>>
        BY <1>5 DEF Edit, EditFile
    <2>0. run' = [run EXCEPT !.edited = edited]
        BY <1>5 DEF Edit, GeneratorEdited
    <2> HIDE DEF edited
    <2>2. DOMAIN run' = RunFields /\ run'.pc = run.pc /\ run'.began = run.began /\ run'.today = run.today
        BY <2>0, FieldsOfRun DEF DatesInv
    <2> QED  BY <2>1, <2>2, OtherDates DEF DatesInv
<1>6. CASE StartOver
    <2>1. generated' = [d \in Dirs |-> [n \in 0..MaxDay |-> EmptyDir]] /\ UNCHANGED <<day, run>>
        BY <1>6 DEF StartOver
    <2> QED  BY <2>1 DEF DatesInv, DatedWrite
<1>7. CASE SkillsNext /\ UNCHANGED generator
    <2>1. UNCHANGED day
        BY <1>7 DEF SkillsNext, runSkillsCommand, NothingInstalled, Answer, NextTarget, CopyFile, KillSkills, SkillsFrame
    <2> QED  BY <1>3, <1>7, <2>1 DEF generator
<1>8. CASE Upgrade /\ UNCHANGED generator
    BY <1>3, <1>8 DEF Upgrade, workbench, generator
<1>9. CASE UNCHANGED vars
    BY <1>3, <1>9 DEF vars, workbench, generator
<1> QED  BY <1>1, <1>2, <1>4, <1>5, <1>6, <1>7, <1>8, <1>9 DEF Next

(* A dated directory is written by no command that began after its day, nor *)
(* before its day has come (generator/index.ts:197).                        *)
THEOREM DatedDirectoriesFreeze == Spec => FrozenForLaterRuns
<1>1. DatesInv /\ [Next]_vars => [DatedWrite]_<<workbench, generator>>
    BY NextDates
<1> QED  BY <1>1, InitDates, NextDates, PTL DEF Spec, FrozenForLaterRuns, DatedWrite

-----------------------------------------------------------------------------
(* The generator: its types, the entries of a command, and what each step   *)
(* makes of the process.                                                    *)

SchemaFiles == [{"local", "api"} -> Schemas \cup {NoFile}]
AllFound == UNION { Outcome(kind, schema) : kind \in Kinds, schema \in SchemaFiles }

RunPcs == {"none", "failed", "load"} \cup WritePcs
RunType ==
    [pc: RunPcs, command: {"none", "generate", "check", "doctor"}, strict: BOOLEAN, output: Dirs \cup {NoDir},
     entries: Seq(Entries), schema: SchemaFiles, loaded: BOOLEAN, today: 0..MaxDay, began: 0..MaxDay,
     from: SchemaFiles, edited: BOOLEAN, found: SUBSET AllFound]

(* A pair of contents is a state of the two schema files.                   *)
LEMMA FilePair ==
    ASSUME NEW l \in Schemas \cup {NoFile}, NEW a \in Schemas \cup {NoFile}
    PROVE  [local |-> l, api |-> a] \in SchemaFiles
BY DEF SchemaFiles

(* Where building and diagnosing does not throw, the schema files needed    *)
(* are there and the local one has a table order.                           *)
LEMMA OutcomeOf ==
    ASSUME NEW kind \in Kinds, NEW schema \in SchemaFiles, "throws" \notin Outcome(kind, schema)
    PROVE  /\ schema.local \in DOMAIN TableOrder /\ schema.local \in Schemas
           /\ kind = "paired" => schema.api \in Schemas
<1>1. schema.local \in Schemas \cup {NoFile} /\ schema.api \in Schemas \cup {NoFile}
    BY DEF SchemaFiles
<1>2. schema.local \in Schemas /\ (kind = "paired" => schema.api \in Schemas)
    BY <1>1 DEF Outcome
<1>3. DOMAIN TableOrder = { s \in Schemas : ~ ContractThrows(SyncTables, LocalModule[s]) }
    BY DEF TableOrder
<1>4. CASE kind = "paired"
    <2>1. Outcome(kind, schema) = PairedOutcome[schema.local][schema.api]
        BY <1>2, <1>4, WorkbenchAssumption DEF Outcome
    <2>2. PairedContractThrows(SyncTables, LocalModule[schema.local], ApiModule[schema.api])
            => "throws" \in PairedOutcome[schema.local][schema.api]
        BY <1>2, <1>4 DEF PairedOutcome
    <2> QED  BY <1>2, <1>3, <1>4, <2>1, <2>2 DEF PairedContractThrows
<1>5. CASE kind # "paired"
    <2>1. Outcome(kind, schema) = BareOutcome[schema.local]
        BY <1>2, <1>5, WorkbenchAssumption DEF Outcome
    <2>2. ContractThrows(SyncTables, LocalModule[schema.local]) => "throws" \in BareOutcome[schema.local]
        BY <1>2 DEF BareOutcome
    <2> QED  BY <1>2, <1>3, <1>5, <2>1, <2>2
<1> QED  BY <1>4, <1>5

(* The entries a command goes through.                                      *)
LEMMA EntriesOf ==
    ASSUME exports \in ConfigModules, NEW output \in Dirs \cup {NoDir}
    PROVE  LET entries == resolveLoadedConfigEntries(output)
           IN  /\ entries \in Seq(Entries)
               /\ \A e \in ToSet(entries) :
                     e.kind # "none" /\ (e.kind # "paired" => CachedByConfig)
<1> DEFINE taken == Keep(<<1, 2, 3>>, Taken(output))
           entries == resolveLoadedConfigEntries(output)
<1>1. <<1, 2, 3>> \in Seq(Nat) /\ ToSet(<<1, 2, 3>>) = {1, 2, 3}
    BY DEF ToSet
<1>2. taken \in Seq(Nat) /\ ToSet(taken) = {1, 2, 3} \cap Taken(output)
    <2> DEFINE three == <<1, 2, 3>>
    <2> HIDE DEF three
    <2>1. Keep(three, Taken(output)) \in Seq(Nat) /\ ToSet(Keep(three, Taken(output))) = ToSet(three) \cap Taken(output)
        BY <1>1, KeepElements DEF three
    <2> QED  BY <1>1, <2>1 DEF three
<1>3. DOMAIN entries = DOMAIN taken /\ \A n \in DOMAIN taken : entries[n] = EntryOf(Exported[taken[n]], output)
    BY DEF resolveLoadedConfigEntries
<1>4. \A i \in {1, 2, 3} : Exported[i] \in {exports.syncGeneratorConfig, exports.default, exports.contract}
    BY DEF Exported
<1>5. \A e \in {exports.syncGeneratorConfig, exports.default, exports.contract} : e.kind \in Kinds /\ e.dir \in Dirs
    BY DEF ConfigModules, Export
<1>6. \A n \in DOMAIN taken : taken[n] \in {1, 2, 3} /\ taken[n] \in Taken(output)
    BY <1>2 DEF ToSet
<1> HIDE DEF taken, entries
<1>7. \A n \in DOMAIN taken :
         /\ entries[n] \in Entries /\ entries[n].kind # "none"
         /\ entries[n].kind # "paired" => CachedByConfig
    <2> SUFFICES ASSUME NEW n \in DOMAIN taken
                 PROVE  /\ entries[n] \in Entries /\ entries[n].kind # "none"
                        /\ entries[n].kind # "paired" => CachedByConfig
        OBVIOUS
    <2> DEFINE x == Exported[taken[n]]
    <2>1. x \in {exports.syncGeneratorConfig, exports.default, exports.contract} /\ x.kind # "none"
        BY <1>4, <1>6 DEF Taken
    <2>2. entries[n] = EntryOf(x, output) /\ x.kind \in Kinds /\ x.dir \in Dirs
        BY <1>3, <1>5, <2>1
    <2> HIDE DEF x
    <2>3. entries[n] \in Entries /\ entries[n].kind = x.kind
        BY <2>2, GeneratorAssumption DEF EntryOf, Entries
    <2> QED  BY <2>1, <2>2, <2>3 DEF CachedByConfig, Kinds
<1>8. entries \in Seq(Entries)
    <2>1. DOMAIN taken = 1..Len(taken) /\ Len(taken) \in Nat
        BY <1>2
    <2>2. entries = [n \in 1..Len(taken) |-> EntryOf(Exported[taken[n]], output)]
        BY <2>1 DEF resolveLoadedConfigEntries, entries, taken
    <2>3. \A n \in 1..Len(taken) : EntryOf(Exported[taken[n]], output) \in Entries
        BY <1>3, <1>7, <2>1
    <2>4. entries \in [1..Len(taken) -> Entries]
        BY <2>2, <2>3
    <2> QED  BY <2>1, <2>4
<1> QED  BY <1>3, <1>7, <1>8 DEF entries, ToSet

GenInv ==
    /\ exports \in ConfigModules
    /\ run \in RunType
    /\ run.pc # "none" => run.command # "none"
    /\ run.pc \in {"load"} \cup WritePcs => run.entries # <<>>
    /\ run.pc \in WritePcs => run.command = "generate" /\ run.schema.local \in DOMAIN TableOrder

(* The process that is not there is of the type.                            *)
LEMMA NoRunType == NoRun \in RunType /\ NotLoaded \in SchemaFiles
<1>1. NotLoaded \in SchemaFiles
    BY DEF NotLoaded, SchemaFiles
<1>2. <<>> \in Seq(Entries)
    OBVIOUS
<1> QED  BY <1>1, <1>2, WorkbenchAssumption DEF NoRun, RunType, RunPcs

(* What each step makes of the process.                                     *)
LEMMA FinishRun ==
    ASSUME NEW why, Finish(why)
    PROVE  run' \in RunType /\ run'.pc = "none" /\ run'.edited = FALSE
BY NoRunType DEF Finish, NoRun

(* The process a command starts with.                                       *)
LEMMA InvokeRun ==
    ASSUME GenInv, day \in 0..MaxDay, disk \in SchemaFiles,
           NEW command \in {"generate", "check", "doctor"}, NEW strict \in BOOLEAN, NEW output \in Outputs,
           Invoke(command, strict, output)
    PROVE  /\ run' \in RunType
           /\ run'.pc = IF ConfigThrows \/ resolveLoadedConfigEntries(output) = <<>> THEN "failed" ELSE "load"
           /\ run'.command = command /\ run'.strict = strict /\ run'.output = output
           /\ run'.entries = resolveLoadedConfigEntries(output) /\ run'.began = day /\ run'.from = disk
           /\ run'.schema = [local |-> IF CachedByConfig THEN disk.local ELSE NoFile, api |-> NoFile]
           /\ run'.loaded = FALSE /\ run'.edited = FALSE /\ run'.found = {}
<1> DEFINE pc == IF ConfigThrows \/ resolveLoadedConfigEntries(output) = <<>> THEN "failed" ELSE "load"
           local == IF CachedByConfig THEN disk.local ELSE NoFile
           entries == resolveLoadedConfigEntries(output)
           r == [NoRun EXCEPT !.pc = pc, !.command = command, !.strict = strict, !.output = output]
           q == [r EXCEPT !.entries = entries, !.began = day, !.from = disk]
<1>1. run' = [q EXCEPT !.schema.local = local]
    BY DEF Invoke
<1>2. pc \in RunPcs /\ local \in Schemas \cup {NoFile} /\ output \in Dirs \cup {NoDir}
    BY GeneratorAssumption DEF RunPcs, SchemaFiles
<1>3. entries \in Seq(Entries)
    BY <1>2, EntriesOf DEF GenInv
<1> HIDE DEF pc, local, entries
<1>4. /\ r \in RunType /\ r.pc = pc /\ r.command = command /\ r.strict = strict /\ r.output = output
      /\ r.schema = NotLoaded /\ r.loaded = FALSE /\ r.edited = FALSE /\ r.found = {}
    <2>1. NoRun \in RunType /\ NoRun.schema = NotLoaded /\ NoRun.loaded = FALSE /\ NoRun.edited = FALSE /\ NoRun.found = {}
        BY NoRunType DEF NoRun
    <2> QED  BY <1>2, <2>1 DEF RunType
<1> HIDE DEF r
<1>5. /\ q \in RunType /\ q.pc = pc /\ q.command = command /\ q.strict = strict /\ q.output = output
      /\ q.schema = NotLoaded /\ q.loaded = FALSE /\ q.edited = FALSE /\ q.found = {}
      /\ q.entries = entries /\ q.began = day /\ q.from = disk
    BY <1>3, <1>4 DEF RunType
<1> HIDE DEF q
<1>6. [NotLoaded EXCEPT !.local = local] = [local |-> local, api |-> NoFile]
    BY DEF NotLoaded
<1>7. run' = [q EXCEPT !.schema = [local |-> local, api |-> NoFile]]
    BY <1>1, <1>5, <1>6 DEF RunType
<1>8. [local |-> local, api |-> NoFile] \in SchemaFiles
    BY <1>2, FilePair
<1>9. /\ run' \in RunType /\ run'.pc = pc /\ run'.command = command /\ run'.strict = strict /\ run'.output = output
      /\ run'.schema = [local |-> local, api |-> NoFile] /\ run'.loaded = FALSE /\ run'.edited = FALSE /\ run'.found = {}
      /\ run'.entries = entries /\ run'.began = day /\ run'.from = disk
    BY <1>5, <1>7, <1>8 DEF RunType
<1> QED  BY <1>9 DEF pc, local, entries

(* What an entry sees of the schemas is a state of the two files.           *)
LEMMA ImportedType ==
    ASSUME GenInv, disk \in SchemaFiles, NEW entry
    PROVE  Imported(entry) \in SchemaFiles
<1>1. run.schema \in SchemaFiles
    BY DEF GenInv, RunType
<1>2. /\ run.schema.local \in Schemas \cup {NoFile}
      /\ disk.local \in Schemas \cup {NoFile} /\ disk.api \in Schemas \cup {NoFile}
    BY <1>1 DEF SchemaFiles
<1>3. [local |-> IF run.schema.local # NoFile THEN run.schema.local ELSE disk.local, api |-> disk.api] \in SchemaFiles
    BY <1>2, FilePair
<1> QED  BY <1>1, <1>3 DEF Imported

(* While a command goes through its entries there is a first one, and the   *)
(* others are the rest.                                                     *)
LEMMA EntryIs ==
    ASSUME GenInv, run.pc \in {"load"} \cup WritePcs
    PROVE  /\ Entry \in Entries /\ Entry \in ToSet(run.entries) /\ Tail(run.entries) \in Seq(Entries)
           /\ ToSet(run.entries) = {Entry} \cup ToSet(Tail(run.entries))
           /\ Len(run.entries) = 1 => ToSet(run.entries) = {Entry}
           /\ Len(run.entries) # 1 => Tail(run.entries) # <<>>
<1>1. run.entries \in Seq(Entries) /\ run.entries # <<>>
    BY DEF GenInv, RunType
<1>2. /\ Head(run.entries) \in Entries /\ Tail(run.entries) \in Seq(Entries)
      /\ ToSet(run.entries) = {Head(run.entries)} \cup ToSet(Tail(run.entries))
      /\ Len(run.entries) \in Nat \ {0} /\ Len(Tail(run.entries)) = Len(run.entries) - 1
    BY <1>1, HeadTailElements
<1> DEFINE t == Tail(run.entries)
<1>5. t \in Seq(Entries) /\ Len(t) = Len(run.entries) - 1 /\ Len(run.entries) \in Nat \ {0}
    BY <1>2
<1> HIDE DEF t
<1>6. DOMAIN t = 1..Len(t)
    BY <1>5
<1>3. Len(run.entries) = 1 => ToSet(t) = {}
    BY <1>5, <1>6 DEF ToSet
<1>7. t = <<>> => Len(t) = 0
    OBVIOUS
<1>4. Len(run.entries) # 1 => t # <<>>
    BY <1>5, <1>7
<1> QED  BY <1>2, <1>3, <1>4 DEF Entry, t

(* What is found of an entry is the outcome of some kind of entry and some  *)
(* state of the files.                                                      *)
LEMMA FoundType ==
    ASSUME GenInv, disk \in SchemaFiles, run.pc \in {"load"} \cup WritePcs
    PROVE  Schema \in SchemaFiles /\ Found \subseteq AllFound /\ Entry.kind \in Kinds
<1>1. Schema \in SchemaFiles /\ Entry.kind \in Kinds
    BY ImportedType, EntryIs DEF Schema, Entries
<1> QED  BY <1>1 DEF Found, AllFound

(* The process goes on to the next entry.                                   *)
LEMMA NextEntryRun ==
    ASSUME GenInv, disk \in SchemaFiles, run.pc = "load", Len(run.entries) # 1,
           NEW loaded \in BOOLEAN,
           run' = [run EXCEPT !.entries = Tail(@), !.found = run.found \cup Found, !.schema = Schema, !.loaded = loaded]
    PROVE  /\ run' \in RunType /\ run'.pc = "load" /\ run'.command = run.command /\ run'.strict = run.strict
           /\ run'.output = run.output /\ run'.entries = Tail(run.entries) /\ run'.schema = Schema
           /\ run'.loaded = loaded /\ run'.began = run.began /\ run'.from = run.from
           /\ run'.edited = run.edited /\ run'.found = run.found \cup Found
<1> DEFINE r == [run EXCEPT !.entries = Tail(@), !.found = run.found \cup Found]
<1>0. run \in RunType
    BY DEF GenInv
<1>1. /\ Tail(run.entries) \in Seq(Entries) /\ Schema \in SchemaFiles
      /\ run.found \cup Found \in SUBSET AllFound
    BY <1>0, EntryIs, FoundType DEF RunType
<1>2. /\ r \in RunType /\ r.pc = "load" /\ r.command = run.command /\ r.strict = run.strict
      /\ r.output = run.output /\ r.entries = Tail(run.entries)
      /\ r.began = run.began /\ r.from = run.from /\ r.edited = run.edited /\ r.found = run.found \cup Found
    BY <1>0, <1>1 DEF RunType
<1>3. run' = [r EXCEPT !.schema = Schema, !.loaded = loaded]
    OBVIOUS
<1> HIDE DEF r
<1>4. run' \in RunType /\ run'.schema = Schema /\ run'.loaded = loaded
    BY <1>1, <1>2, <1>3 DEF RunType
<1>5. /\ run'.pc = r.pc /\ run'.command = r.command /\ run'.strict = r.strict /\ run'.output = r.output
      /\ run'.entries = r.entries /\ run'.began = r.began /\ run'.from = r.from
      /\ run'.edited = r.edited /\ run'.found = r.found
    BY <1>2, <1>3 DEF RunType
<1> QED  BY <1>2, <1>4, <1>5

(* The process with an entry accepted.                                      *)
LEMMA AcceptRun ==
    ASSUME GenInv, disk \in SchemaFiles, day \in 0..MaxDay, Accept
    PROVE  /\ run' \in RunType /\ run'.pc = "contract" /\ run'.command = run.command /\ run'.strict = run.strict
           /\ run'.output = run.output /\ run'.entries = run.entries /\ run'.schema = Schema
           /\ run'.loaded = (run.loaded \/ Entry.kind = "paired") /\ run'.began = run.began /\ run'.from = run.from
           /\ run'.edited = run.edited /\ run'.found = run.found /\ run'.today = day
           /\ run.pc = "load" /\ run.command = "generate" /\ "throws" \notin Found /\ ~ Blocks(Entry, Found)
<1> DEFINE r == [run EXCEPT !.pc = "contract", !.schema = Schema]
           loaded == run.loaded \/ Entry.kind = "paired"
<1>0. run \in RunType /\ run.pc = "load" /\ run.command = "generate" /\ "throws" \notin Found /\ ~ Blocks(Entry, Found)
    BY DEF GenInv, Accept, Loading
<1>1. Schema \in SchemaFiles
    BY <1>0, FoundType
<1>2. /\ r \in RunType /\ r.pc = "contract" /\ r.command = run.command /\ r.strict = run.strict
      /\ r.output = run.output /\ r.entries = run.entries /\ r.schema = Schema
      /\ r.began = run.began /\ r.from = run.from /\ r.edited = run.edited /\ r.found = run.found
    BY <1>0, <1>1 DEF RunType, RunPcs, WritePcs
<1>3. run' = [r EXCEPT !.today = day, !.loaded = loaded]
    BY DEF Accept
<1>4. loaded \in BOOLEAN
    BY <1>0 DEF RunType
<1> HIDE DEF r, loaded
<1>5. /\ run' \in RunType /\ run'.pc = "contract" /\ run'.command = run.command /\ run'.strict = run.strict
      /\ run'.output = run.output /\ run'.entries = run.entries /\ run'.schema = Schema
      /\ run'.loaded = loaded /\ run'.began = run.began /\ run'.from = run.from
      /\ run'.edited = run.edited /\ run'.found = run.found /\ run'.today = day
    BY <1>2, <1>3, <1>4 DEF RunType
<1> QED  BY <1>0, <1>5 DEF loaded

(* The process with another step to come.                                   *)
LEMMA PcRun ==
    ASSUME run \in RunType, NEW pc \in RunPcs, run' = [run EXCEPT !.pc = pc]
    PROVE  /\ run' \in RunType /\ run'.pc = pc /\ run'.command = run.command /\ run'.strict = run.strict
           /\ run'.output = run.output /\ run'.entries = run.entries /\ run'.schema = run.schema
           /\ run'.loaded = run.loaded /\ run'.began = run.began /\ run'.from = run.from
           /\ run'.edited = run.edited /\ run'.found = run.found /\ run'.today = run.today
BY DEF RunType

(* The process that has an entry's files formatted and another entry to     *)
(* come.                                                                    *)
LEMMA FormatRun ==
    ASSUME GenInv, run.pc = "format", Len(run.entries) # 1, run' = [run EXCEPT !.pc = "load", !.entries = Tail(@)]
    PROVE  /\ run' \in RunType /\ run'.pc = "load" /\ run'.command = run.command /\ run'.strict = run.strict
           /\ run'.output = run.output /\ run'.entries = Tail(run.entries) /\ run'.schema = run.schema
           /\ run'.loaded = run.loaded /\ run'.began = run.began /\ run'.from = run.from
           /\ run'.edited = run.edited /\ run'.found = run.found
<1>1. Tail(run.entries) \in Seq(Entries) /\ run \in RunType
    BY EntryIs DEF WritePcs, GenInv
<1> QED  BY <1>1 DEF RunType, RunPcs

(* The process after an edit.                                               *)
LEMMA EditedRun ==
    ASSUME run \in RunType, GeneratorEdited
    PROVE  /\ run' \in RunType /\ run'.pc = run.pc /\ run'.command = run.command /\ run'.strict = run.strict
           /\ run'.output = run.output /\ run'.entries = run.entries /\ run'.schema = run.schema
           /\ run'.loaded = run.loaded /\ run'.began = run.began /\ run'.from = run.from
           /\ run'.edited = (run.edited \/ run.pc # "none") /\ run'.found = run.found /\ run'.today = run.today
<1> DEFINE edited == run.edited \/ run.pc # "none"
<1>1. edited \in BOOLEAN /\ run' = [run EXCEPT !.edited = edited]
    BY DEF RunType, GeneratorEdited
<1> HIDE DEF edited
<1>2. /\ run' \in RunType /\ run'.pc = run.pc /\ run'.command = run.command /\ run'.strict = run.strict
      /\ run'.output = run.output /\ run'.entries = run.entries /\ run'.schema = run.schema
      /\ run'.loaded = run.loaded /\ run'.began = run.began /\ run'.from = run.from
      /\ run'.edited = edited /\ run'.found = run.found /\ run'.today = run.today
    BY <1>1 DEF RunType
<1> QED  BY <1>2 DEF edited

-----------------------------------------------------------------------------
(* The cases of a step of the generator, and what a write does.             *)

FileNames == {"contract", "order", "manifest", "api", "local"}

(* The steps of the generator, those that end the command in one.           *)
Blocking == IF run.strict THEN {"error", "warning"} ELSE {"error"}
Why(why) ==
    \/ why = "throws" /\ (run.pc = "failed" \/ (run.pc = "load" /\ "throws" \in Found))
    \/ /\ run.pc = "load" /\ run.command \in {"check", "doctor"} /\ "throws" \notin Found /\ Len(run.entries) = 1
       /\ why = IF (run.found \cup Found) \cap Blocking = {} THEN "ok" ELSE "diagnostics"
    \/ why = "diagnostics" /\ Loading("generate") /\ Blocks(Entry, Found)
    \/ run.pc = "format" /\ (why = "format" \/ (why = "ok" /\ Len(run.entries) = 1))
    \/ why = "killed"
Ends(why) == Finish(why) /\ run.pc # "none" /\ Why(why) /\ UNCHANGED <<day, disk, exports, generated>>
RunFrame == UNCHANGED <<day, disk, exports, generated, terminal, budget, last, checked>>
NextEntry ==
    /\ run.pc = "load" /\ run.command \in {"check", "doctor"} /\ "throws" \notin Found /\ Len(run.entries) # 1
    /\ run' = [run EXCEPT !.entries = Tail(@), !.found = run.found \cup Found, !.schema = Schema,
                          !.loaded = @ \/ Entry.kind = "paired"]
    /\ RunFrame
NextFormat ==
    /\ run.pc = "format" /\ Len(run.entries) # 1
    /\ run' = [run EXCEPT !.pc = "load", !.entries = Tail(@)]
    /\ RunFrame
WriteNext(files, content, next) ==
    \/ /\ run.pc = "contract" /\ files = {"contract"} /\ next = "order"
       /\ content = [version |-> run.today, tables |-> run.schema.local,
                    paired |-> Entry.kind = "paired", orders |-> Orders]
    \/ run.pc = "order" /\ files = {"order"} /\ next = "manifest" /\ content = Orders
    \/ /\ run.pc = "manifest" /\ files = {"manifest"} /\ next = IF Entry.kind = "paired" THEN "api" ELSE "format"
       /\ content = [contractVersion |-> run.today, tables |-> run.schema.local, orders |-> Orders]
    \/ /\ run.pc = "api" /\ next = "local" /\ files = (IF disk.api = NoFile THEN {} ELSE {"api"}) /\ content = disk.api
    \/ /\ run.pc = "local" /\ next = "format" /\ files = (IF disk.local = NoFile THEN {} ELSE {"local"})
       /\ content = disk.local
Writing == \E files, content, next : WriteNext(files, content, next) /\ Write(files, content, next)

(* A step of the generator starts a command, ends it for a reason that the  *)
(* state gives, goes on to the next entry, accepts one or writes a file.    *)
LEMMA GeneratorCases ==
    ASSUME GenInv, GeneratorNext
    PROVE  \/ \E command \in {"generate", "check", "doctor"}, strict \in BOOLEAN, output \in Outputs :
                 Invoke(command, strict, output)
           \/ \E why : Ends(why)
           \/ NextEntry \/ NextFormat \/ Accept \/ Writing
<1>1. CASE LoadThrows
    <2>1. Ends("throws")
        BY <1>1 DEF LoadThrows, Ends, Why
    <2> QED  BY <2>1
<1>2. CASE Judge
    <2> DEFINE found == run.found \cup Found
               why == IF found \cap Blocking = {} THEN "ok" ELSE "diagnostics"
    <2>0. run.pc = "load" /\ run.command \in {"check", "doctor"} /\ "throws" \notin Found
          /\ UNCHANGED <<day, disk, exports, generated>>
        BY <1>2 DEF Judge, Loading
    <2>1. CASE Len(run.entries) = 1
        <3>1. Finish(why)
            BY <1>2, <2>1 DEF Judge, Blocking
        <3>2. Why(why)
            BY <2>0, <2>1 DEF Why
        <3>3. Ends(why)
            BY <2>0, <3>1, <3>2 DEF Ends
        <3> QED  BY <3>3
    <2>2. CASE Len(run.entries) # 1
        <3>1. NextEntry
            BY <1>2, <2>0, <2>2 DEF Judge, NextEntry, RunFrame
        <3> QED  BY <3>1
    <2> QED  BY <2>1, <2>2
<1>3. CASE Refuse
    <2>1. Ends("diagnostics")
        BY <1>3 DEF Refuse, Ends, Why, Loading
    <2> QED  BY <2>1
<1>4. CASE writeSyncContractJson
    <2> DEFINE content == [version |-> run.today, tables |-> run.schema.local,
                    paired |-> Entry.kind = "paired", orders |-> Orders]
    <2>1. WriteNext({"contract"}, content, "order") /\ Write({"contract"}, content, "order")
        BY <1>4 DEF writeSyncContractJson, WriteNext
    <2> QED  BY <2>1 DEF Writing
<1>5. CASE writeTableOrderConstants
    <2>1. WriteNext({"order"}, Orders, "manifest") /\ Write({"order"}, Orders, "manifest")
        BY <1>5 DEF writeTableOrderConstants, WriteNext
    <2> QED  BY <2>1 DEF Writing
<1>6. CASE writeManifest
    <2> DEFINE content == [contractVersion |-> run.today, tables |-> run.schema.local, orders |-> Orders]
               next == IF Entry.kind = "paired" THEN "api" ELSE "format"
    <2>1. WriteNext({"manifest"}, content, next) /\ Write({"manifest"}, content, next)
        BY <1>6 DEF writeManifest, WriteNext
    <2> QED  BY <2>1 DEF Writing
<1>7. CASE CopySnapshot("api", "local")
    <2> DEFINE files == IF disk.api = NoFile THEN {} ELSE {"api"}
    <2>1. WriteNext(files, disk.api, "local") /\ Write(files, disk.api, "local")
        BY <1>7 DEF CopySnapshot, WriteNext
    <2> QED  BY <2>1 DEF Writing
<1>8. CASE CopySnapshot("local", "format")
    <2> DEFINE files == IF disk.local = NoFile THEN {} ELSE {"local"}
    <2>1. WriteNext(files, disk.local, "format") /\ Write(files, disk.local, "format")
        BY <1>8 DEF CopySnapshot, WriteNext
    <2> QED  BY <2>1 DEF Writing
<1>9. CASE Format
    <2>0. run.pc = "format" /\ UNCHANGED <<day, disk, exports, generated>>
        BY <1>9 DEF Format
    <2>1. CASE Finish("format")
        <3>1. Ends("format")
            BY <2>0, <2>1 DEF Ends, Why
        <3> QED  BY <3>1
    <2>2. CASE Finish("ok") /\ Len(run.entries) = 1
        <3>1. Ends("ok")
            BY <2>0, <2>2 DEF Ends, Why
        <3> QED  BY <3>1
    <2>3. CASE NextFormat
        BY <2>3
    <2> QED  BY <1>9, <2>0, <2>1, <2>2, <2>3 DEF Format, NextFormat, RunFrame
<1>10. CASE KillGenerator
    <2>1. Ends("killed")
        BY <1>10 DEF KillGenerator, Ends, Why
    <2> QED  BY <2>1
<1> QED  BY <1>1, <1>2, <1>3, <1>4, <1>5, <1>6, <1>7, <1>8, <1>9, <1>10 DEF GeneratorNext, GeneratorSteps

(* What a write makes of the dated directory.                               *)
LEMMA WriteRun ==
    ASSUME GenInv, DatesInv, NEW files, NEW content, NEW next, WriteNext(files, content, next),
           Write(files, content, next)
    PROVE  /\ run.pc \in WritePcs /\ next \in WritePcs /\ files \subseteq FileNames
           /\ run' = [run EXCEPT !.pc = next]
           /\ UNCHANGED <<terminal, last, checked, day, disk, budget, exports>>
           /\ Entry.dir \in Dirs /\ run.today \in 0..MaxDay
           /\ \A d \in Dirs, n \in 0..MaxDay :
                 d # Entry.dir \/ n # run.today => generated'[d][n] = generated[d][n]
           /\ LET dated == generated[Entry.dir][run.today]
                  new == generated'[Entry.dir][run.today]
              IN  /\ DOMAIN new = {"whole"} \cup files \cup DOMAIN dated
                  /\ new.whole = Wholeness(next)
                  /\ \A f \in files : new[f] = content
                  /\ \A f \in FileNames \ files : new[f] = IF f \in DOMAIN dated THEN dated[f] ELSE new[f]
<1>1. run.pc \in WritePcs /\ next \in WritePcs /\ files \subseteq FileNames
    BY DEF WriteNext, WritePcs, FileNames
<1>2. run \in RunType /\ Entry \in Entries
    BY <1>1, EntryIs DEF GenInv
<1>3. Entry.dir \in Dirs /\ run.today \in 0..MaxDay
    BY <1>2 DEF Entries, RunType
<1> DEFINE dated == generated[Entry.dir][run.today]
           whole == Wholeness(next)
           mid == Put(files, content, dated)
           new == Put({"whole"}, whole, mid)
           dir == Entry.dir
<1>4. /\ generated' = [generated EXCEPT ![dir][run.today] = new]
      /\ run' = [run EXCEPT !.pc = next]
      /\ UNCHANGED <<terminal, last, checked, day, disk, budget, exports>>
    BY DEF Write, GeneratorFrame
<1>5. DOMAIN mid = files \cup DOMAIN dated /\ \A f \in DOMAIN mid : mid[f] = IF f \in files THEN content ELSE dated[f]
    BY DEF Put
<1>6. DOMAIN new = {"whole"} \cup DOMAIN mid /\ \A f \in DOMAIN new : new[f] = IF f \in {"whole"} THEN whole ELSE mid[f]
    BY DEF Put
<1>7. "whole" \notin FileNames
    BY DEF FileNames
<1> HIDE DEF mid, new, dated, whole, dir
<1>8. /\ DOMAIN new = {"whole"} \cup files \cup DOMAIN dated /\ new["whole"] = whole
      /\ \A f \in files : new[f] = content
      /\ \A f \in FileNames \ files : f \in DOMAIN dated => new[f] = dated[f]
    BY <1>1, <1>5, <1>6, <1>7
<1>9. dir \in Dirs /\ dir = Entry.dir
    BY <1>3 DEF dir
<1>10. /\ generated'[dir][run.today] = new
       /\ \A d \in Dirs, n \in 0..MaxDay : d # dir \/ n # run.today => generated'[d][n] = generated[d][n]
    BY <1>3, <1>4, <1>9 DEF DatesInv
<1> QED  BY <1>1, <1>3, <1>4, <1>8, <1>9, <1>10 DEF dated, whole

DirType ==
    \A d \in Dirs, n \in 0..MaxDay :
        /\ "whole" \in DOMAIN generated[d][n] /\ DOMAIN generated[d][n] \subseteq {"whole"} \cup FileNames
        /\ generated[d][n].whole \in Kinds \cup {"edited"}

(* The budget stays one.                                                    *)
LEMMA SpendType ==
    ASSUME budget \in [Happenings -> Nat], NEW what \in Happenings, Spend(what)
    PROVE  budget' \in [Happenings -> Nat]
<1>1. budget[what] \in Nat /\ budget[what] - 1 \in Nat
    BY DEF Spend
<1> QED  BY <1>1 DEF Spend

(* A command of the generator has the terminal while it runs.               *)
LEMMA GeneratorMoves ==
    ASSUME GenInv, DatesInv, WorkbenchTypeOK, DirType,
           (run.pc # "none") = (terminal = "generator"), GeneratorNext
    PROVE  /\ GenInv' /\ DirType'
           /\ UNCHANGED <<day, disk, exports>> /\ budget' \in [Happenings -> Nat]
           /\ terminal \in {"prompt", "generator"} /\ terminal' \in {"prompt", "generator"}
           /\ (run'.pc # "none") = (terminal' = "generator")
<1>t. /\ day \in 0..MaxDay /\ disk \in SchemaFiles /\ run \in RunType /\ exports \in ConfigModules
      /\ budget \in [Happenings -> Nat]
    BY DEF WorkbenchTypeOK, GenInv, SchemaFiles
<1>1. ASSUME NEW command \in {"generate", "check", "doctor"}, NEW strict \in BOOLEAN, NEW output \in Outputs,
             Invoke(command, strict, output)
      PROVE  /\ GenInv' /\ DirType'
             /\ UNCHANGED <<day, disk, exports>> /\ budget' \in [Happenings -> Nat]
             /\ terminal = "prompt" /\ terminal' = "generator" /\ run'.pc # "none"
    <2>1. /\ run' \in RunType /\ run'.command = command /\ run'.entries = resolveLoadedConfigEntries(output)
          /\ run'.pc = IF ConfigThrows \/ resolveLoadedConfigEntries(output) = <<>> THEN "failed" ELSE "load"
        BY <1>1, <1>t, InvokeRun
    <2>2. UNCHANGED <<day, disk, exports, generated>> /\ terminal = "prompt" /\ terminal' = "generator"
          /\ Spend("generator")
        BY <1>1 DEF Invoke, Start
    <2>3. budget' \in [Happenings -> Nat]
        BY <1>t, <2>2, SpendType DEF Happenings, Tools
    <2>4. GenInv'
        BY <1>t, <2>1, <2>2 DEF GenInv, WritePcs
    <2> QED  BY <2>1, <2>2, <2>3, <2>4 DEF DirType
<1>2. ASSUME NEW why, Ends(why)
      PROVE  /\ GenInv' /\ DirType' /\ UNCHANGED <<day, disk, exports, budget>>
             /\ terminal = "generator" /\ terminal' = "prompt" /\ run'.pc = "none"
    <2>1. run' \in RunType /\ run'.pc = "none"
        BY <1>2, FinishRun DEF Ends
    <2>2. UNCHANGED <<day, disk, exports, generated, budget>> /\ terminal' = "prompt" /\ run.pc # "none"
        BY <1>2 DEF Ends, Finish, End
    <2>3. GenInv'
        BY <1>t, <2>1, <2>2 DEF GenInv, WritePcs
    <2> QED  BY <2>1, <2>2, <2>3 DEF DirType
<1>3. CASE NextEntry
    <2>1. run' \in RunType /\ run'.pc = "load" /\ run'.command = run.command /\ run'.entries = Tail(run.entries)
        <3>1. (run.loaded \/ Entry.kind = "paired") \in BOOLEAN
            BY <1>t DEF RunType
        <3> QED  BY <1>3, <1>t, <3>1, NextEntryRun DEF NextEntry
    <2>2. RunFrame /\ run.pc = "load" /\ Len(run.entries) # 1
        BY <1>3 DEF NextEntry
    <2>3. Tail(run.entries) # <<>>
        BY <2>2, EntryIs
    <2>4. GenInv'
        BY <1>t, <2>1, <2>2, <2>3 DEF GenInv, WritePcs, RunFrame
    <2> QED  BY <1>t, <2>1, <2>2, <2>4 DEF DirType, RunFrame
<1>4. CASE NextFormat
    <2>1. run' \in RunType /\ run'.pc = "load" /\ run'.command = run.command /\ run'.entries = Tail(run.entries)
        BY <1>4, FormatRun DEF NextFormat
    <2>2. RunFrame /\ run.pc = "format" /\ Len(run.entries) # 1
        BY <1>4 DEF NextFormat
    <2>3. Tail(run.entries) # <<>>
        BY <2>2, EntryIs DEF WritePcs
    <2>4. GenInv'
        BY <1>t, <2>1, <2>2, <2>3 DEF GenInv, WritePcs, RunFrame
    <2> QED  BY <1>t, <2>1, <2>2, <2>4 DEF DirType, RunFrame
<1>5. CASE Accept
    <2>1. /\ run' \in RunType /\ run'.pc = "contract" /\ run'.command = "generate" /\ run'.entries = run.entries
          /\ run'.schema = Schema /\ run.pc = "load" /\ "throws" \notin Found
        BY <1>5, <1>t, AcceptRun
    <2>2. UNCHANGED <<terminal, last, checked, generated, day, disk, budget, exports>>
        BY <1>5 DEF Accept, GeneratorFrame
    <2>3. Schema.local \in DOMAIN TableOrder
        BY <1>t, <2>1, FoundType, OutcomeOf DEF Found
    <2>4. GenInv'
        BY <1>t, <2>1, <2>2, <2>3 DEF GenInv, WritePcs
    <2> QED  BY <1>t, <2>1, <2>2, <2>4 DEF DirType
<1>6. CASE Writing
    <2>1. PICK files, content, next : WriteNext(files, content, next) /\ Write(files, content, next)
        BY <1>6 DEF Writing
    <2>2. /\ run.pc \in WritePcs /\ next \in WritePcs /\ files \subseteq FileNames
          /\ run' = [run EXCEPT !.pc = next]
          /\ UNCHANGED <<terminal, last, checked, day, disk, budget, exports>>
          /\ \A d \in Dirs, n \in 0..MaxDay :
                 d # Entry.dir \/ n # run.today => generated'[d][n] = generated[d][n]
          /\ Entry.dir \in Dirs /\ run.today \in 0..MaxDay
          /\ LET dated == generated[Entry.dir][run.today]
                 new == generated'[Entry.dir][run.today]
             IN  /\ DOMAIN new = {"whole"} \cup files \cup DOMAIN dated
                 /\ new.whole = Wholeness(next)
        BY <2>1, WriteRun
    <2>3. /\ run' \in RunType /\ run'.pc = next /\ run'.command = run.command /\ run'.entries = run.entries
          /\ run'.schema = run.schema
        BY <2>2, <1>t, PcRun DEF RunPcs
    <2>4. GenInv'
        BY <1>t, <2>2, <2>3 DEF GenInv, WritePcs
    <2>5. Wholeness(next) \in Kinds \cup {"edited"}
        <3>1. Entry.kind \in Kinds /\ "none" \in Kinds
            BY <2>2, EntryIs DEF Entries, Kinds
        <3> QED  BY <3>1 DEF Wholeness
    <2>6. DirType'
        <3> SUFFICES ASSUME NEW d \in Dirs, NEW n \in 0..MaxDay
                     PROVE  /\ "whole" \in DOMAIN generated'[d][n]
                            /\ DOMAIN generated'[d][n] \subseteq {"whole"} \cup FileNames
                            /\ generated'[d][n].whole \in Kinds \cup {"edited"}
            BY DEF DirType
        <3>1. CASE d # Entry.dir \/ n # run.today
            BY <2>2, <3>1 DEF DirType
        <3>2. CASE d = Entry.dir /\ n = run.today
            BY <2>2, <2>5, <3>2 DEF DirType
        <3> QED  BY <3>1, <3>2
    <2> QED  BY <1>t, <2>2, <2>3, <2>4, <2>6 DEF WritePcs
<1>7. \/ \E command \in {"generate", "check", "doctor"}, strict \in BOOLEAN, output \in Outputs :
             Invoke(command, strict, output)
      \/ \E why : Ends(why)
      \/ NextEntry \/ NextFormat \/ Accept \/ Writing
    BY GeneratorCases
<1>8. CASE \E command \in {"generate", "check", "doctor"}, strict \in BOOLEAN, output \in Outputs :
             Invoke(command, strict, output)
    BY <1>1, <1>8
<1>9. CASE \E why : Ends(why)
    BY <1>2, <1>9, <1>t
<1>10. CASE NextEntry \/ NextFormat \/ Accept \/ Writing
    BY <1>3, <1>4, <1>5, <1>6, <1>10, <1>t
<1> QED  BY <1>7, <1>8, <1>9, <1>10

-----------------------------------------------------------------------------
(* The scaffolder's writes: every file written before the one to come is    *)
(* there, of this run, patched and with its date.                           *)

rootFilesAgain == <<Own("package.json"), Own("README.md")>>

(* The twelve steps of the template, which write texts of their own.        *)
LEMMA TemplateSteps ==
    /\ Len(writeTemplateSubset) = 12 /\ DOMAIN writeTemplateSubset = 1..12
    /\ writeTemplateSubset \in Seq({ writeTemplateSubset[i] : i \in 1..12 })
    /\ \A i \in 1..12 : writeTemplateSubset[i].how = "own"
<1>1. Len(writeTemplateSubset) = 12 /\ DOMAIN writeTemplateSubset = 1..12
    BY DEF writeTemplateSubset
<1>2. writeTemplateSubset \in Seq({ writeTemplateSubset[i] : i \in 1..12 })
    BY DEF writeTemplateSubset
<1>3. \A i \in 1..12 : writeTemplateSubset[i].how = "own"
    BY DEF writeTemplateSubset, Own, Step
<1> QED  BY <1>1, <1>2, <1>3

(* The ten steps in apps/app.                                               *)
LEMMA AppSteps ==
    /\ Len(patchAppFiles) = 10 /\ DOMAIN patchAppFiles = 1..10
    /\ patchAppFiles \in Seq({ patchAppFiles[i] : i \in 1..10 })
    /\ \A i \in 1..10 : patchAppFiles[i].how \in {"own", "dated", "merged"}
<1>1. Len(patchAppFiles) = 10 /\ DOMAIN patchAppFiles = 1..10
    BY DEF patchAppFiles
<1>2. patchAppFiles \in Seq({ patchAppFiles[i] : i \in 1..10 })
    BY DEF patchAppFiles
<1>3. \A i \in 1..10 : patchAppFiles[i].how \in {"own", "dated", "merged"}
    BY DEF patchAppFiles, Own, Step
<1> QED  BY <1>1, <1>2, <1>3

(* The eight steps in apps/server.                                          *)
LEMMA ServerSteps ==
    /\ Len(patchServerFiles) = 8 /\ DOMAIN patchServerFiles = 1..8
    /\ patchServerFiles \in Seq({ patchServerFiles[i] : i \in 1..8 })
    /\ \A i \in 1..8 : patchServerFiles[i].how \in {"own", "dated", "merged", "framework"}
<1>1. Len(patchServerFiles) = 8 /\ DOMAIN patchServerFiles = 1..8
    BY DEF patchServerFiles
<1>2. patchServerFiles \in Seq({ patchServerFiles[i] : i \in 1..8 })
    BY DEF patchServerFiles
<1>3. \A i \in 1..8 : patchServerFiles[i].how \in {"own", "dated", "merged", "framework"}
    BY DEF patchServerFiles, Own, Step
<1> QED  BY <1>1, <1>2, <1>3

(* The two files at the end.                                                *)
LEMMA LastSteps ==
    /\ Len(rootFilesAgain) = 2 /\ DOMAIN rootFilesAgain = 1..2
    /\ rootFilesAgain \in Seq({ rootFilesAgain[i] : i \in 1..2 })
    /\ \A i \in 1..2 : rootFilesAgain[i].how = "own"
BY DEF rootFilesAgain, Own, Step

(* A list over a set is one over a larger set.                              *)
LEMMA SeqMono ==
    ASSUME NEW S, NEW T, S \subseteq T, NEW s \in Seq(S)
    PROVE  s \in Seq(T)
<1>1. Len(s) \in Nat /\ s \in [1..Len(s) -> S]
    OBVIOUS
<1>2. s \in [1..Len(s) -> T]
    BY <1>1
<1> QED  BY <1>1, <1>2

(* The places of a list's elements.                                         *)
LEMMA DomainOf ==
    ASSUME NEW S, NEW s \in Seq(S)
    PROVE  DOMAIN s = 1..Len(s) /\ \A i \in 1..Len(s) : s[i] \in S
OBVIOUS

(* Two lists put together: the length, and the places of the first one's    *)
(* elements.                                                                *)
LEMMA Joined ==
    ASSUME NEW W, NEW s \in Seq(W), NEW t \in Seq(W)
    PROVE  /\ s \o t \in Seq(W) /\ Len(s \o t) = Len(s) + Len(t)
           /\ \A i \in 1..Len(s) : (s \o t)[i] = s[i]
OBVIOUS

Hows == {"own", "dated", "merged", "framework"}

(* The thirty-two steps: how they write, and that the first twelve are the  *)
(* template's.                                                              *)
LEMMA WritesAre ==
    /\ Len(Writes) = 32 /\ DOMAIN Writes = 1..32 /\ Len(writeTemplateSubset) = 12
    /\ \A i \in 1..32 : Writes[i].how \in Hows
    /\ \A i \in 1..12 : Writes[i].path \in TemplatePaths
<1> DEFINE a == writeTemplateSubset
           b == patchAppFiles
           c == patchServerFiles
           d == rootFilesAgain
           A == { a[i] : i \in 1..12 }
           B == { b[i] : i \in 1..10 }
           C == { c[i] : i \in 1..8 }
           D == { d[i] : i \in 1..2 }
           W == A \cup B \cup C \cup D
<1>1. Writes = a \o b \o c \o d
    BY DEF Writes, rootFilesAgain
<1>2. a \in Seq(A) /\ b \in Seq(B) /\ c \in Seq(C) /\ d \in Seq(D)
    BY TemplateSteps, AppSteps, ServerSteps, LastSteps
<1>3. /\ \A s \in A : s.how \in Hows
      /\ \A s \in B : s.how \in Hows
      /\ \A s \in C : s.how \in Hows
      /\ \A s \in D : s.how \in Hows
    <2>1. \A s \in A : s.how \in Hows
        BY TemplateSteps DEF Hows
    <2>2. \A s \in B : s.how \in Hows
        BY AppSteps DEF Hows
    <2>3. \A s \in C : s.how \in Hows
        BY ServerSteps DEF Hows
    <2>4. \A s \in D : s.how \in Hows
        BY LastSteps DEF Hows
    <2> QED  BY <2>1, <2>2, <2>3, <2>4
<1>4. Len(a) = 12 /\ Len(b) = 10 /\ Len(c) = 8 /\ Len(d) = 2
    BY TemplateSteps, AppSteps, ServerSteps, LastSteps
<1>5. TemplatePaths = { a[i].path : i \in 1..12 }
    BY TemplateSteps DEF TemplatePaths
<1> HIDE DEF a, b, c, d, A, B, C, D
<1>13. a \in Seq(W) /\ b \in Seq(W) /\ c \in Seq(W) /\ d \in Seq(W) /\ \A s \in W : s.how \in Hows
    <2>1. A \subseteq W /\ B \subseteq W /\ C \subseteq W /\ D \subseteq W /\ \A s \in W : s.how \in Hows
        BY <1>3
    <2> HIDE DEF W
    <2> QED  BY <1>2, <2>1, SeqMono
<1> HIDE DEF W
<1> DEFINE x == a \o b
<1>6. x \in Seq(W) /\ Len(x) = 22 /\ \A i \in 1..12 : x[i] = a[i]
    <2>0. a \in Seq(W) /\ b \in Seq(W)
        BY <1>13
    <2>1. x \in Seq(W) /\ Len(x) = Len(a) + Len(b) /\ \A i \in 1..Len(a) : x[i] = a[i]
        BY ONLY <2>0, Joined
    <2> HIDE DEF x
    <2> QED  BY <1>4, <2>1
<1> HIDE DEF x
<1> DEFINE y == x \o c
<1>7. y \in Seq(W) /\ Len(y) = 30 /\ \A i \in 1..12 : y[i] = x[i]
    <2>1. y \in Seq(W) /\ Len(y) = Len(x) + Len(c) /\ \A i \in 1..Len(x) : y[i] = x[i]
        <3>1. x \in Seq(W) /\ c \in Seq(W)
            BY <1>13, <1>6
        <3> QED  BY ONLY <3>1, Joined
    <2> HIDE DEF y
    <2> QED  BY <1>4, <1>6, <2>1
<1> HIDE DEF y
<1> DEFINE z == y \o d
<1>9. Writes = z
    BY <1>1 DEF x, y
<1>8. Writes \in Seq(W) /\ Len(Writes) = 32 /\ \A i \in 1..12 : Writes[i] = y[i]
    <2>1. z \in Seq(W) /\ Len(z) = Len(y) + Len(d) /\ \A i \in 1..Len(y) : z[i] = y[i]
        <3>1. y \in Seq(W) /\ d \in Seq(W)
            BY <1>13, <1>7
        <3> QED  BY ONLY <3>1, Joined
    <2> HIDE DEF z
    <2> QED  BY <1>4, <1>7, <1>9, <2>1
<1>10. DOMAIN Writes = 1..32 /\ \A i \in 1..32 : Writes[i] \in W
    <2>1. Writes \in Seq(W) /\ Len(Writes) = 32
        BY <1>8
    <2> QED  BY <2>1, DomainOf
<1>11. \A i \in 1..12 : Writes[i] = a[i]
    BY <1>6, <1>7, <1>8
<1>12. Len(writeTemplateSubset) = 12
    BY <1>4 DEF a
<1> QED  BY <1>5, <1>8, <1>10, <1>11, <1>12, <1>13

(* What a file is like that this run has written.                           *)
GoodFile(p) ==
    /\ p \in DOMAIN project /\ project[p].run = setup.run
    /\ project[p].how = "initializer" => p = Vite /\ OddVite \in DOMAIN project
    /\ project[p].how = "dated" => project[p].date = setup.date

WrittenInv ==
    /\ setup.next \in 1..33 /\ setup.date \in 0..MaxDay
    /\ setup.pc \in {"name", "mkdir", "tauri", "framework"} => setup.next = 1
    /\ setup.pc = "write" => setup.next <= 32
    /\ setup.pc = "server" => setup.next = 13
    /\ setup.pc = "install" => setup.next = 33
    /\ setup.pc # "none" => setup.why = "none"
    /\ setup.pc \in {"write", "server", "install"} =>
          \A i \in 1..32 : i < setup.next => GoodFile(Writes[i].path)
    /\ setup.why = "success" => \A i \in 1..32 : GoodFile(Writes[i].path)

(* Files that are added leave the others good, and are good themselves but  *)
(* for what an initializer leaves.                                          *)
LEMMA GoodKept ==
    ASSUME NEW p, NEW paths, NEW how, project' = Put(paths, Made(how), project),
           setup'.run = setup.run, setup'.date = setup.date,
           \/ GoodFile(p) /\ (how = "initializer" => p \notin paths)
           \/ p \in paths /\ (how = "initializer" => p = Vite /\ OddVite \in DOMAIN project)
    PROVE  GoodFile(p)'
<1>1. /\ DOMAIN project' = paths \cup DOMAIN project
      /\ \A q \in DOMAIN project' : project'[q] = IF q \in paths THEN Made(how) ELSE project[q]
    BY DEF Put
<1>2. Made(how).how = how /\ Made(how).run = setup.run /\ (how = "dated" => Made(how).date = setup.date)
    BY DEF Made
<1> QED  BY <1>1, <1>2 DEF GoodFile

(* The process goes on or ends without a word about success.                *)
LEMMA GoodStill ==
    ASSUME WrittenInv, UNCHANGED project,
           setup'.run = setup.run, setup'.date = setup.date, setup'.next = setup.next,
           setup'.why = setup.why \/ (setup'.why # "success" /\ setup'.pc = "none"),
           setup'.pc # "none" => setup.pc # "none",
           setup'.pc \in {"mkdir", "tauri", "framework"} => setup.pc \in {"name", "mkdir", "tauri"},
           setup'.pc \in {"write", "server", "install"} => setup'.pc = setup.pc,
           setup'.pc = "name" => setup.pc = "name"
    PROVE  WrittenInv'
<1>1. \A p : GoodFile(p) => GoodFile(p)'
    BY DEF GoodFile
<1> QED  BY <1>1 DEF WrittenInv

(* Every step of the scaffolder keeps what is known of the files written.   *)
LEMMA ScaffoldWritten ==
    ASSUME SetupOK, day \in 0..MaxDay, WrittenInv, ScaffoldNext
    PROVE  WrittenInv'
<1> USE DEF SetupOK, SetupPcs, SetupFrame, Going
<1>1. CASE scaffoldProject
    <2> DEFINE s == [NotRun EXCEPT !.pc = "name"]
    <2>1. s.pc = "name" /\ s.why = "none" /\ s.next = 1 /\ s.date = 0
          /\ DOMAIN s = {"pc", "why", "next", "framework", "date", "run"}
        BY DEF NotRun
    <2>2. setup' = [s EXCEPT !.run = setup.run + 1]
        BY <1>1 DEF scaffoldProject
    <2> HIDE DEF s
    <2>3. setup'.pc = "name" /\ setup'.why = "none" /\ setup'.next = 1 /\ setup'.date = 0
        BY <2>1, <2>2
    <2> QED  BY <2>3, WorkbenchAssumption DEF WrittenInv
<1>2. ASSUME NEW why, Leaves(why), why # "success", UNCHANGED project PROVE WrittenInv'
    <2>1. /\ setup'.pc = "none" /\ setup'.why = why /\ setup'.next = setup.next
          /\ setup'.run = setup.run /\ setup'.date = setup.date
        BY <1>2 DEF Leaves
    <2> QED  BY <1>2, <2>1, GoodStill
<1>3. CASE Cancel \/ WriteFails \/ KillScaffold
    BY <1>2, <1>3 DEF Cancel, WriteFails, KillScaffold
<1>4. CASE ensureEmptyTargetDir
    <2>1. CASE Goto("mkdir")
        <3>1. /\ setup.pc = "name" /\ UNCHANGED project /\ setup'.pc = "mkdir" /\ setup'.why = setup.why
              /\ setup'.next = setup.next /\ setup'.run = setup.run /\ setup'.date = setup.date
            BY <1>4, <2>1 DEF ensureEmptyTargetDir, Goto
        <3> QED  BY <3>1, GoodStill
    <2> QED  BY <1>2, <1>4, <2>1 DEF ensureEmptyTargetDir
<1>5. CASE MakeDirectories \/ RunTauriInitializer
    <2>1. PICK pc \in {"tauri", "framework"} : Goto(pc)
        BY <1>5 DEF MakeDirectories, RunTauriInitializer
    <2>2. setup.pc \in {"mkdir", "tauri"}
        BY <1>5 DEF MakeDirectories, RunTauriInitializer
    <2>3. /\ setup'.pc = pc /\ setup'.why = setup.why
          /\ setup'.next = setup.next /\ setup'.run = setup.run /\ setup'.date = setup.date
        BY <2>1 DEF Goto
    <2> QED  BY <2>1, <2>2, <2>3 DEF WrittenInv
<1>6. CASE buildRootScaffoldFiles
    <2>1. PICK f \in Frameworks : setup' = [setup EXCEPT !.pc = "write", !.framework = f, !.date = day]
        BY <1>6 DEF buildRootScaffoldFiles
    <2>2. /\ setup'.pc = "write" /\ setup'.why = setup.why
          /\ setup'.next = setup.next /\ setup'.date = day
        BY <2>1
    <2>3. setup.pc = "framework"
        BY <1>6 DEF buildRootScaffoldFiles
    <2> QED  BY <2>2, <2>3 DEF WrittenInv
<1>7. CASE RunServerInitializer
    <2>1. PICK paths \in ServerLeavings : Leave(paths)
        BY <1>7 DEF RunServerInitializer
    <2>2. setup.pc = "server" /\ setup' = [setup EXCEPT !.pc = "write"]
        BY <1>7 DEF RunServerInitializer, Goto
    <2>3. /\ setup'.pc = "write" /\ setup'.why = setup.why
          /\ setup'.next = setup.next /\ setup'.run = setup.run /\ setup'.date = setup.date
        BY <2>2
    <2>4. \A i \in 1..32 : i < 13 => Writes[i].path \notin paths
        BY <2>1, WritesAre, ScaffoldAssumption
    <2>5. \A i \in 1..32 : i < 13 => GoodFile(Writes[i].path)'
        <3> SUFFICES ASSUME NEW i \in 1..32, i < 13 PROVE GoodFile(Writes[i].path)'
            OBVIOUS
        <3> DEFINE p == Writes[i].path
        <3>1. GoodFile(p) /\ p \notin paths
            BY <2>2, <2>4 DEF WrittenInv
        <3> HIDE DEF p
        <3>2. GoodFile(p)'
            BY <2>1, <2>3, <3>1, GoodKept DEF Leave
        <3> QED  BY <3>2 DEF p
    <2> QED  BY <2>2, <2>3, <2>5 DEF WrittenInv
<1>8. CASE WriteFile
    <2>n. setup.next \in 1..33
        BY DEF WrittenInv
    <2>0. PICK n \in 1..33 : n = setup.next
        BY <2>n
    <2> DEFINE step == Writes[n]
               pc == CASE setup.next = Len(writeTemplateSubset) -> "server"
                       [] setup.next = Len(Writes) -> "install"
                       [] OTHER -> "write"
               s == [setup EXCEPT !.next = @ + 1]
    <2>1. /\ setup.pc = "write" /\ setup' = [setup EXCEPT !.next = @ + 1, !.pc = pc]
          /\ project' = Put({step.path}, Made(HowWritten(step)), project)
        BY <1>8, <2>0 DEF WriteFile
    <2>2. /\ setup'.pc = pc /\ setup'.why = setup.why /\ setup'.next = setup.next + 1
          /\ setup'.run = setup.run /\ setup'.date = setup.date
        BY <2>1
    <2>3. setup.next \in 1..32 /\ setup.why = "none"
        BY <2>1 DEF WrittenInv
    <2>4. pc = IF setup.next = 12 THEN "server" ELSE IF setup.next = 32 THEN "install" ELSE "write"
        BY WritesAre
    <2>5. step.how \in Hows
        BY <2>0, <2>3, WritesAre
    <2>6. HowWritten(step) = "initializer" => step.path = Vite /\ OddVite \in DOMAIN project
        BY <2>5 DEF HowWritten, Hows
    <2>7. GoodFile(step.path)'
        <3> DEFINE p == step.path
        <3>0. PICK how : how = HowWritten(step)
            OBVIOUS
        <3>1. project' = Put({p}, Made(how), project) /\ (how = "initializer" => p = Vite /\ OddVite \in DOMAIN project)
            BY <2>1, <2>6, <3>0
        <3> HIDE DEF p
        <3>2. GoodFile(p)'
            BY <2>2, <3>1, GoodKept
        <3> QED  BY <3>2 DEF p
    <2>8. ASSUME NEW i \in 1..32, i < setup.next PROVE GoodFile(Writes[i].path)'
        <3> DEFINE p == Writes[i].path
                   w == step.path
        <3>0. PICK how : how = HowWritten(step)
            OBVIOUS
        <3>1. GoodFile(p)
            BY <2>0, <2>1, <2>8 DEF WrittenInv
        <3>2. project' = Put({w}, Made(how), project) /\ (how = "initializer" => w = Vite /\ OddVite \in DOMAIN project)
            BY <2>1, <2>6, <3>0
        <3>3. GoodFile(w)'
            BY <2>7
        <3> HIDE DEF p, w
        <3>4. GoodFile(p)'
            BY <2>2, <3>1, <3>2, <3>3, GoodKept
        <3> QED  BY <3>4 DEF p
    <2>9. \A i \in 1..32 : i < setup.next + 1 => GoodFile(Writes[i].path)'
        BY <2>0, <2>3, <2>7, <2>8
    <2> HIDE DEF step, pc
    <2> QED  BY <2>1, <2>2, <2>3, <2>4, <2>9 DEF WrittenInv
<1>9. CASE Install
    <2>1. setup.pc = "install"
        BY <1>9 DEF Install
    <2>2. CASE Leaves("success") /\ project' = Put({NodeModules}, Made("own"), project)
        <3>1. /\ setup'.pc = "none" /\ setup'.why = "success" /\ setup'.next = setup.next
              /\ setup'.run = setup.run /\ setup'.date = setup.date
            BY <2>2 DEF Leaves
        <3>2. ASSUME NEW i \in 1..32 PROVE GoodFile(Writes[i].path)'
            <4> DEFINE p == Writes[i].path
            <4>1. GoodFile(p)
                BY <2>1 DEF WrittenInv
            <4> HIDE DEF p
            <4>2. GoodFile(p)'
                BY <2>2, <3>1, <4>1, GoodKept
            <4> QED  BY <4>2 DEF p
        <3> QED  BY <3>1, <3>2 DEF WrittenInv
    <2> QED  BY <1>2, <1>9, <2>2 DEF Install
<1> QED  BY <1>1, <1>3, <1>4, <1>5, <1>6, <1>7, <1>8, <1>9 DEF ScaffoldNext

-----------------------------------------------------------------------------
(* The skills: the installer copies a version's files one by one into each  *)
(* target, and a copy that is not whole is one it is working at or was      *)
(* killed in.                                                               *)

Harnesses == ToSet(Providers)
JobPcs == {"none", "nothing", "ask", "next", "copy"}
AnyFiles == {Command} \cup UNION { SkillFiles[v] : v \in DOMAIN SkillFiles }
JobType ==
    [pc: JobPcs, sub: {"none", "install", "update"}, targets: Seq(Harnesses),
     left: SUBSET AnyFiles]

(* The harness at hand has every file that is not left, at this version.    *)
WholeAt(p, v) == (\A f \in SkillFiles[v] : <<f, v>> \in skill[p]) /\ \A g \in skill[p] : g[2] <= v
SkillsInv ==
    /\ version \in DOMAIN SkillFiles /\ version \in Nat /\ version >= 1
    /\ torn \subseteq harness /\ harness \subseteq Harnesses /\ global \subseteq Harnesses
    /\ job \in JobType
    /\ DOMAIN skill = Harnesses
    /\ \A p \in Harnesses : skill[p] # {} => p \in harness
    /\ \A p \in Harnesses : \A g \in skill[p] : g[2] \in 1..version
    /\ job.pc = "copy" =>
          /\ job.targets # <<>> /\ Head(job.targets) \in harness /\ job.left # {}
          /\ \A f \in SkillFiles[version] \ job.left : <<f, version>> \in skill[Head(job.targets)]
    /\ \A p \in Harnesses \ torn :
          \/ skill[p] = {}
          \/ job.pc = "copy" /\ p = Head(job.targets)
          \/ \E v \in 1..version : WholeAt(p, v)

(* The targets of an update, and what is chosen of the harnesses found, are *)
(* harnesses.                                                               *)
LEMMA TargetsOf ==
    ASSUME SkillsInv, NEW flag \in SUBSET Harnesses
    PROVE  resolveInstallTargets(flag) \in Seq(Harnesses) /\ findInstalledSkillDirs \in Seq(Harnesses)
<1>1. \A dirs : Ordered(dirs) \in Seq(Harnesses)
    BY KeepElements, SkillsAssumption DEF Ordered, Harnesses
<1>2. DefaultTargets \in Seq(Harnesses)
    BY SkillsAssumption DEF Harnesses
<1>3. resolveInstallTargets(flag) \in Seq(Harnesses)
    BY <1>1, <1>2 DEF resolveInstallTargets
<1> QED  BY <1>1, <1>3 DEF findInstalledSkillDirs

(* Steps that copy nothing.                                                 *)
LEMMA SkillsStill ==
    ASSUME SkillsInv, UNCHANGED <<version, global, skill>>,
           harness' \subseteq Harnesses, harness \subseteq harness', job' \in JobType,
           torn' = torn \/ (job.pc = "copy" /\ torn' = torn \cup {Head(job.targets)}),
           job.pc = "copy" => torn' = torn \cup {Head(job.targets)},
           job'.pc = "copy" =>
              /\ job'.targets # <<>> /\ Head(job'.targets) \in harness' /\ job'.left # {}
              /\ SkillFiles[version] \subseteq job'.left
    PROVE  SkillsInv'
<1>1. torn' \subseteq harness'
    BY DEF SkillsInv
<1>2. \A p \in Harnesses \ torn' : skill[p] = {} \/ \E v \in 1..version : WholeAt(p, v)
    BY DEF SkillsInv
<1>3. \A p, v : WholeAt(p, v) => WholeAt(p, v)'
    BY DEF WholeAt
<1>4. \A p \in Harnesses \ torn' : skill'[p] = {} \/ \E v \in 1..version' : WholeAt(p, v)'
    BY <1>2, <1>3
<1> QED  BY <1>1, <1>4 DEF SkillsInv

(* The process ends.                                                        *)
LEMMA DoneJob == ASSUME Done PROVE job' \in JobType /\ job'.pc = "none"
<1>1. job' = NoJob
    BY DEF Done
<1>2. <<>> \in Seq(Harnesses)
    OBVIOUS
<1> QED  BY <1>1, <1>2 DEF NoJob, JobType, JobPcs

(* A file copied leaves the copies whole that were.                         *)
LEMMA SkillsCopy ==
    ASSUME SkillsInv, CopyFile PROVE SkillsInv'
<1> DEFINE p == Head(job.targets)
<1>v. PICK v \in Nat : v = version
    BY DEF SkillsInv
<1>1. job.pc = "copy" /\ job \in JobType
    BY DEF CopyFile, SkillsInv
<1>2. PICK f \in job.left :
        /\ skill' = [skill EXCEPT ![p] = { g \in @ : g[1] # f } \cup {<<f, v>>}]
        /\ job' = IF job.left = {f}
                  THEN [job EXCEPT !.left = {}, !.pc = "next", !.targets = Tail(@)]
                  ELSE [job EXCEPT !.left = @ \ {f}]
        /\ torn' = IF job.left = {f} THEN torn \ {p} ELSE torn
    BY <1>v DEF CopyFile
<1>3. UNCHANGED <<harness, version, global>>
    BY DEF CopyFile, SkillsFrame
<1>4. /\ job.targets \in Seq(Harnesses) /\ job.targets # <<>> /\ p \in harness /\ p \in Harnesses
      /\ \A h \in SkillFiles[v] \ job.left : <<h, v>> \in skill[p]
      /\ v \in Nat /\ v >= 1 /\ v \in DOMAIN SkillFiles
    BY <1>1, <1>v DEF SkillsInv, JobType
<1>5. Tail(job.targets) \in Seq(Harnesses)
    BY <1>4, HeadTailElements
<1>h. PICK q \in Harnesses : q = p
    BY <1>4
<1>6. /\ DOMAIN skill' = Harnesses
      /\ skill'[q] = { g \in skill[q] : g[1] # f } \cup {<<f, v>>}
      /\ \A r \in Harnesses : r # q => skill'[r] = skill[r]
    BY <1>2, <1>h DEF SkillsInv
<1>7. \A h \in SkillFiles[v] : h # f /\ <<h, v>> \in skill[q] => <<h, v>> \in skill'[q]
    BY <1>6
<1>8. <<f, v>> \in skill'[q]
    BY <1>6
<1>9. \A g \in skill'[q] : g[2] \in 1..v
    BY <1>v, <1>4, <1>6 DEF SkillsInv
<1>10. \A r \in Harnesses : \A g \in skill'[r] : g[2] \in 1..v
    BY <1>v, <1>6, <1>9 DEF SkillsInv
<1>11. \A r \in Harnesses : skill'[r] # {} => r \in harness
    BY <1>4, <1>6, <1>h DEF SkillsInv
<1>12. \A r, u : r \in Harnesses /\ r # q /\ WholeAt(r, u) => WholeAt(r, u)'
    BY <1>6 DEF WholeAt
<1> HIDE DEF p
<1>13. CASE job.left = {f}
    <2>1. job' \in JobType /\ job'.pc = "next"
        <3> DEFINE j == [job EXCEPT !.left = {}, !.pc = "next"]
        <3>1. j \in JobType /\ j.pc = "next"
            BY <1>1 DEF JobType, JobPcs
        <3>2. job' = [j EXCEPT !.targets = Tail(job.targets)]
            BY <1>2, <1>13
        <3> HIDE DEF j
        <3> QED  BY <3>1, <3>2, <1>5 DEF JobType
    <2>2. torn' = torn \ {q}
        BY <1>2, <1>13, <1>h
    <2>3. \A h \in SkillFiles[v] : <<h, v>> \in skill'[q]
        BY <1>4, <1>7, <1>8, <1>13, <1>h
    <2>4. WholeAt(q, v)'
        BY <2>3, <1>9, <1>4 DEF WholeAt
    <2>5. \A r \in Harnesses \ torn' : skill'[r] = {} \/ \E u \in 1..v : WholeAt(r, u)'
        <3> SUFFICES ASSUME NEW r \in Harnesses \ torn', skill'[r] # {} PROVE \E u \in 1..v : WholeAt(r, u)'
            OBVIOUS
        <3>1. CASE r = q
            <4>1. v \in 1..v
                BY <1>4
            <4> QED  BY <3>1, <2>4, <4>1
        <3>2. CASE r # q
            <4>1. \E u \in 1..v : WholeAt(r, u)
                BY <3>2, <2>2, <1>6, <1>h, <1>v DEF SkillsInv, p
            <4> QED  BY <4>1, <3>2, <1>12
        <3> QED  BY <3>1, <3>2
    <2> QED  BY <2>1, <2>2, <2>5, <1>3, <1>4, <1>6, <1>10, <1>11, <1>v DEF SkillsInv
<1>14. CASE job.left # {f}
    <2>1. job' = [job EXCEPT !.left = @ \ {f}]
        BY <1>2, <1>14
    <2>2. job' \in JobType /\ job'.pc = "copy" /\ job'.targets = job.targets /\ job'.left = job.left \ {f}
        BY <2>1, <1>1 DEF JobType
    <2>3. job'.left # {} /\ torn' = torn
        BY <2>2, <1>2, <1>14
    <2>4. \A h \in SkillFiles[v] \ job'.left : <<h, v>> \in skill'[q]
        BY <2>2, <1>4, <1>7, <1>8, <1>h
    <2>5. \A r \in Harnesses \ torn' : skill'[r] = {} \/ r = q \/ \E u \in 1..v : WholeAt(r, u)'
        BY <2>3, <1>6, <1>12, <1>h, <1>v DEF SkillsInv, p
    <2>6. Head(job'.targets) = q
        BY <2>2, <1>h DEF p
    <2> QED  BY <2>2, <2>3, <2>4, <2>5, <2>6, <1>3, <1>4, <1>6, <1>10, <1>11, <1>h, <1>v DEF SkillsInv
<1> QED  BY <1>13, <1>14

(* Every other step of the installer keeps its invariant.                   *)
LEMMA SkillsStep ==
    ASSUME SkillsInv, SkillsNext, terminal = "prompt" => job.pc = "none" PROVE SkillsInv'
<1>a. job \in JobType
    BY DEF SkillsInv
<1>1. ASSUME NEW sub \in {"install", "update"}, NEW flag \in SUBSET ToSet(Providers), runSkillsCommand(sub, flag)
      PROVE  SkillsInv'
    <2> DEFINE pc == IF sub = "update" /\ findInstalledSkillDirs = <<>> THEN "nothing" ELSE "ask"
               targets == IF sub = "install" \/ flag # {} THEN resolveInstallTargets(flag) ELSE findInstalledSkillDirs
    <2>1. job' = [pc |-> pc, sub |-> sub, targets |-> targets, left |-> {}]
        BY <1>1 DEF runSkillsCommand
    <2>2. targets \in Seq(Harnesses) /\ pc \in {"nothing", "ask"}
        BY TargetsOf DEF Harnesses
    <2>3. UNCHANGED <<version, global, skill, harness, torn>>
        BY <1>1 DEF runSkillsCommand, SkillsFrame
    <2> HIDE DEF pc, targets
    <2>4. job' \in JobType /\ job'.pc # "copy"
        BY <2>1, <2>2 DEF JobType, JobPcs
    <2>5. job.pc = "none"
        BY <1>1 DEF runSkillsCommand, Start
    <2> QED  BY <2>3, <2>4, <2>5, SkillsStill DEF SkillsInv
<1>2. CASE NothingInstalled
    BY <1>2, DoneJob, SkillsStill DEF NothingInstalled, SkillsFrame, SkillsInv
<1>3. ASSUME NEW answer, Answer(answer) PROVE SkillsInv'
    <2>1. UNCHANGED <<version, global, skill, harness, torn>> /\ job.pc = "ask"
        BY <1>3 DEF Answer, SkillsFrame
    <2>2. job' \in JobType /\ job'.pc # "copy"
        BY <1>3, <1>a, DoneJob DEF Answer, JobType, JobPcs
    <2> QED  BY <2>1, <2>2, SkillsStill DEF SkillsInv
<1>4. CASE NextTarget
    <2> DEFINE p == Head(job.targets)
               files == SkillFiles[version] \cup IF p = OpenCode THEN {Command} ELSE {}
    <2>1. job.pc = "next" /\ UNCHANGED <<version, global, skill, torn>>
        BY <1>4 DEF NextTarget, SkillsFrame
    <2>2. CASE job.targets = <<>>
        <3>1. Done /\ UNCHANGED harness
            BY <1>4, <2>2 DEF NextTarget
        <3> QED  BY <2>1, <3>1, DoneJob, SkillsStill DEF SkillsInv
    <2>3. CASE job.targets # <<>>
        <3>1. job.targets \in Seq(Harnesses) /\ p \in Harnesses /\ Tail(job.targets) \in Seq(Harnesses)
            BY <1>a, <2>3, HeadTailElements DEF JobType
        <3>2. CASE job' = [job EXCEPT !.targets = Tail(@)] /\ UNCHANGED harness
            <4>1. job' \in JobType /\ job'.pc = "next"
                BY <1>a, <2>1, <3>1, <3>2 DEF JobType
            <4> QED  BY <2>1, <3>2, <4>1, SkillsStill DEF SkillsInv
        <3>3. CASE job' = [job EXCEPT !.pc = "copy", !.left = files] /\ harness' = harness \cup {p}
            <4>1. files \subseteq AnyFiles
                <5>1. SkillFiles[version] \subseteq AnyFiles
                    BY DEF SkillsInv, AnyFiles
                <5>2. Command \in AnyFiles
                    BY DEF AnyFiles
                <5>3. \A f \in files : f \in SkillFiles[version] \/ f = Command
                    OBVIOUS
                <5> HIDE DEF files
                <5> QED  BY <5>1, <5>2, <5>3
            <4>2. SkillFiles[version] \subseteq files /\ files # {}
                BY SkillsAssumption DEF SkillsInv
            <4> HIDE DEF files
            <4>3. job' \in JobType /\ job'.targets = job.targets /\ job'.left = files
                BY <1>a, <3>3, <4>1 DEF JobType, JobPcs
            <4>4. harness' \subseteq Harnesses /\ harness \subseteq harness' /\ Head(job'.targets) \in harness'
                BY <3>1, <3>3, <4>3 DEF SkillsInv
            <4> QED  BY <2>1, <2>3, <4>2, <4>3, <4>4, SkillsStill
        <3> QED  BY <1>4, <2>3, <3>2, <3>3 DEF NextTarget
    <2> QED  BY <2>2, <2>3
<1>5. CASE CopyFile
    BY <1>5, SkillsCopy
<1>6. CASE KillSkills
    <2>1. Done /\ UNCHANGED <<version, global, skill, harness>>
          /\ torn' = IF job.pc = "copy" THEN torn \cup {Head(job.targets)} ELSE torn
        BY <1>6 DEF KillSkills, SkillsFrame
    <2> QED  BY <2>1, DoneJob, SkillsStill DEF SkillsInv
<1> QED  BY <1>1, <1>2, <1>3, <1>4, <1>5, <1>6 DEF SkillsNext

(* A newer package is installed when no command runs.                       *)
LEMMA SkillsUpgrade ==
    ASSUME SkillsInv, job.pc = "none", Upgrade PROVE SkillsInv'
<1>1. /\ version' = version + 1 /\ version + 1 \in DOMAIN SkillFiles
      /\ UNCHANGED <<harness, global, skill, job, torn>>
    BY DEF Upgrade
<1>2. \A p, v : WholeAt(p, v) => WholeAt(p, v)'
    BY <1>1 DEF WholeAt
<1>3. \A v \in 1..version : v \in 1..version'
    BY <1>1 DEF SkillsInv
<1>4. \A p \in Harnesses \ torn' : skill'[p] = {} \/ \E v \in 1..version' : WholeAt(p, v)'
    BY <1>1, <1>2, <1>3 DEF SkillsInv
<1> QED  BY <1>1, <1>3, <1>4 DEF SkillsInv

(* The installer's invariant holds at first.                                *)
LEMMA InitSkills == Init => SkillsInv
<1> SUFFICES ASSUME Init PROVE SkillsInv
    OBVIOUS
<1>1. /\ version = 1 /\ harness \subseteq Harnesses /\ global \subseteq Harnesses
      /\ skill = [p \in Harnesses |-> {}] /\ job = NoJob /\ torn = {}
    BY DEF Init, SkillsInit, Harnesses
<1>2. <<>> \in Seq(Harnesses)
    OBVIOUS
<1> QED  BY <1>1, <1>2, SkillsAssumption DEF SkillsInv, NoJob, JobType, JobPcs

-----------------------------------------------------------------------------
(* The composition: who has the terminal.                                   *)

(* A step of the scaffolder has the terminal, and leaves a state of the     *)
(* schema files.                                                            *)
LEMMA ScaffoldMoves ==
    ASSUME SetupOK, WorkbenchTypeOK, (setup.pc # "none") = (terminal = "scaffold"), ScaffoldNext
    PROVE  /\ UNCHANGED day /\ disk' \in SchemaFiles /\ budget' \in [Happenings -> Nat]
           /\ terminal \in {"prompt", "scaffold"} /\ terminal' \in {"prompt", "scaffold"}
           /\ (setup'.pc # "none") = (terminal' = "scaffold")
<1>t. /\ day \in 0..MaxDay /\ disk \in SchemaFiles /\ budget \in [Happenings -> Nat] /\ DOMAIN setup = DOMAIN NotRun
    BY DEF WorkbenchTypeOK, SchemaFiles, SetupOK, NotRun
<1>f. DOMAIN NotRun = {"pc", "why", "next", "framework", "date", "run"}
    BY DEF NotRun
<1>1. CASE scaffoldProject
    <2>1. UNCHANGED <<day, disk>> /\ terminal = "prompt" /\ terminal' = "scaffold" /\ Spend("scaffold")
        BY <1>1 DEF scaffoldProject, Start, SetupFrame
    <2>2. budget' \in [Happenings -> Nat]
        BY <1>t, <2>1, SpendType DEF Happenings, Tools
    <2>3. setup'.pc = "name"
        <3> DEFINE s == [NotRun EXCEPT !.pc = "name"]
        <3>1. s.pc = "name" /\ DOMAIN s = DOMAIN NotRun
            BY <1>f
        <3>2. setup' = [s EXCEPT !.run = setup.run + 1]
            BY <1>1 DEF scaffoldProject
        <3> HIDE DEF s
        <3> QED  BY <3>1, <3>2, <1>f
    <2> QED  BY <1>t, <2>1, <2>2, <2>3
<1>2. ASSUME NEW why, Leaves(why), setup.pc # "none"
      PROVE  /\ UNCHANGED <<day, disk, budget>> /\ terminal = "scaffold" /\ terminal' = "prompt" /\ setup'.pc = "none"
    BY <1>2, <1>t, <1>f DEF Leaves, End, SetupFrame
<1>3. ASSUME NEW pc, setup' = [setup EXCEPT !.pc = pc], pc # "none", Going, setup.pc # "none"
      PROVE  UNCHANGED <<day, disk, budget, terminal>> /\ terminal = "scaffold" /\ setup'.pc # "none"
    BY <1>3, <1>t, <1>f DEF Going, SetupFrame
<1>4. CASE Cancel \/ WriteFails \/ KillScaffold \/ Install
    <2>1. setup.pc # "none" /\ \E why : Leaves(why)
        BY <1>4 DEF Cancel, WriteFails, KillScaffold, Install
    <2> QED  BY <1>2, <1>t, <2>1
<1>5. CASE ensureEmptyTargetDir
    <2>1. setup.pc # "none" /\ (Leaves("not empty") \/ (setup' = [setup EXCEPT !.pc = "mkdir"] /\ Going))
        BY <1>5 DEF ensureEmptyTargetDir, Goto
    <2> QED  BY <1>2, <1>3, <1>t, <2>1
<1>6. CASE MakeDirectories \/ RunTauriInitializer \/ RunServerInitializer
    <2>1. setup.pc # "none" /\ Going /\ \E pc \in {"tauri", "framework", "write"} : setup' = [setup EXCEPT !.pc = pc]
        BY <1>6 DEF MakeDirectories, RunTauriInitializer, RunServerInitializer, Goto
    <2> QED  BY <1>3, <1>t, <2>1
<1>7. CASE buildRootScaffoldFiles
    <2>1. PICK f \in Frameworks : setup' = [setup EXCEPT !.pc = "write", !.framework = f, !.date = day]
        BY <1>7 DEF buildRootScaffoldFiles
    <2>2. setup.pc = "framework" /\ Going
        BY <1>7 DEF buildRootScaffoldFiles
    <2>3. setup'.pc = "write"
        BY <2>1, <1>t, <1>f
    <2> QED  BY <2>2, <2>3, <1>t DEF Going, SetupFrame
<1>8. CASE WriteFile
    <2> DEFINE pc == CASE setup.next = Len(writeTemplateSubset) -> "server"
                       [] setup.next = Len(Writes) -> "install"
                       [] OTHER -> "write"
    <2>1. setup.pc = "write" /\ setup' = [setup EXCEPT !.next = @ + 1, !.pc = pc]
          /\ UNCHANGED <<day, terminal, budget>>
        BY <1>8 DEF WriteFile
    <2>2. pc # "none"
        OBVIOUS
    <2> HIDE DEF pc
    <2>3. setup'.pc = pc
        BY <2>1, <1>t, <1>f
    <2>4. disk' = [disk EXCEPT !.local = Template] \/ disk' = [disk EXCEPT !.api = Template] \/ disk' = disk
        BY <1>8 DEF WriteFile
    <2>5. disk' \in SchemaFiles
        BY <2>4, <1>t, ScaffoldAssumption DEF SchemaFiles
    <2> QED  BY <1>t, <2>1, <2>2, <2>3, <2>5
<1> QED  BY <1>1, <1>4, <1>5, <1>6, <1>7, <1>8 DEF ScaffoldNext

(* A step of the installer has the terminal, and leaves the schema files    *)
(* alone.                                                                   *)
LEMMA SkillsMoves ==
    ASSUME SkillsInv, WorkbenchTypeOK, (job.pc # "none") = (terminal = "skills"), SkillsNext
    PROVE  /\ UNCHANGED <<day, disk>> /\ budget' \in [Happenings -> Nat]
           /\ terminal \in {"prompt", "skills"} /\ terminal' \in {"prompt", "skills"}
           /\ (job'.pc # "none") = (terminal' = "skills")
<1>t. budget \in [Happenings -> Nat] /\ job \in JobType
    BY DEF WorkbenchTypeOK, SkillsInv
<1>j. DOMAIN job = {"pc", "sub", "targets", "left"}
    BY <1>t DEF JobType
<1>0. UNCHANGED <<day, disk>>
    BY DEF SkillsNext, runSkillsCommand, NothingInstalled, Answer, NextTarget, CopyFile, KillSkills, SkillsFrame
<1>1. ASSUME NEW sub \in {"install", "update"}, NEW flag \in SUBSET ToSet(Providers), runSkillsCommand(sub, flag)
      PROVE  budget' \in [Happenings -> Nat] /\ terminal = "prompt" /\ terminal' = "skills" /\ job'.pc # "none"
    <2>1. terminal = "prompt" /\ terminal' = "skills" /\ Spend("skills") /\ job'.pc # "none"
        BY <1>1 DEF runSkillsCommand, Start
    <2> QED  BY <1>t, <2>1, SpendType DEF Happenings, Tools
<1>2. ASSUME Done, job.pc # "none"
      PROVE  UNCHANGED budget /\ terminal = "skills" /\ terminal' = "prompt" /\ job'.pc = "none"
    BY <1>2, DoneJob DEF Done, End
<1>3. ASSUME UNCHANGED <<terminal, budget>>, job.pc # "none", job'.pc # "none"
      PROVE  UNCHANGED budget /\ terminal = "skills" /\ terminal' = "skills"
    BY <1>3
<1>4. CASE NothingInstalled \/ KillSkills
    BY <1>2, <1>4, <1>t, <1>0 DEF NothingInstalled, KillSkills
<1>5. ASSUME NEW answer, Answer(answer)
      PROVE  Done \/ (UNCHANGED <<terminal, budget>> /\ job'.pc # "none")
    BY <1>5, <1>j DEF Answer
<1>6. ASSUME NEW answer, Answer(answer) PROVE job.pc # "none"
    BY <1>6 DEF Answer
<1>7. CASE NextTarget \/ CopyFile
    <2>1. job.pc # "none"
        BY <1>7 DEF NextTarget, CopyFile
    <2>2. Done \/ (UNCHANGED <<terminal, budget>> /\ job'.pc # "none")
        <3>1. CASE NextTarget
            <4> DEFINE left == SkillFiles[version] \cup IF Head(job.targets) = OpenCode THEN {Command} ELSE {}
            <4>1. \/ Done
                  \/ /\ UNCHANGED <<terminal, budget>>
                     /\ \/ job' = [job EXCEPT !.targets = Tail(@)] /\ job.pc = "next"
                        \/ job' = [job EXCEPT !.pc = "copy", !.left = left]
                BY <3>1 DEF NextTarget
            <4> HIDE DEF left
            <4> QED  BY <4>1, <1>j
        <3>2. CASE CopyFile
            <4>1. PICK f \in job.left :
                     job' = IF job.left = {f} THEN [job EXCEPT !.left = {}, !.pc = "next", !.targets = Tail(@)]
                            ELSE [job EXCEPT !.left = @ \ {f}]
                BY <3>2 DEF CopyFile
            <4>2. job.pc = "copy" /\ UNCHANGED <<terminal, budget>>
                BY <3>2 DEF CopyFile
            <4> QED  BY <4>1, <4>2, <1>j
        <3> QED  BY <1>7, <3>1, <3>2
    <2> QED  BY <1>2, <1>3, <1>t, <1>0, <2>1, <2>2
<1>8. ASSUME NEW answer, Answer(answer)
      PROVE  /\ budget' \in [Happenings -> Nat] /\ terminal \in {"prompt", "skills"} /\ terminal' \in {"prompt", "skills"}
             /\ (job'.pc # "none") = (terminal' = "skills")
    BY <1>8, <1>2, <1>3, <1>5, <1>6, <1>t
<1> QED  BY <1>0, <1>1, <1>4, <1>7, <1>8 DEF SkillsNext

-----------------------------------------------------------------------------
(* Every variable has its type; the two properties that come with it.       *)

Links ==
    /\ (run.pc # "none") = (terminal = "generator")
    /\ (setup.pc # "none") = (terminal = "scaffold")
    /\ (job.pc # "none") = (terminal = "skills")
TypeInv ==
    /\ WorkbenchTypeOK /\ ProjectInv /\ DatesInv /\ WrittenInv /\ SkillsInv /\ GenInv /\ DirType
    /\ Links

(* Who leaves the project alone keeps what the scaffolder knows of it.      *)
LEMMA KeepWritten == ASSUME WrittenInv, UNCHANGED scaffold PROVE WrittenInv'
<1>1. UNCHANGED <<project, setup>>
    BY DEF scaffold
<1> QED  BY <1>1 DEF WrittenInv, GoodFile

(* Who leaves the skills alone keeps their invariant.                       *)
LEMMA KeepSkills == ASSUME SkillsInv, UNCHANGED skills PROVE SkillsInv'
<1>1. UNCHANGED <<version, harness, global, skill, job, torn>>
    BY DEF skills
<1> QED  BY <1>1 DEF SkillsInv, WholeAt

(* Who leaves the process and its files alone keeps their types.            *)
LEMMA KeepGenerator == ASSUME GenInv, DirType, UNCHANGED <<exports, run, generated>> PROVE GenInv' /\ DirType'
BY DEF GenInv, DirType

(* The parts of the invariant hold at first.                                *)
LEMMA InitTypes == Init => TypeInv
<1> SUFFICES ASSUME Init PROVE TypeInv
    OBVIOUS
<1>1. ProjectInv /\ DatesInv /\ SkillsInv
    BY InitProject, InitDates, InitSkills
<1>2. /\ day = 0 /\ terminal = "prompt" /\ budget \in [Happenings -> Nat]
      /\ setup = NotRun /\ job = NoJob /\ run = NoRun /\ exports \in ConfigModules
      /\ generated = [d \in Dirs |-> [n \in 0..MaxDay |-> EmptyDir]]
    BY WorkbenchAssumption, GeneratorAssumption DEF Init, GeneratorInit, SkillsInit
<1>3. disk \in SchemaFiles
    <2>1. (\E s \in Schemas : disk = [local |-> s, api |-> s]) \/ disk = [local |-> NoFile, api |-> NoFile]
        BY DEF Init
    <2> QED  BY <2>1, FilePair
<1>4. WorkbenchTypeOK
    BY <1>2, <1>3, WorkbenchAssumption DEF WorkbenchTypeOK, SchemaFiles
<1>5. WrittenInv
    BY <1>2, WorkbenchAssumption DEF WrittenInv, NotRun
<1>6. run.pc = "none" /\ setup.pc = "none" /\ job.pc = "none"
    BY <1>2 DEF NoRun, NotRun, NoJob
<1>7. GenInv
    BY <1>2, <1>6, NoRunType DEF GenInv, WritePcs
<1>8. DirType
    BY <1>2 DEF DirType, EmptyDir, Kinds
<1> QED  BY <1>1, <1>2, <1>4, <1>5, <1>6, <1>7, <1>8 DEF TypeInv, Links

(* Every step keeps them.                                                   *)
LEMMA NextTypes == TypeInv /\ [Next]_vars => TypeInv'
<1> SUFFICES ASSUME TypeInv, [Next]_vars PROVE TypeInv'
    OBVIOUS
<1>0. ProjectInv' /\ DatesInv'
    BY NextProject, NextDates DEF TypeInv
<1>t. /\ WorkbenchTypeOK /\ SetupOK /\ DatesInv /\ WrittenInv /\ SkillsInv /\ GenInv /\ DirType /\ Links
      /\ day \in 0..MaxDay /\ disk \in SchemaFiles /\ budget \in [Happenings -> Nat]
    BY DEF TypeInv, ProjectInv, WorkbenchTypeOK, SchemaFiles
<1>1. CASE Midnight /\ UNCHANGED <<generator, scaffold, skills>>
    <2>1. day' \in 0..MaxDay /\ UNCHANGED <<disk, terminal>> /\ budget' \in [Happenings -> Nat]
        <3>1. budget' \in [Happenings -> Nat]
            BY <1>1, <1>t, SpendType DEF Midnight, Happenings
        <3> QED  BY <1>1, <1>t, <3>1, WorkbenchAssumption DEF Midnight
    <2>2. WrittenInv' /\ SkillsInv' /\ GenInv' /\ DirType'
        BY <1>1, <1>t, KeepWritten, KeepSkills, KeepGenerator DEF generator
    <2>3. WorkbenchTypeOK' /\ Links'
        BY <1>1, <1>t, <2>1 DEF WorkbenchTypeOK, Links, generator, scaffold, skills
    <2> QED  BY <1>0, <2>2, <2>3 DEF TypeInv
<1>2. CASE Edit
    <2>1. /\ GeneratorEdited /\ EditFile /\ UNCHANGED <<exports, generated, last, checked, scaffold, skills>>
          /\ UNCHANGED <<day, terminal>> /\ Spend("edit")
        BY <1>2 DEF Edit, EditFile
    <2>2. run' \in RunType /\ run'.pc = run.pc /\ run'.command = run.command /\ run'.entries = run.entries
          /\ run'.schema = run.schema
        BY <1>t, <2>1, EditedRun DEF GenInv
    <2>3. budget' \in [Happenings -> Nat]
        BY <1>t, <2>1, SpendType DEF Happenings
    <2>4. disk' \in SchemaFiles
        <3>1. PICK f \in {"local", "api"}, content \in Edited : disk' = [disk EXCEPT ![f] = content]
            BY <2>1 DEF EditFile
        <3> QED  BY <3>1, <1>t, WorkbenchAssumption DEF SchemaFiles
    <2>5. GenInv' /\ DirType'
        BY <1>t, <2>1, <2>2 DEF GenInv, DirType
    <2>6. WrittenInv' /\ SkillsInv'
        BY <1>t, <2>1, KeepWritten, KeepSkills
    <2>7. WorkbenchTypeOK' /\ Links'
        BY <1>t, <2>1, <2>2, <2>3, <2>4 DEF WorkbenchTypeOK, Links, SchemaFiles, scaffold, skills
    <2> QED  BY <1>0, <2>5, <2>6, <2>7 DEF TypeInv
<1>3. CASE StartOver
    <2>1. /\ terminal = "prompt" /\ exports' = NoExports /\ disk' = [local |-> NoFile, api |-> NoFile]
          /\ setup' = [setup EXCEPT !.why = "none"]
          /\ generated' = [d \in Dirs |-> [n \in 0..MaxDay |-> EmptyDir]]
          /\ UNCHANGED <<day, terminal, budget, run, skills>>
        BY <1>3 DEF StartOver
    <2>2. disk' \in SchemaFiles
        BY <2>1, FilePair
    <2>3. GenInv' /\ DirType'
        BY <1>t, <2>1, ToolchainAssumption DEF GenInv, DirType, EmptyDir, Kinds
    <2>4. setup'.pc = setup.pc /\ setup'.why = "none" /\ setup'.next = setup.next /\ setup'.date = setup.date
        BY <1>t, <2>1 DEF SetupOK
    <2>5. setup.pc = "none"
        BY <1>t, <2>1 DEF Links
    <2>6. WrittenInv'
        BY <1>t, <2>4, <2>5 DEF WrittenInv
    <2>7. SkillsInv' /\ UNCHANGED job
        BY <1>t, <2>1, KeepSkills DEF skills
    <2>8. WorkbenchTypeOK' /\ Links'
        BY <1>t, <2>1, <2>2, <2>4, <2>7 DEF WorkbenchTypeOK, Links, SchemaFiles
    <2> QED  BY <1>0, <2>3, <2>6, <2>7, <2>8 DEF TypeInv
<1>4. CASE GeneratorNext /\ UNCHANGED <<scaffold, skills>>
    <2>1. /\ GenInv' /\ DirType'
          /\ UNCHANGED <<day, disk, exports>> /\ budget' \in [Happenings -> Nat]
          /\ terminal \in {"prompt", "generator"} /\ terminal' \in {"prompt", "generator"}
          /\ (run'.pc # "none") = (terminal' = "generator")
        BY <1>4, <1>t, GeneratorMoves DEF Links
    <2>2. WrittenInv' /\ SkillsInv'
        BY <1>t, <1>4, KeepWritten, KeepSkills
    <2>3. setup'.pc = setup.pc /\ job'.pc = job.pc
        BY <1>4 DEF scaffold, skills
    <2>4. WorkbenchTypeOK' /\ Links'
        BY <1>t, <2>1, <2>3 DEF WorkbenchTypeOK, Links, Tools
    <2> QED  BY <1>0, <2>1, <2>2, <2>4 DEF TypeInv
<1>5. CASE ScaffoldStep
    <2>1. /\ UNCHANGED day /\ disk' \in SchemaFiles /\ budget' \in [Happenings -> Nat]
          /\ terminal \in {"prompt", "scaffold"} /\ terminal' \in {"prompt", "scaffold"}
          /\ (setup'.pc # "none") = (terminal' = "scaffold")
        BY <1>5, <1>t, ScaffoldMoves DEF Links, ScaffoldStep
    <2>2. WrittenInv'
        BY <1>5, <1>t, ScaffoldWritten DEF ScaffoldStep
    <2>3. exports' \in ConfigModules /\ UNCHANGED <<generated, run, last, checked, skills>>
        BY <1>5, <1>t, ToolchainAssumption DEF ScaffoldStep, GenInv
    <2>4. GenInv' /\ DirType'
        BY <1>t, <2>3 DEF GenInv, DirType
    <2>5. SkillsInv' /\ job' = job
        BY <1>t, <2>3, KeepSkills DEF skills
    <2>6. WorkbenchTypeOK' /\ Links'
        BY <1>t, <2>1, <2>3, <2>5 DEF WorkbenchTypeOK, Links, Tools, SchemaFiles
    <2> QED  BY <1>0, <2>2, <2>4, <2>5, <2>6 DEF TypeInv
<1>6. CASE SkillsNext /\ UNCHANGED <<generator, scaffold>>
    <2>1. /\ UNCHANGED <<day, disk>> /\ budget' \in [Happenings -> Nat]
          /\ terminal \in {"prompt", "skills"} /\ terminal' \in {"prompt", "skills"}
          /\ (job'.pc # "none") = (terminal' = "skills")
        BY <1>6, <1>t, SkillsMoves DEF Links
    <2>2. SkillsInv'
        BY <1>6, <1>t, SkillsStep DEF Links
    <2>3. WrittenInv' /\ GenInv' /\ DirType' /\ UNCHANGED <<run, setup>>
        BY <1>6, <1>t, KeepWritten, KeepGenerator DEF generator, scaffold
    <2>4. WorkbenchTypeOK' /\ Links'
        BY <1>t, <2>1, <2>3 DEF WorkbenchTypeOK, Links, Tools
    <2> QED  BY <1>0, <2>2, <2>3, <2>4 DEF TypeInv
<1>7. CASE Upgrade /\ UNCHANGED <<generator, scaffold>>
    <2>1. UNCHANGED <<day, disk, terminal, budget>> /\ terminal = "prompt" /\ UNCHANGED job
        BY <1>7 DEF Upgrade, workbench
    <2>2. SkillsInv'
        BY <1>7, <1>t, <2>1, SkillsUpgrade DEF Links
    <2>3. WrittenInv' /\ GenInv' /\ DirType' /\ UNCHANGED <<run, setup>>
        BY <1>7, <1>t, KeepWritten, KeepGenerator DEF generator, scaffold
    <2>4. WorkbenchTypeOK' /\ Links'
        BY <1>t, <2>1, <2>3 DEF WorkbenchTypeOK, Links
    <2> QED  BY <1>0, <2>2, <2>3, <2>4 DEF TypeInv
<1>8. CASE UNCHANGED vars
    <2>1. UNCHANGED <<day, disk, terminal, budget, exports, generated, run, scaffold, skills, setup, job>>
        BY <1>8 DEF vars, workbench, generator, scaffold, skills
    <2>2. WrittenInv' /\ SkillsInv' /\ GenInv' /\ DirType'
        BY <1>t, <2>1, KeepWritten, KeepSkills, KeepGenerator
    <2>3. WorkbenchTypeOK' /\ Links'
        BY <1>t, <2>1 DEF WorkbenchTypeOK, Links
    <2> QED  BY <1>0, <2>2, <2>3 DEF TypeInv
<1> QED  BY <1>1, <1>2, <1>3, <1>4, <1>5, <1>6, <1>7, <1>8 DEF Next

(* They hold of every behaviour.                                            *)
LEMMA TypesHold == Spec => []TypeInv
BY InitTypes, NextTypes, PTL DEF Spec

(* Every variable of the toolchain keeps its type (cli/generator.ts,        *)
(* cli/skills.ts, create-baresync's scaffold.ts), and only the command that *)
(* has the terminal runs.                                                   *)
THEOREM TypesOK == Spec => []TypeOK
<1>1. TypeInv => TypeOK
    <2> SUFFICES ASSUME TypeInv PROVE TypeOK
        OBVIOUS
    <2>1. GeneratorTypeOK
        <3>1. RunTypeOK
            BY DEF TypeInv, GenInv, RunType, RunPcs, WritePcs, RunTypeOK, SchemaFiles
        <3>2. \A d \in Dirs, n \in 0..MaxDay :
                 /\ DOMAIN generated[d][n] \subseteq {"whole", "contract", "order", "manifest", "api", "local"}
                 /\ generated[d][n].whole \in Kinds \cup {"edited"}
            BY DEF TypeInv, DirType, FileNames
        <3> QED  BY <3>1, <3>2 DEF GeneratorTypeOK, TypeInv, Links
    <2>2. ScaffoldTypeOK
        BY WritesAre DEF ScaffoldTypeOK, TypeInv, WrittenInv, ProjectInv, SetupOK, SetupPcs, Links
    <2>3. SkillsTypeOK
        BY DEF SkillsTypeOK, TypeInv, SkillsInv, JobType, JobPcs, Links, Harnesses
    <2> QED  BY <2>1, <2>2, <2>3 DEF TypeOK, TypeInv
<1> QED  BY <1>1, TypesHold, PTL

(* A skill that the installer does not mark as torn is the whole set of     *)
(* files of one version, for any harnesses, versions and files              *)
(* (cli/skills.ts).                                                         *)
THEOREM CopiesAreWhole == Spec => []SkillsAreWhole
<1>1. TypeInv => SkillsAreWhole
    BY DEF TypeInv, SkillsInv, WholeAt, SkillsAreWhole, Harnesses
<1> QED  BY <1>1, TypesHold, PTL

(* SuccessIsWhole for any frameworks, leavings of the initializers and      *)
(* days: the scaffolder never says "Success!" over a project that lacks one *)
(* of its files (scaffold.ts).                                              *)
THEOREM SuccessMeansWhole == Spec => []SuccessIsWhole
<1>1. TypeInv => SuccessIsWhole
    <2> SUFFICES ASSUME WrittenInv, setup.why = "success", NEW p \in PathsWritten PROVE GoodFile(p)
        BY DEF TypeInv, SuccessIsWhole, GoodFile
    <2>1. PICK i \in DOMAIN Writes : p = Writes[i].path
        BY DEF PathsWritten
    <2>2. i \in 1..32
        BY <2>1, WritesAre
    <2> QED  BY <2>1, <2>2 DEF WrittenInv
<1> QED  BY <1>1, TypesHold, PTL

-----------------------------------------------------------------------------
(* The files of a dated directory, and what a command has judged so far.    *)

Dated == generated[Entry.dir][run.today]
ContractFile == [version |-> run.today, tables |-> run.schema.local,
                 paired |-> Entry.kind = "paired", orders |-> Orders]
ManifestFile == [contractVersion |-> run.today, tables |-> run.schema.local, orders |-> Orders]
WrittenSoFar ==
    /\ run.pc \in {"order", "manifest", "api", "local", "format"} =>
          "contract" \in DOMAIN Dated /\ Dated.contract = ContractFile
    /\ run.pc \in {"manifest", "api", "local", "format"} => "order" \in DOMAIN Dated /\ Dated.order = Orders
    /\ run.pc \in {"api", "local"} =>
          "manifest" \in DOMAIN Dated /\ Dated.manifest = ManifestFile /\ Entry.kind = "paired"
    /\ run.pc \in WritePcs /\ Entry.kind = "paired" =>
          /\ run.loaded /\ run.schema.api \in Schemas
          /\ "throws" \notin PairedOutcome[run.schema.local][run.schema.api]
    /\ (run.pc = "local" \/ (run.pc = "format" /\ Entry.kind = "paired")) /\ ~ run.edited =>
          "api" \in DOMAIN Dated /\ Dated.api = run.schema.api
OneState ==
    run.pc # "none" /\ ~ run.edited =>
        /\ disk = run.from /\ run.schema.local \in {NoFile, run.from.local}
        /\ run.loaded => run.schema = run.from
DirInv == WrittenSoFar /\ OneState /\ DirectoryAgrees

RunEntries == resolveLoadedConfigEntries(run.output)
ConfigThrowsOn(schema) ==
    \E e \in {exports.syncGeneratorConfig, exports.default, exports.contract} :
        \/ e.kind = "paired" /\ NoFile \in {schema.local, schema.api}
        \/ e.kind \in {"config", "contract"} /\ "throws" \in Outcome(e.kind, schema)
Unloadable(schema, output) == ConfigThrowsOn(schema) \/ resolveLoadedConfigEntries(output) = <<>>
BlockingOf(strict) == IF strict THEN {"error", "warning"} ELSE {"error"}
Passes(schema, output, strict) ==
    /\ ~ Unloadable(schema, output)
    /\ \A e \in ToSet(resolveLoadedConfigEntries(output)) :
          "throws" \notin Outcome(e.kind, schema) /\ Outcome(e.kind, schema) \cap BlockingOf(strict) = {}
Refused(schema, output, strict) ==
    \/ Unloadable(schema, output)
    \/ \E e \in ToSet(resolveLoadedConfigEntries(output)) :
          \/ Outcome(e.kind, schema) \cap {"throws", "error"} # {}
          \/ strict /\ "warning" \in Outcome(e.kind, schema)
InProject ==
    checked.passed \/ last.command # "none" \/ run.pc # "none" =>
        DOMAIN project # {} /\ setup.pc \in {"none", "name"}
Judged ==
    /\ run.pc = "failed" => Unloadable(run.from, run.output)
    /\ run.pc \in {"load"} \cup WritePcs => ~ Unloadable(run.from, run.output)
    /\ run.pc # "none" => ToSet(run.entries) \subseteq ToSet(RunEntries)
    /\ run.pc \in {"load"} \cup WritePcs =>
          \A e \in ToSet(RunEntries) : e.kind # "paired" => run.schema.local = run.from.local /\ run.from.local # NoFile
    /\ run.pc = "load" /\ ~ run.edited /\ run.command \in {"check", "doctor"} =>
          \A e \in ToSet(RunEntries) :
             \/ e \in ToSet(run.entries)
             \/ /\ "throws" \notin Outcome(e.kind, run.from)
                /\ Outcome(e.kind, run.from) \subseteq run.found
Results ==
    /\ checked.passed => Passes(checked.from, checked.output, checked.strict)
    /\ last.command = "generate" /\ last.why \in {"throws", "diagnostics"} /\ ~ last.edited =>
          Refused(last.from, last.output, last.strict)
CheckInv == InProject /\ Judged /\ Results

TemplateEntry == [kind |-> "paired", dir |-> TemplateExports.default.dir]
ImportsInv ==
    /\ exports = TemplateExports /\ run.output = NoDir /\ run.pc \in {"load"} \cup WritePcs =>
          run.entries = <<TemplateEntry>>
    /\ /\ exports = TemplateExports /\ last.command = "generate" /\ last.why = "ok"
       /\ last.output = NoDir /\ ~ last.edited
       => /\ last.began \in Int /\ last.ended \in Int
          /\ \E n \in 0..MaxDay :
                /\ last.began <= n /\ n <= last.ended
                /\ {"contract", "order", "api"} \subseteq DOMAIN generated[TemplateExports.default.dir][n]

-----------------------------------------------------------------------------
(* A dated directory is written file after file from the schemas imported,  *)
(* and is then marked whole: where no file changed under the command, the   *)
(* snapshots are of the schemas that the contract was paired from.          *)

(* Where nothing was edited under a command, the schemas it has imported    *)
(* are those on the disk when it began.                                     *)
LEMMA ImportedFrom ==
    ASSUME GenInv, disk \in SchemaFiles, OneState, run.pc = "load", ~ run.edited
    PROVE  /\ Schema.local \in {NoFile, run.from.local}
           /\ run.loaded \/ Entry.kind = "paired" => Schema = run.from
<1>1. disk = run.from /\ run.schema.local \in {NoFile, run.from.local} /\ (run.loaded => run.schema = run.from)
    BY DEF OneState
<1>2. run.from = [local |-> run.from.local, api |-> run.from.api]
    BY <1>1 DEF SchemaFiles
<1>3. CASE run.loaded \/ Entry.kind # "paired"
    <2>1. Schema = run.schema
        BY <1>3 DEF Schema, Imported
    <2> QED  BY <1>1, <1>3, <2>1
<1>4. CASE ~ run.loaded /\ Entry.kind = "paired"
    <2>1. Schema = [local |-> IF run.schema.local # NoFile THEN run.schema.local ELSE disk.local, api |-> disk.api]
        BY <1>4 DEF Schema, Imported
    <2>2. Schema = [local |-> run.from.local, api |-> run.from.api]
        BY <2>1, <1>1
    <2> QED  BY <1>2, <2>2
<1> QED  BY <1>3, <1>4

(* A dated directory is written by one more file.                           *)
LEMMA DirWrite ==
    ASSUME GenInv, DatesInv, disk \in SchemaFiles, DirInv, Writing
    PROVE  DirInv'
<1>1. PICK files, content, next : WriteNext(files, content, next) /\ Write(files, content, next)
    BY DEF Writing
<1> DEFINE dir == Entry.dir
           today == run.today
           old == generated[dir][today]
           new == generated'[dir][today]
           kind == Entry.kind
<1>2. /\ run.pc \in WritePcs /\ next \in WritePcs /\ files \subseteq FileNames
      /\ run' = [run EXCEPT !.pc = next] /\ UNCHANGED <<day, disk, exports>>
      /\ dir \in Dirs /\ today \in 0..MaxDay
      /\ \A d \in Dirs, n \in 0..MaxDay : d # dir \/ n # today => generated'[d][n] = generated[d][n]
      /\ DOMAIN new = {"whole"} \cup files \cup DOMAIN old
      /\ new.whole = Wholeness(next)
      /\ \A f \in files : new[f] = content
      /\ \A f \in FileNames \ files : new[f] = IF f \in DOMAIN old THEN old[f] ELSE new[f]
    BY <1>1, WriteRun
<1>3. /\ run'.pc = next /\ run'.entries = run.entries /\ run'.schema = run.schema /\ run'.loaded = run.loaded
      /\ run'.from = run.from /\ run'.edited = run.edited /\ run'.today = today
    BY <1>2, PcRun DEF GenInv, RunPcs
<1>4. Entry' = Entry /\ Orders' = Orders /\ ContractFile' = ContractFile /\ ManifestFile' = ManifestFile
    <2>1. Entry' = Entry /\ Orders' = Orders
        BY <1>3 DEF Entry, Orders
    <2> QED  BY <1>3, <2>1 DEF ContractFile, ManifestFile
<1>5. Dated = old /\ Dated' = new
    BY <1>3, <1>4 DEF Dated
<1>6. OneState'
    BY <1>2, <1>3 DEF DirInv, OneState, WritePcs
<1>7. \A f \in FileNames : f \in DOMAIN old /\ f \notin files => f \in DOMAIN new /\ new[f] = old[f]
    BY <1>2
<1>8. WrittenSoFar /\ OneState /\ DirectoryAgrees
    BY DEF DirInv
<1>p. kind = "paired" => /\ run.loaded /\ run.schema.api \in Schemas
                         /\ "throws" \notin PairedOutcome[run.schema.local][run.schema.api]
    BY <1>2, <1>8 DEF WrittenSoFar
<1>n. /\ "contract" \in FileNames /\ "order" \in FileNames /\ "manifest" \in FileNames
      /\ "api" \in FileNames /\ "local" \in FileNames
    BY DEF FileNames
<1>9. ASSUME WrittenSoFar',
             next = "format" =>
                /\ new.contract.version = today /\ new.manifest.contractVersion = today
                /\ new.manifest.tables = new.contract.tables
                /\ new.order = new.contract.orders /\ new.manifest.orders = new.order
                /\ kind = "paired" /\ ~ run.edited =>
                      new.local = new.contract.tables /\ "throws" \notin PairedOutcome[new.local][new.api]
      PROVE  DirInv'
    <2>w. /\ Wholeness(next) # "none" => next = "format"
          /\ Wholeness(next) = "paired" => kind = "paired" /\ ~ run.edited
        BY DEF Wholeness
    <2>1. DirectoryAgrees'
        <3> SUFFICES ASSUME NEW d \in Dirs, NEW n \in 0..MaxDay, generated'[d][n].whole # "none"
                     PROVE  LET dated == generated'[d][n]
                            IN  /\ dated.contract.version = n /\ dated.manifest.contractVersion = n
                                /\ dated.manifest.tables = dated.contract.tables
                                /\ dated.order = dated.contract.orders /\ dated.manifest.orders = dated.order
                                /\ dated.whole = "paired" =>
                                      /\ dated.local = dated.contract.tables
                                      /\ "throws" \notin PairedOutcome[dated.local][dated.api]
            BY DEF DirectoryAgrees
        <3>1. CASE d = dir /\ n = today
            <4>1. generated'[d][n] = new /\ new.whole = Wholeness(next)
                BY <1>2, <3>1
            <4> HIDE DEF new
            <4> QED  BY <1>9, <2>w, <3>1, <4>1
        <3>2. CASE d # dir \/ n # today
            BY <1>2, <1>8, <3>2 DEF DirectoryAgrees
        <3> QED  BY <3>1, <3>2
    <2> QED  BY <1>6, <1>9, <2>1 DEF DirInv
<1> HIDE DEF dir, today, old, new
<1>10. CASE run.pc = "contract"
    <2>1. files = {"contract"} /\ next = "order" /\ content = ContractFile
        BY <1>1, <1>10 DEF WriteNext, ContractFile
    <2>2. "contract" \in DOMAIN new /\ new.contract = ContractFile
        BY <1>2, <2>1
    <2>3. WrittenSoFar'
        BY <1>3, <1>4, <1>5, <1>p, <2>1, <2>2 DEF WrittenSoFar, kind
    <2> QED  BY <1>9, <2>1, <2>3
<1>11. CASE run.pc = "order"
    <2>1. files = {"order"} /\ next = "manifest" /\ content = Orders
        BY <1>1, <1>11 DEF WriteNext
    <2>2. "order" \in DOMAIN new /\ new.order = Orders
        BY <1>2, <2>1
    <2>3. "contract" \in DOMAIN new /\ new.contract = ContractFile
        BY <1>5, <1>7, <1>8, <1>n, <1>11, <2>1 DEF WrittenSoFar
    <2>4. WrittenSoFar'
        BY <1>3, <1>4, <1>5, <1>p, <2>1, <2>2, <2>3 DEF WrittenSoFar, kind
    <2> QED  BY <1>9, <2>1, <2>4
<1>12. CASE run.pc = "manifest"
    <2>1. files = {"manifest"} /\ next = (IF kind = "paired" THEN "api" ELSE "format") /\ content = ManifestFile
        BY <1>1, <1>12 DEF WriteNext, ManifestFile, kind
    <2>2. "manifest" \in DOMAIN new /\ new.manifest = ManifestFile
        BY <1>2, <2>1
    <2>3. "contract" \in DOMAIN new /\ new.contract = ContractFile /\ "order" \in DOMAIN new /\ new.order = Orders
        BY <1>5, <1>7, <1>8, <1>n, <1>12, <2>1 DEF WrittenSoFar
    <2>4. WrittenSoFar'
        BY <1>3, <1>4, <1>5, <1>p, <2>1, <2>2, <2>3 DEF WrittenSoFar, kind
    <2>5. next = "format" => kind # "paired"
        BY <2>1
    <2> QED  BY <1>9, <2>2, <2>3, <2>4, <2>5 DEF ContractFile, ManifestFile, today
<1>13. CASE run.pc = "api"
    <2>1. files = (IF disk.api = NoFile THEN {} ELSE {"api"}) /\ next = "local" /\ content = disk.api
        BY <1>1, <1>13 DEF WriteNext
    <2>2. /\ "contract" \in DOMAIN new /\ new.contract = ContractFile /\ "order" \in DOMAIN new /\ new.order = Orders
          /\ "manifest" \in DOMAIN new /\ new.manifest = ManifestFile /\ kind = "paired"
        BY <1>5, <1>7, <1>8, <1>n, <1>13, <2>1 DEF WrittenSoFar, kind
    <2>3. ~ run.edited => "api" \in DOMAIN new /\ new.api = run.schema.api
        <3>1. ~ run.edited => disk.api \in Schemas /\ disk.api = run.schema.api
            BY <1>8, <1>13, <1>p, <2>2 DEF OneState
        <3> QED  BY <1>2, <2>1, <3>1, WorkbenchAssumption
    <2>4. WrittenSoFar'
        BY <1>3, <1>4, <1>5, <1>p, <2>1, <2>2, <2>3 DEF WrittenSoFar, kind
    <2> QED  BY <1>9, <2>1, <2>4
<1>14. CASE run.pc = "local"
    <2>1. files = (IF disk.local = NoFile THEN {} ELSE {"local"}) /\ next = "format" /\ content = disk.local
        BY <1>1, <1>14 DEF WriteNext
    <2>2. /\ "contract" \in DOMAIN new /\ new.contract = ContractFile /\ "order" \in DOMAIN new /\ new.order = Orders
          /\ "manifest" \in DOMAIN new /\ new.manifest = ManifestFile /\ kind = "paired"
        BY <1>5, <1>7, <1>8, <1>n, <1>14, <2>1 DEF WrittenSoFar, kind
    <2>3. ~ run.edited => "api" \in DOMAIN new /\ new.api = run.schema.api
        BY <1>5, <1>7, <1>8, <1>n, <1>14, <2>1 DEF WrittenSoFar
    <2>4. ~ run.edited => new.local = run.schema.local
        <3>1. ~ run.edited => disk.local = run.schema.local
            BY <1>8, <1>14, <1>p, <2>2 DEF OneState
        <3>2. run.schema.local \in Schemas
            BY <1>2 DEF GenInv, TableOrder
        <3> QED  BY <1>2, <2>1, <3>1, <3>2, WorkbenchAssumption
    <2>5. WrittenSoFar'
        BY <1>3, <1>4, <1>5, <1>p, <2>1, <2>2, <2>3 DEF WrittenSoFar, kind
    <2> QED  BY <1>9, <1>p, <2>2, <2>3, <2>4, <2>5 DEF ContractFile, ManifestFile, today
<1>15. run.pc # "format"
    BY <1>1 DEF WriteNext
<1> QED  BY <1>2, <1>10, <1>11, <1>12, <1>13, <1>14, <1>15 DEF WritePcs

(* A step of the generator keeps the directories right.                     *)
LEMMA DirStep ==
    ASSUME GenInv, DatesInv, day \in 0..MaxDay, disk \in SchemaFiles, DirInv, GeneratorNext
    PROVE  DirInv'
<1>1. ASSUME NEW command \in {"generate", "check", "doctor"}, NEW strict \in BOOLEAN, NEW output \in Outputs,
             Invoke(command, strict, output)
      PROVE  DirInv'
    <2>1. /\ run'.pc = IF ConfigThrows \/ resolveLoadedConfigEntries(output) = <<>> THEN "failed" ELSE "load"
          /\ run'.from = disk /\ run'.loaded = FALSE
          /\ run'.schema = [local |-> IF CachedByConfig THEN disk.local ELSE NoFile, api |-> NoFile]
        BY <1>1, InvokeRun
    <2>2. UNCHANGED <<disk, generated>>
        BY <1>1 DEF Invoke
    <2>3. run'.pc \in {"failed", "load"} /\ run'.schema.local \in {NoFile, disk.local}
        BY <2>1
    <2> QED  BY <2>1, <2>2, <2>3 DEF DirInv, WrittenSoFar, OneState, DirectoryAgrees, WritePcs
<1>2. ASSUME NEW why, Ends(why) PROVE DirInv'
    <2>1. run'.pc = "none" /\ UNCHANGED generated
        BY <1>2, FinishRun DEF Ends
    <2> QED  BY <2>1 DEF DirInv, WrittenSoFar, OneState, DirectoryAgrees, WritePcs
<1>3. CASE NextEntry
    <2>0. run.pc = "load" /\ (run.loaded \/ Entry.kind = "paired") \in BOOLEAN
        BY <1>3 DEF NextEntry, GenInv, RunType
    <2>1. /\ run'.pc = "load" /\ run'.schema = Schema /\ run'.loaded = (run.loaded \/ Entry.kind = "paired")
          /\ run'.from = run.from /\ run'.edited = run.edited /\ UNCHANGED <<disk, generated>>
        BY <1>3, <2>0, NextEntryRun DEF NextEntry, RunFrame
    <2>2. OneState'
        BY <2>0, <2>1, ImportedFrom DEF OneState, DirInv
    <2> QED  BY <2>1, <2>2 DEF DirInv, WrittenSoFar, DirectoryAgrees, WritePcs
<1>4. CASE NextFormat
    <2>1. /\ run'.pc = "load" /\ run'.schema = run.schema /\ run'.loaded = run.loaded /\ run.pc = "format"
          /\ run'.from = run.from /\ run'.edited = run.edited /\ UNCHANGED <<disk, generated>>
        BY <1>4, FormatRun DEF NextFormat, RunFrame
    <2> QED  BY <2>1 DEF DirInv, WrittenSoFar, OneState, DirectoryAgrees, WritePcs
<1>5. CASE Accept
    <2>1. /\ run'.pc = "contract" /\ run'.entries = run.entries /\ run'.schema = Schema
          /\ run'.loaded = (run.loaded \/ Entry.kind = "paired") /\ run'.from = run.from
          /\ run'.edited = run.edited /\ run.pc = "load" /\ "throws" \notin Found
        BY <1>5, AcceptRun
    <2>2. UNCHANGED <<disk, generated>>
        BY <1>5 DEF Accept, GeneratorFrame
    <2>3. OneState'
        BY <2>1, <2>2, ImportedFrom DEF OneState, DirInv
    <2>4. Entry.kind = "paired" =>
             Schema.api \in Schemas /\ "throws" \notin PairedOutcome[Schema.local][Schema.api]
        <3>1. Entry.kind = "paired" => Schema.api \in Schemas
            BY <2>1, FoundType, OutcomeOf DEF Found
        <3>2. Entry.kind = "paired" /\ NoFile \in {Schema.local, Schema.api} => "throws" \in Found
            BY DEF Found, Outcome
        <3> QED  BY <2>1, <3>1, <3>2 DEF Found, Outcome
    <2>5. Entry' = Entry
        BY <2>1 DEF Entry
    <2>6. WrittenSoFar'
        BY <2>1, <2>4, <2>5 DEF WrittenSoFar
    <2> QED  BY <2>2, <2>3, <2>6 DEF DirInv, DirectoryAgrees
<1>6. CASE Writing
    BY <1>6, DirWrite
<1> QED  BY <1>1, <1>2, <1>3, <1>4, <1>5, <1>6, GeneratorCases

(* There are no dated directories at first.                                 *)
LEMMA InitDir == Init => DirInv
<1> SUFFICES ASSUME Init PROVE DirInv
    OBVIOUS
<1>1. run = NoRun /\ generated = [d \in Dirs |-> [n \in 0..MaxDay |-> EmptyDir]]
    BY DEF Init, GeneratorInit
<1>2. run.pc = "none"
    BY <1>1 DEF NoRun
<1> QED  BY <1>1, <1>2 DEF DirInv, WrittenSoFar, OneState, DirectoryAgrees, WritePcs, EmptyDir

(* Every step does.                                                         *)
LEMMA NextDir == TypeInv /\ DirInv /\ [Next]_vars => DirInv'
<1> SUFFICES ASSUME TypeInv, DirInv, [Next]_vars PROVE DirInv'
    OBVIOUS
<1>t. /\ GenInv /\ DatesInv /\ Links /\ run \in RunType /\ day \in 0..MaxDay /\ disk \in SchemaFiles
    BY DEF TypeInv, GenInv, WorkbenchTypeOK, SchemaFiles
<1>1. CASE GeneratorNext
    BY <1>1, <1>t, DirStep
<1>2. ASSUME UNCHANGED <<run, generated>>, run.pc = "none" \/ UNCHANGED disk PROVE DirInv'
    <2>1. WrittenSoFar'
        BY <1>2 DEF DirInv, WrittenSoFar, Dated, Entry, ContractFile, ManifestFile, Orders
    <2>2. OneState' /\ DirectoryAgrees'
        BY <1>2 DEF DirInv, OneState, DirectoryAgrees
    <2> QED  BY <2>1, <2>2 DEF DirInv
<1>3. CASE Edit
    <2>1. /\ run'.pc = run.pc /\ run'.entries = run.entries /\ run'.schema = run.schema
          /\ run'.loaded = run.loaded /\ run'.from = run.from /\ run'.today = run.today
          /\ run'.edited = (run.edited \/ run.pc # "none")
        BY <1>3, <1>t, EditedRun DEF Edit
    <2>2. UNCHANGED generated
        BY <1>3 DEF Edit
    <2>3. Entry' = Entry /\ Orders' = Orders /\ Dated' = Dated
        BY <2>1, <2>2 DEF Entry, Orders, Dated
    <2>4. ContractFile' = ContractFile /\ ManifestFile' = ManifestFile
        BY <2>1, <2>3 DEF ContractFile, ManifestFile
    <2>5. WrittenSoFar'
        BY <2>1, <2>3, <2>4 DEF DirInv, WrittenSoFar, WritePcs
    <2>6. OneState'
        BY <2>1 DEF OneState
    <2> QED  BY <2>2, <2>5, <2>6 DEF DirInv, DirectoryAgrees
<1>4. CASE StartOver
    <2>1. /\ UNCHANGED run /\ terminal = "prompt"
          /\ generated' = [d \in Dirs |-> [n \in 0..MaxDay |-> EmptyDir]]
        BY <1>4 DEF StartOver
    <2>2. run'.pc = "none"
        BY <1>t, <2>1 DEF Links
    <2> QED  BY <2>1, <2>2 DEF DirInv, WrittenSoFar, OneState, DirectoryAgrees, WritePcs, EmptyDir
<1>5. CASE ScaffoldStep
    <2>1. terminal \in {"prompt", "scaffold"}
        BY <1>5, <1>t, ScaffoldMoves DEF ScaffoldStep, Links, TypeInv, ProjectInv
    <2>2. run.pc = "none"
        BY <1>t, <2>1 DEF Links
    <2> QED  BY <1>2, <1>5, <2>2 DEF ScaffoldStep
<1>6. CASE Midnight /\ UNCHANGED generator
    BY <1>2, <1>6 DEF Midnight, generator
<1>7. CASE SkillsNext /\ UNCHANGED generator
    <2>1. UNCHANGED disk
        BY <1>7, <1>t, SkillsMoves DEF TypeInv, Links
    <2> QED  BY <1>2, <1>7, <2>1 DEF generator
<1>8. CASE (Upgrade /\ UNCHANGED generator) \/ UNCHANGED vars
    BY <1>2, <1>8 DEF Upgrade, vars, workbench, generator
<1> QED  BY <1>1, <1>3, <1>4, <1>5, <1>6, <1>7, <1>8 DEF Next

(* DirectoryAgrees for any schemas, directories, config modules and days:   *)
(* the contract, the orders and the manifest of a dated directory that an   *)
(* entry completed are of one schema and day, and the snapshots that a      *)
(* paired entry completed it with, nothing having been edited under it, are *)
(* of the schemas its contract was paired from (generator/index.ts:209).    *)
THEOREM DirectoriesAgree == Spec => []DirectoryAgrees
<1>1. DirInv => DirectoryAgrees
    BY DEF DirInv
<1> QED  BY <1>1, TypesHold, InitDir, NextDir, PTL DEF Spec

-----------------------------------------------------------------------------
(* A check that passed found nothing blocking in any entry, and a generate  *)
(* that refused found something in one: both of the disk they began with if *)
(* nothing was edited under them.                                           *)

(* Where nothing was edited, an entry is judged on the disk the command     *)
(* began with.                                                              *)
LEMMA FoundFrom ==
    ASSUME GenInv, disk \in SchemaFiles, OneState, Judged, run.pc = "load", ~ run.edited
    PROVE  Found = Outcome(Entry.kind, run.from) /\ Entry \in ToSet(RunEntries)
<1>1. Entry \in ToSet(RunEntries)
    BY EntryIs DEF Judged
<1>2. CASE Entry.kind = "paired"
    BY <1>1, <1>2, ImportedFrom DEF Found
<1>3. CASE Entry.kind # "paired"
    <2>1. run.schema.local = run.from.local
        BY <1>1, <1>3 DEF Judged
    <2>2. Schema = run.schema
        BY <1>3 DEF Schema, Imported
    <2> QED  BY <1>1, <1>3, <2>1, <2>2 DEF Found, Outcome
<1> QED  BY <1>2, <1>3

(* The schemas of the entries to come stay those of the configuration.      *)
LEMMA SchemaStays ==
    ASSUME Judged, run.pc = "load",
           NEW e \in ToSet(RunEntries), e.kind # "paired"
    PROVE  Schema.local = run.from.local /\ run.from.local # NoFile
<1>1. run.schema.local = run.from.local /\ run.from.local # NoFile
    BY DEF Judged
<1>2. Schema = run.schema \/ Schema.local = IF run.schema.local # NoFile THEN run.schema.local ELSE disk.local
    BY DEF Schema, Imported
<1> QED  BY <1>1, <1>2

(* What the configuration makes of a directory only depends on its exports. *)
LEMMA SameExports ==
    ASSUME UNCHANGED exports, NEW output
    PROVE  resolveLoadedConfigEntries(output)' = resolveLoadedConfigEntries(output)
<1>1. Exported' = Exported
    BY DEF Exported
<1>2. Taken(output)' = Taken(output)
    BY <1>1 DEF Taken, EntryOf
<1> QED  BY <1>1, <1>2 DEF resolveLoadedConfigEntries, EntryOf

(* So does what cannot be loaded.                                           *)
LEMMA SameUnloadable ==
    ASSUME UNCHANGED exports, NEW schema, NEW output
    PROVE  Unloadable(schema, output)' = Unloadable(schema, output)
BY SameExports DEF Unloadable, ConfigThrowsOn

(* A command begins with nothing judged.                                    *)
LEMMA InvokeJudged ==
    ASSUME GenInv, day \in 0..MaxDay, disk \in SchemaFiles,
           NEW command \in {"generate", "check", "doctor"}, NEW strict \in BOOLEAN, NEW output \in Outputs,
           Invoke(command, strict, output)
    PROVE  Judged'
<1>1. /\ run'.pc = IF ConfigThrows \/ resolveLoadedConfigEntries(output) = <<>> THEN "failed" ELSE "load"
      /\ run'.output = output /\ run'.entries = resolveLoadedConfigEntries(output) /\ run'.from = disk
      /\ run'.schema = [local |-> IF CachedByConfig THEN disk.local ELSE NoFile, api |-> NoFile]
    BY InvokeRun
<1>2. exports' = exports /\ output \in Dirs \cup {NoDir}
    BY GeneratorAssumption DEF Invoke
<1> DEFINE entries == resolveLoadedConfigEntries(output)
<1>3. entries' = entries /\ RunEntries' = entries
    <2>1. entries' = entries
        BY <1>2, SameExports
    <2> HIDE DEF entries
    <2>2. RunEntries' = entries'
        BY <1>1 DEF RunEntries, entries
    <2> QED  BY <2>1, <2>2
<1>4. ConfigThrows = ConfigThrowsOn(disk)
    BY DEF ConfigThrows, ConfigThrowsOn
<1>5. Unloadable(run.from, run.output)' = (ConfigThrows \/ entries = <<>>)
    <2>1. PICK s \in SchemaFiles : s = disk
        OBVIOUS
    <2>2. Unloadable(run.from, run.output)' = Unloadable(s, output)'
        BY <1>1, <2>1 DEF Unloadable, ConfigThrowsOn
    <2>3. Unloadable(s, output)' = Unloadable(s, output)
        BY <1>2, SameUnloadable
    <2> QED  BY <1>4, <2>1, <2>2, <2>3 DEF Unloadable
<1>6. \A e \in ToSet(entries) : e.kind # "paired" => CachedByConfig
    BY <1>2, EntriesOf DEF GenInv
<1> HIDE DEF entries
<1>7. CachedByConfig /\ ~ ConfigThrows => disk.local # NoFile
    BY DEF CachedByConfig, ConfigThrows, Outcome
<1>8. ASSUME run'.pc = "load", NEW e \in ToSet(entries), e.kind # "paired"
      PROVE  run'.schema.local = run'.from.local /\ run'.from.local # NoFile
    BY <1>1, <1>6, <1>7, <1>8
<1>9. run'.entries = entries /\ run'.pc \in {"failed", "load"} /\ (run'.pc = "failed") = (ConfigThrows \/ entries = <<>>)
    BY <1>1 DEF entries
<1> QED  BY <1>3, <1>5, <1>8, <1>9 DEF Judged, WritePcs

(* What passes and what is refused depends on the config module's exports   *)
(* only.                                                                    *)
LEMMA SameResults ==
    ASSUME UNCHANGED exports, NEW schema, NEW output, NEW strict
    PROVE  /\ Passes(schema, output, strict)' = Passes(schema, output, strict)
           /\ Refused(schema, output, strict)' = Refused(schema, output, strict)
<1>1. /\ Unloadable(schema, output)' = Unloadable(schema, output)
      /\ resolveLoadedConfigEntries(output)' = resolveLoadedConfigEntries(output)
    BY SameExports, SameUnloadable
<1> QED  BY <1>1 DEF Passes, Refused

(* What leaves the exports and the outcomes alone keeps what they tell.     *)
LEMMA KeepResults ==
    ASSUME Results, UNCHANGED <<exports, last, checked>>
    PROVE  Results'
<1>1. PICK l, c : l = last /\ c = checked
    OBVIOUS
<1>2. /\ Passes(c.from, c.output, c.strict)' = Passes(c.from, c.output, c.strict)
      /\ Refused(l.from, l.output, l.strict)' = Refused(l.from, l.output, l.strict)
    BY SameResults
<1>3. c.passed => Passes(c.from, c.output, c.strict)
    BY <1>1 DEF Results
<1>4. l.command = "generate" /\ l.why \in {"throws", "diagnostics"} /\ ~ l.edited => Refused(l.from, l.output, l.strict)
    BY <1>1 DEF Results
<1>5. last' = l /\ checked' = c
    BY <1>1
<1>6. c.passed => Passes(checked.from, checked.output, checked.strict)'
    BY <1>2, <1>3, <1>5 DEF Passes, Unloadable, ConfigThrowsOn
<1>7. l.command = "generate" /\ l.why \in {"throws", "diagnostics"} /\ ~ l.edited
        => Refused(last.from, last.output, last.strict)'
    BY <1>2, <1>4, <1>5 DEF Refused, Unloadable, ConfigThrowsOn
<1> QED  BY <1>5, <1>6, <1>7 DEF Results

(* What a command that ends says of the configuration.                      *)
LEMMA EndsResults ==
    ASSUME GenInv, disk \in SchemaFiles, OneState, Judged, Results, NEW why, Ends(why)
    PROVE  Results'
<1>1. /\ run.pc # "none" /\ Why(why) /\ UNCHANGED exports
      /\ last' = [command |-> run.command, why |-> why, strict |-> run.strict, output |-> run.output,
                  from |-> run.from, edited |-> run.edited, began |-> run.began, ended |-> day]
      /\ checked' = IF run.command = "check" /\ why = "ok"
                    THEN [passed |-> ~ run.edited, from |-> run.from, output |-> run.output, strict |-> run.strict]
                    ELSE checked
    BY DEF Ends, Finish
<1>2. PICK from, output, strict : from = run.from /\ output = run.output /\ strict = run.strict
    OBVIOUS
<1>3. ASSUME run.command = "check", why = "ok", ~ run.edited
      PROVE  Passes(from, output, strict)
    <2>1. /\ run.pc = "load" /\ "throws" \notin Found /\ Len(run.entries) = 1
          /\ (run.found \cup Found) \cap Blocking = {}
        <3>1. run.pc # "format"
            BY <1>3 DEF GenInv, WritePcs
        <3> QED  BY <1>1, <1>3, <3>1 DEF Why
    <2>2. ~ Unloadable(from, output)
        BY <1>2, <2>1 DEF Judged
    <2>3. Blocking = BlockingOf(strict)
        BY <1>2 DEF Blocking, BlockingOf
    <2>4. ToSet(run.entries) = {Entry} /\ Found = Outcome(Entry.kind, from)
        BY <1>2, <1>3, <2>1, EntryIs, FoundFrom
    <2>5. ASSUME NEW e \in ToSet(RunEntries)
          PROVE  "throws" \notin Outcome(e.kind, from) /\ Outcome(e.kind, from) \cap Blocking = {}
        <3>1. \/ e = Entry
              \/ "throws" \notin Outcome(e.kind, from) /\ Outcome(e.kind, from) \subseteq run.found
            BY <1>2, <1>3, <2>1, <2>4 DEF Judged
        <3> QED  BY <2>1, <2>4, <3>1
    <2> QED  BY <1>2, <2>2, <2>3, <2>5 DEF Passes, RunEntries
<1>4. ASSUME run.command = "generate", why \in {"throws", "diagnostics"}, ~ run.edited
      PROVE  Refused(from, output, strict)
    <2>1. CASE run.pc = "failed"
        BY <1>2, <2>1 DEF Judged, Refused
    <2>2. CASE run.pc = "load" /\ ("throws" \in Found \/ Blocks(Entry, Found))
        <3>1. Found = Outcome(Entry.kind, from) /\ Entry \in ToSet(RunEntries)
            BY <1>2, <1>4, <2>2, FoundFrom
        <3>2. Found \cap {"throws", "error"} # {} \/ (strict /\ "warning" \in Found)
            BY <1>2, <2>2 DEF Blocks
        <3> QED  BY <1>2, <3>1, <3>2 DEF Refused, RunEntries
    <2> QED  BY <1>1, <1>4, <2>1, <2>2 DEF Why, Loading
<1>5. /\ Passes(from, output, strict)' = Passes(from, output, strict)
      /\ Refused(from, output, strict)' = Refused(from, output, strict)
    BY <1>1, SameResults
<1>6. last'.command = "generate" /\ last'.why \in {"throws", "diagnostics"} /\ ~ last'.edited
        => Refused(last.from, last.output, last.strict)'
    <2>1. /\ last'.command = run.command /\ last'.why = why /\ last'.edited = run.edited
          /\ last'.from = from /\ last'.output = output /\ last'.strict = strict
        BY <1>1, <1>2
    <2> QED  BY <1>4, <1>5, <2>1 DEF Refused, Unloadable, ConfigThrowsOn
<1>7. CASE run.command = "check" /\ why = "ok"
    <2>1. checked'.passed = ~ run.edited /\ checked'.from = from /\ checked'.output = output /\ checked'.strict = strict
        BY <1>1, <1>2, <1>7
    <2>2. checked'.passed => Passes(checked.from, checked.output, checked.strict)'
        BY <1>3, <1>5, <1>7, <2>1 DEF Passes, Unloadable, ConfigThrowsOn
    <2> QED  BY <1>6, <2>2 DEF Results
<1>8. CASE ~ (run.command = "check" /\ why = "ok")
    <2>1. PICK c : c = checked /\ checked' = c
        BY <1>1, <1>8
    <2>2. c.passed => Passes(c.from, c.output, c.strict)
        BY <2>1 DEF Results
    <2>3. Passes(c.from, c.output, c.strict)' = Passes(c.from, c.output, c.strict)
        BY <1>1, SameResults
    <2>4. checked'.passed => Passes(checked.from, checked.output, checked.strict)'
        BY <2>1, <2>2, <2>3 DEF Passes, Unloadable, ConfigThrowsOn
    <2> QED  BY <1>6, <2>4 DEF Results
<1> QED  BY <1>7, <1>8

(* What the steps of a command keep of the judgement so far.                *)
LEMMA KeepJudged ==
    ASSUME Judged, UNCHANGED exports, run'.output = run.output, run'.from = run.from,
           run'.pc \in {"load"} \cup WritePcs, run.pc \in {"load"} \cup WritePcs,
           ToSet(run'.entries) \subseteq ToSet(run.entries),
           \A e \in ToSet(RunEntries) : e.kind # "paired" =>
               run'.schema.local = run.from.local,
           run'.pc = "load" /\ ~ run'.edited /\ run'.command \in {"check", "doctor"} =>
               \A e \in ToSet(RunEntries) :
                  \/ e \in ToSet(run'.entries)
                  \/ /\ "throws" \notin Outcome(e.kind, run.from)
                     /\ Outcome(e.kind, run.from) \subseteq run'.found
    PROVE  Judged'
<1>1. PICK output, from : output = run.output /\ from = run.from
    OBVIOUS
<1>2. resolveLoadedConfigEntries(output)' = resolveLoadedConfigEntries(output)
      /\ Unloadable(from, output)' = Unloadable(from, output)
    BY SameExports, SameUnloadable
<1>3. run'.output = output /\ run'.from = from
    BY <1>1
<1>4. RunEntries = resolveLoadedConfigEntries(output)
    BY <1>1 DEF RunEntries
<1>5. RunEntries' = resolveLoadedConfigEntries(output)'
    BY <1>3 DEF RunEntries, resolveLoadedConfigEntries, Taken, EntryOf
<1>6. RunEntries' = RunEntries
    BY <1>2, <1>4, <1>5
<1>7. ~ Unloadable(from, output)
    BY <1>1 DEF Judged
<1>8. ~ Unloadable(run.from, run.output)'
    <2>1. Unloadable(run.from, run.output)' = Unloadable(from, output)'
        BY <1>3 DEF Unloadable, ConfigThrowsOn
    <2> QED  BY <1>2, <1>7, <2>1
<1>9. run'.pc # "failed" /\ ToSet(run.entries) \subseteq ToSet(RunEntries)
    BY DEF Judged, WritePcs
<1>10. ASSUME NEW e \in ToSet(RunEntries), e.kind # "paired"
       PROVE  run'.schema.local = run'.from.local /\ run'.from.local # NoFile
    BY <1>10 DEF Judged
<1> QED  BY <1>3, <1>6, <1>8, <1>9, <1>10 DEF Judged

(* A step of the generator keeps the judgement and the outcomes.            *)
LEMMA GeneratorJudged ==
    ASSUME GenInv, DatesInv, day \in 0..MaxDay, disk \in SchemaFiles, OneState, Judged, Results, GeneratorNext
    PROVE  Judged' /\ Results'
<1>1. ASSUME NEW command \in {"generate", "check", "doctor"}, NEW strict \in BOOLEAN, NEW output \in Outputs,
             Invoke(command, strict, output)
      PROVE  Judged' /\ Results'
    <2>1. Judged'
        BY <1>1, InvokeJudged
    <2>2. last' = NeverRan /\ UNCHANGED <<exports, checked>>
        BY <1>1 DEF Invoke
    <2>3. PICK c : c = checked /\ checked' = c
        BY <2>2
    <2>4. c.passed => Passes(c.from, c.output, c.strict)'
        BY <2>2, <2>3, SameResults DEF Results
    <2>5. checked'.passed => Passes(checked.from, checked.output, checked.strict)'
        BY <2>3, <2>4 DEF Passes, Unloadable, ConfigThrowsOn
    <2>6. last'.command # "generate"
        BY <2>2 DEF NeverRan
    <2> QED  BY <2>1, <2>5, <2>6 DEF Results
<1>2. ASSUME NEW why, Ends(why) PROVE Judged' /\ Results'
    <2>1. Results'
        BY <1>2, EndsResults
    <2>2. run'.pc = "none"
        BY <1>2, FinishRun DEF Ends
    <2> QED  BY <2>1, <2>2 DEF Judged, WritePcs
<1>3. ASSUME UNCHANGED <<exports, last, checked>> PROVE Results'
    BY <1>3, KeepResults
<1>4. CASE NextEntry
    <2>0. /\ run.pc = "load" /\ "throws" \notin Found /\ run \in RunType /\ UNCHANGED <<exports, last, checked>>
        BY <1>4 DEF NextEntry, RunFrame, GenInv
    <2>1. /\ run'.pc = "load" /\ run'.command = run.command /\ run'.output = run.output
          /\ run'.entries = Tail(run.entries) /\ run'.schema = Schema /\ run'.from = run.from
          /\ run'.edited = run.edited /\ run'.found = run.found \cup Found
        <3>1. (run.loaded \/ Entry.kind = "paired") \in BOOLEAN
            BY <2>0 DEF RunType
        <3> QED  BY <1>4, <3>1, NextEntryRun DEF NextEntry
    <2>2. ToSet(run.entries) = {Entry} \cup ToSet(run'.entries)
        BY <2>0, <2>1, EntryIs
    <2>3. ASSUME NEW e \in ToSet(RunEntries), e.kind # "paired" PROVE run'.schema.local = run.from.local
        BY <2>0, <2>1, <2>3, SchemaStays
    <2>4. ASSUME ~ run'.edited, run'.command \in {"check", "doctor"}, NEW e \in ToSet(RunEntries)
          PROVE  \/ e \in ToSet(run'.entries)
                 \/ /\ "throws" \notin Outcome(e.kind, run.from)
                    /\ Outcome(e.kind, run.from) \subseteq run'.found
        <3>1. \/ e \in ToSet(run.entries)
              \/ /\ "throws" \notin Outcome(e.kind, run.from)
                 /\ Outcome(e.kind, run.from) \subseteq run.found
            BY <2>0, <2>1, <2>4 DEF Judged
        <3>2. Found = Outcome(Entry.kind, run.from)
            BY <2>0, <2>1, <2>4, FoundFrom
        <3> QED  BY <2>0, <2>1, <2>2, <3>1, <3>2
    <2>5. Judged'
        <3>1. ToSet(run'.entries) \subseteq ToSet(run.entries)
            BY <2>2
        <3> QED  BY <2>0, <2>1, <2>3, <2>4, <3>1, KeepJudged
    <2> QED  BY <1>3, <2>0, <2>5
<1>5. ASSUME run.pc \in {"load"} \cup WritePcs, run'.pc \in {"load"} \cup WritePcs, run'.command = "generate",
             run'.output = run.output, run'.from = run.from, ToSet(run'.entries) \subseteq ToSet(run.entries),
             run'.schema = run.schema \/ (run.pc = "load" /\ run'.schema = Schema),
             UNCHANGED <<exports, last, checked>>
      PROVE  Judged' /\ Results'
    <2>1. ASSUME NEW e \in ToSet(RunEntries), e.kind # "paired" PROVE run'.schema.local = run.from.local
        <3>1. run.schema.local = run.from.local
            BY <1>5, <2>1 DEF Judged
        <3>2. run.pc = "load" => Schema.local = run.from.local
            BY <2>1, SchemaStays
        <3> QED  BY <1>5, <3>1, <3>2
    <2>2. Judged'
        BY <1>5, <2>1, KeepJudged
    <2> QED  BY <1>3, <1>5, <2>2
<1>6. CASE NextFormat
    <2>1. /\ run'.pc = "load" /\ run'.command = run.command /\ run'.output = run.output
          /\ run'.entries = Tail(run.entries) /\ run'.schema = run.schema /\ run'.from = run.from
          /\ run.pc = "format" /\ UNCHANGED <<exports, last, checked>>
        BY <1>6, FormatRun DEF NextFormat, RunFrame
    <2>2. run.command = "generate" /\ run.pc \in WritePcs
        BY <2>1 DEF GenInv, WritePcs
    <2>3. ToSet(run'.entries) \subseteq ToSet(run.entries)
        BY <2>1, <2>2, EntryIs
    <2> QED  BY <1>5, <2>1, <2>2, <2>3
<1>7. CASE Accept
    <2>1. /\ run'.pc = "contract" /\ run'.command = "generate" /\ run'.output = run.output
          /\ run'.entries = run.entries /\ run'.schema = Schema /\ run'.from = run.from /\ run.pc = "load"
        BY <1>7, AcceptRun
    <2>2. UNCHANGED <<exports, last, checked>>
        BY <1>7 DEF Accept, GeneratorFrame
    <2>3. run'.pc \in WritePcs
        BY <2>1 DEF WritePcs
    <2> QED  BY <1>5, <2>1, <2>2, <2>3
<1>8. CASE Writing
    <2>1. PICK files, content, next : WriteNext(files, content, next) /\ Write(files, content, next)
        BY <1>8 DEF Writing
    <2>2. /\ run.pc \in WritePcs /\ next \in WritePcs /\ run' = [run EXCEPT !.pc = next]
          /\ UNCHANGED <<exports, last, checked>>
        BY <2>1, WriteRun
    <2>3. /\ run'.pc = next /\ run'.command = run.command /\ run'.output = run.output
          /\ run'.entries = run.entries /\ run'.schema = run.schema /\ run'.from = run.from
        BY <2>2, PcRun DEF GenInv, RunPcs
    <2>4. run.command = "generate"
        BY <2>2 DEF GenInv
    <2> QED  BY <1>5, <2>2, <2>3, <2>4
<1> QED  BY <1>1, <1>2, <1>4, <1>6, <1>7, <1>8, GeneratorCases

(* In a directory with entries the scaffolder never gets past the name.     *)
LEMMA ScaffoldStays ==
    ASSUME SetupOK, ScaffoldNext, DOMAIN project # {}, setup.pc \in {"none", "name"}
    PROVE  UNCHANGED project /\ setup'.pc \in {"none", "name"}
<1>f. DOMAIN setup = {"pc", "why", "next", "framework", "date", "run"}
    BY DEF SetupOK
<1>1. CASE scaffoldProject
    <2> DEFINE s == [NotRun EXCEPT !.pc = "name"]
    <2>1. s.pc = "name" /\ DOMAIN s = {"pc", "why", "next", "framework", "date", "run"}
        BY DEF NotRun
    <2>2. setup' = [s EXCEPT !.run = setup.run + 1] /\ UNCHANGED project
        BY <1>1 DEF scaffoldProject
    <2> HIDE DEF s
    <2> QED  BY <2>1, <2>2
<1>2. ASSUME NEW why, Leaves(why) PROVE setup'.pc = "none"
    BY <1>2, <1>f DEF Leaves
<1>3. CASE Cancel \/ ensureEmptyTargetDir \/ KillScaffold
    BY <1>2, <1>3 DEF Cancel, ensureEmptyTargetDir, KillScaffold
<1> QED  BY <1>1, <1>3 DEF ScaffoldNext, MakeDirectories, RunTauriInitializer, buildRootScaffoldFiles,
        RunServerInitializer, WriteFile, WriteFails, Install

(* What does not touch the command keeps what it has judged.                *)
LEMMA KeepCheck ==
    ASSUME Judged, Results, UNCHANGED <<exports, last, checked>>,
           run'.pc = run.pc, run'.command = run.command, run'.output = run.output, run'.from = run.from,
           run'.entries = run.entries, run'.schema = run.schema, run'.found = run.found,
           run.edited => run'.edited
    PROVE  Judged' /\ Results'
<1>1. Results'
    BY KeepResults
<1>2. PICK output, from : output = run.output /\ from = run.from
    OBVIOUS
<1>3. run'.output = output /\ run'.from = from
    BY <1>2
<1>4. Unloadable(run.from, run.output)' = Unloadable(run.from, run.output)
    <2>1. Unloadable(run.from, run.output)' = Unloadable(from, output)'
        BY <1>3 DEF Unloadable, ConfigThrowsOn
    <2> QED  BY <1>2, <2>1, SameUnloadable
<1>5. RunEntries' = RunEntries
    <2>1. RunEntries' = resolveLoadedConfigEntries(output)'
        BY <1>3 DEF RunEntries, resolveLoadedConfigEntries, Taken, EntryOf
    <2> QED  BY <1>2, <2>1, SameExports DEF RunEntries
<1>6. Judged'
    <2>1. \A e : Outcome(e.kind, run.from)' = Outcome(e.kind, run.from)
        BY DEF Outcome
    <2> QED  BY <1>4, <1>5 DEF Judged, Outcome
<1> QED  BY <1>1, <1>6

(* No command has run at first.                                             *)
LEMMA InitCheck == Init => CheckInv
<1> SUFFICES ASSUME Init PROVE CheckInv
    OBVIOUS
<1>1. run = NoRun /\ last = NeverRan /\ checked = NeverChecked
    BY DEF Init, GeneratorInit
<1>2. run.pc = "none" /\ last.command = "none" /\ ~ checked.passed
    BY <1>1 DEF NoRun, NeverRan, NeverChecked
<1> QED  BY <1>2 DEF CheckInv, InProject, Judged, Results, WritePcs

(* Every step keeps the three.                                              *)
LEMMA NextCheck == TypeInv /\ DirInv /\ CheckInv /\ [Next]_vars => CheckInv'
<1> SUFFICES ASSUME TypeInv, DirInv, CheckInv, [Next]_vars PROVE CheckInv'
    OBVIOUS
<1>t. /\ GenInv /\ DatesInv /\ Links /\ SetupOK /\ run \in RunType /\ day \in 0..MaxDay /\ disk \in SchemaFiles
      /\ OneState /\ InProject /\ Judged /\ Results
    BY DEF TypeInv, GenInv, ProjectInv, WorkbenchTypeOK, SchemaFiles, DirInv, CheckInv
<1>1. CASE GeneratorNext /\ Installed /\ UNCHANGED <<scaffold, skills>>
    <2>1. terminal \in {"prompt", "generator"}
        BY <1>1, <1>t, GeneratorMoves DEF TypeInv, Links
    <2>2. setup.pc = "none" /\ DOMAIN project # {} /\ UNCHANGED <<setup, project>>
        BY <1>1, <1>t, <2>1 DEF Links, Installed, scaffold
    <2>3. InProject'
        BY <2>2 DEF InProject
    <2> QED  BY <1>1, <1>t, <2>3, GeneratorJudged DEF CheckInv
<1>2. ASSUME UNCHANGED <<generator, scaffold>> PROVE CheckInv'
    <2>1. InProject'
        BY <1>2, <1>t DEF InProject, generator, scaffold
    <2> QED  BY <1>2, <1>t, <2>1, KeepCheck DEF CheckInv, generator
<1>3. CASE Edit
    <2>1. /\ run'.pc = run.pc /\ run'.command = run.command /\ run'.output = run.output /\ run'.from = run.from
          /\ run'.entries = run.entries /\ run'.schema = run.schema /\ run'.found = run.found
          /\ run.edited => run'.edited
        BY <1>3, <1>t, EditedRun DEF Edit
    <2>2. UNCHANGED <<exports, last, checked, scaffold>>
        BY <1>3 DEF Edit
    <2>3. InProject'
        BY <1>t, <2>1, <2>2 DEF InProject, scaffold
    <2> QED  BY <1>t, <2>1, <2>2, <2>3, KeepCheck DEF CheckInv
<1>4. ASSUME run'.pc = "none", last'.command = "none", ~ checked'.passed PROVE CheckInv'
    BY <1>4 DEF CheckInv, InProject, Judged, Results, WritePcs
<1>5. CASE StartOver
    <2>1. UNCHANGED run /\ terminal = "prompt" /\ last' = NeverRan /\ checked' = NeverChecked
        BY <1>5 DEF StartOver
    <2>2. run.pc = "none"
        BY <1>t, <2>1 DEF Links
    <2> QED  BY <1>4, <2>1, <2>2 DEF NeverRan, NeverChecked
<1>6. CASE ScaffoldStep
    <2>1. ScaffoldNext /\ UNCHANGED <<generated, run, last, checked>> /\ (setup.pc # "write" => UNCHANGED exports)
        BY <1>6 DEF ScaffoldStep
    <2>2. CASE checked.passed \/ last.command # "none" \/ run.pc # "none"
        <3>1. DOMAIN project # {} /\ setup.pc \in {"none", "name"}
            BY <1>t, <2>2 DEF InProject
        <3>2. UNCHANGED project /\ setup'.pc \in {"none", "name"}
            BY <1>t, <2>1, <3>1, ScaffoldStays
        <3>3. InProject'
            BY <3>1, <3>2 DEF InProject
        <3>4. UNCHANGED exports
            BY <2>1, <3>1
        <3> QED  BY <1>t, <2>1, <3>3, <3>4, KeepCheck DEF CheckInv
    <2>3. CASE ~ (checked.passed \/ last.command # "none" \/ run.pc # "none")
        BY <1>4, <2>1, <2>3
    <2> QED  BY <2>2, <2>3
<1>7. CASE Midnight /\ UNCHANGED <<generator, scaffold, skills>>
    BY <1>2, <1>7
<1>8. CASE SkillsNext /\ UNCHANGED <<generator, scaffold>>
    BY <1>2, <1>8
<1>9. CASE Upgrade /\ UNCHANGED <<generator, scaffold>>
    BY <1>2, <1>9
<1>10. CASE UNCHANGED vars
    BY <1>2, <1>10 DEF vars
<1> QED  BY <1>1, <1>3, <1>5, <1>6, <1>7, <1>8, <1>9, <1>10 DEF Next

(* CheckPredictsGenerate for any schemas and tables, and any exports of the *)
(* config module: generate refuses nothing that a check as strict let       *)
(* through (cli/generator.ts:144 and 179).                                  *)
THEOREM CheckPredicts == Spec => []CheckPredictsGenerate
<1>1. CheckInv => CheckPredictsGenerate
    <2> SUFFICES ASSUME CheckInv, last.command = "generate", last.why \in {"throws", "diagnostics"},
                        checked.passed, ~ last.edited, last.from = checked.from, last.output = checked.output
                 PROVE  last.strict /\ ~ checked.strict
        BY DEF CheckPredictsGenerate
    <2>1. Passes(last.from, last.output, checked.strict) /\ Refused(last.from, last.output, last.strict)
        BY DEF CheckInv, Results
    <2> QED  BY <2>1 DEF Passes, Refused, BlockingOf
<1> QED  BY <1>1, TypesHold, InitDir, NextDir, InitCheck, NextCheck, PTL DEF Spec

-----------------------------------------------------------------------------
(* The imports of a scaffolded project.                                     *)

(* The template's config module makes one entry, a paired one.              *)
LEMMA TemplateEntries ==
    ASSUME exports = TemplateExports
    PROVE  resolveLoadedConfigEntries(NoDir) = <<TemplateEntry>>
<1> DEFINE three == <<1, 2, 3>>
           k == Keep(three, Taken(NoDir))
<1>1. /\ Exported[1].kind = "none" /\ Exported[3].kind = "none" /\ Exported[2].kind = "paired"
      /\ Exported[2] = TemplateExports.default
    BY ToolchainAssumption DEF Exported
<1>2. Taken(NoDir) = {2}
    BY <1>1 DEF Taken
<1>3. three \in Seq(Nat) /\ ToSet(three) = {1, 2, 3} /\ three[1] = 1 /\ three[2] = 2 /\ three[3] = 3 /\ DOMAIN three = 1..3
    BY DEF ToSet
<1> HIDE DEF three
<1>4. k \in Seq(Nat) /\ ToSet(k) = ToSet(three) \cap {2} /\ (Before(k, 2, 2) <=> Before(three, 2, 2))
    BY <1>2, <1>3, KeepElements
<1>5. ~ Before(three, 2, 2)
    BY <1>3 DEF Before
<1> HIDE DEF k
<1>6. \A i \in DOMAIN k : k[i] = 2
    BY <1>3, <1>4 DEF ToSet
<1>7. 2 \in ToSet(k) /\ DOMAIN k = 1..Len(k) /\ Len(k) \in Nat
    BY <1>3, <1>4
<1>8. Len(k) >= 1
    BY <1>7 DEF ToSet
<1>9. Len(k) < 2
    BY <1>4, <1>5, <1>6, <1>7 DEF Before
<1>10. DOMAIN k = {1} /\ k[1] = 2
    BY <1>6, <1>7, <1>8, <1>9
<1>11. EntryOf(TemplateExports.default, NoDir) = TemplateEntry
    BY ToolchainAssumption DEF EntryOf, TemplateEntry
<1>12. resolveLoadedConfigEntries(NoDir) = [n \in DOMAIN k |-> EntryOf(Exported[k[n]], NoDir)]
    BY DEF resolveLoadedConfigEntries, k, three
<1>13. resolveLoadedConfigEntries(NoDir) = [n \in {1} |-> TemplateEntry]
    BY <1>1, <1>10, <1>11, <1>12
<1>14. <<TemplateEntry>> = [n \in {1} |-> TemplateEntry]
    OBVIOUS
<1> QED  BY <1>13, <1>14

(* A list of that one entry.                                                *)
LEMMA OneEntry ==
    ASSUME run.entries = <<TemplateEntry>>
    PROVE  Len(run.entries) = 1 /\ Entry = TemplateEntry
BY DEF Entry

(* A step of the generator keeps what the imports need.                     *)
LEMMA GeneratorImports ==
    ASSUME GenInv, DatesInv, day \in 0..MaxDay, disk \in SchemaFiles, WrittenSoFar, ImportsInv, GeneratorNext
    PROVE  ImportsInv'
<1> DEFINE Made2(l) == exports = TemplateExports /\ l.command = "generate" /\ l.why = "ok" /\ l.output = NoDir /\ ~ l.edited
           dir == TemplateExports.default.dir
           need == {"contract", "order", "api"}
<1>r. run \in RunType
    BY DEF GenInv
<1>1. ASSUME UNCHANGED <<last, exports>>, \A n \in 0..MaxDay : DOMAIN generated[dir][n] \subseteq DOMAIN generated'[dir][n],
             exports = TemplateExports /\ run'.output = NoDir /\ run'.pc \in {"load"} \cup WritePcs =>
                 run'.entries = <<TemplateEntry>>
      PROVE  ImportsInv'
    <2> SUFFICES ASSUME Made2(last)
                 PROVE  /\ last.began \in Int /\ last.ended \in Int
                        /\ \E n \in 0..MaxDay : last.began <= n /\ n <= last.ended /\ need \subseteq DOMAIN generated'[dir][n]
        BY <1>1 DEF ImportsInv, TemplateEntry
    <2>1. /\ last.began \in Int /\ last.ended \in Int
          /\ \E n \in 0..MaxDay : last.began <= n /\ n <= last.ended /\ need \subseteq DOMAIN generated[dir][n]
        BY DEF ImportsInv
    <2> HIDE DEF need, dir
    <2> QED  BY <1>1, <2>1
<1>2. ASSUME NEW command \in {"generate", "check", "doctor"}, NEW strict \in BOOLEAN, NEW output \in Outputs,
             Invoke(command, strict, output)
      PROVE  ImportsInv'
    <2>1. /\ run'.output = output /\ run'.entries = resolveLoadedConfigEntries(output)
        BY <1>2, InvokeRun
    <2>2. last' = NeverRan /\ UNCHANGED exports
        BY <1>2 DEF Invoke
    <2>3. last'.command # "generate"
        BY <2>2 DEF NeverRan
    <2>4. exports = TemplateExports /\ run'.output = NoDir => run'.entries = <<TemplateEntry>>
        BY <2>1, TemplateEntries
    <2> QED  BY <2>2, <2>3, <2>4 DEF ImportsInv, TemplateEntry
<1>3. ASSUME NEW why, Ends(why) PROVE ImportsInv'
    <2>1. /\ Why(why) /\ UNCHANGED <<exports, generated>> /\ run.pc # "none"
          /\ last' = [command |-> run.command, why |-> why, strict |-> run.strict, output |-> run.output,
                      from |-> run.from, edited |-> run.edited, began |-> run.began, ended |-> day]
        BY <1>3 DEF Ends, Finish
    <2>2. run'.pc = "none"
        BY <1>3, FinishRun DEF Ends
    <2>3. ASSUME Made2(last')
          PROVE  /\ run.began \in Int /\ day \in Int
                 /\ \E n \in 0..MaxDay : run.began <= n /\ n <= day /\ need \subseteq DOMAIN generated[dir][n]
        <3>1. exports = TemplateExports /\ run.command = "generate" /\ why = "ok" /\ run.output = NoDir /\ ~ run.edited
            BY <2>1, <2>3
        <3>2. run.pc = "format" /\ Len(run.entries) = 1
            BY <2>1, <3>1 DEF Why
        <3>3. run.entries = <<TemplateEntry>>
            BY <3>1, <3>2 DEF ImportsInv, WritePcs
        <3>4. Entry = TemplateEntry /\ Entry.kind = "paired" /\ Entry.dir = dir
            BY <3>3, OneEntry DEF TemplateEntry
        <3>5. "contract" \in DOMAIN Dated /\ "order" \in DOMAIN Dated /\ "api" \in DOMAIN Dated
            BY <3>1, <3>2, <3>4 DEF WrittenSoFar
        <3>6. Dated = generated[dir][run.today]
            BY <3>4 DEF Dated
        <3>7. run.today \in 0..MaxDay /\ run.began \in Int /\ run.began <= run.today /\ run.today <= day
            BY <1>r, <3>2 DEF RunType, DatesInv, WritePcs
        <3> HIDE DEF dir
        <3> QED  BY <3>5, <3>6, <3>7
    <2>4. /\ last'.command = run.command /\ last'.why = why /\ last'.output = run.output /\ last'.edited = run.edited
          /\ last'.began = run.began /\ last'.ended = day
        BY <2>1
    <2>5. Made2(last') => /\ last'.began \in Int /\ last'.ended \in Int
                          /\ \E n \in 0..MaxDay : last'.began <= n /\ n <= last'.ended /\ need \subseteq DOMAIN generated'[dir][n]
        <3> HIDE DEF Made2, dir, need
        <3> QED  BY <2>1, <2>3, <2>4
    <2> QED  BY <2>1, <2>2, <2>5 DEF ImportsInv, WritePcs
<1>4. CASE NextEntry
    <2>1. /\ run.pc = "load" /\ Len(run.entries) # 1 /\ UNCHANGED <<last, exports, generated>>
        BY <1>4 DEF NextEntry, RunFrame
    <2>2. run'.output = run.output
        <3>1. (run.loaded \/ Entry.kind = "paired") \in BOOLEAN
            BY <1>r DEF RunType
        <3> QED  BY <1>4, <3>1, NextEntryRun DEF NextEntry
    <2>3. ~ (exports = TemplateExports /\ run.output = NoDir)
        BY <2>1, OneEntry DEF ImportsInv
    <2> QED  BY <1>1, <2>1, <2>2, <2>3
<1>5. CASE NextFormat
    <2>1. /\ run.pc = "format" /\ Len(run.entries) # 1 /\ UNCHANGED <<last, exports, generated>> /\ run'.output = run.output
        BY <1>5, FormatRun DEF NextFormat, RunFrame
    <2>2. ~ (exports = TemplateExports /\ run.output = NoDir)
        BY <2>1, OneEntry DEF ImportsInv, WritePcs
    <2> QED  BY <1>1, <2>1, <2>2
<1>6. CASE Accept
    <2>1. /\ run'.output = run.output /\ run'.entries = run.entries /\ run.pc = "load"
        BY <1>6, AcceptRun
    <2>2. UNCHANGED <<last, exports, generated>>
        BY <1>6 DEF Accept, GeneratorFrame
    <2>3. exports = TemplateExports /\ run.output = NoDir => run.entries = <<TemplateEntry>>
        BY <2>1 DEF ImportsInv
    <2> QED  BY <1>1, <2>1, <2>2, <2>3
<1>7. CASE Writing
    <2>1. PICK files, content, next : WriteNext(files, content, next) /\ Write(files, content, next)
        BY <1>7 DEF Writing
    <2>2. /\ run.pc \in WritePcs /\ next \in WritePcs /\ run' = [run EXCEPT !.pc = next]
          /\ UNCHANGED <<exports, last>> /\ Entry.dir \in Dirs /\ run.today \in 0..MaxDay
          /\ \A d \in Dirs, n \in 0..MaxDay :
                d # Entry.dir \/ n # run.today => generated'[d][n] = generated[d][n]
          /\ DOMAIN generated[Entry.dir][run.today] \subseteq DOMAIN generated'[Entry.dir][run.today]
        BY <2>1, WriteRun
    <2>3. run'.output = run.output /\ run'.entries = run.entries
        BY <1>r, <2>2, PcRun DEF RunPcs
    <2>4. dir \in Dirs
        BY ToolchainAssumption DEF ConfigModules, Export
    <2>5. \A n \in 0..MaxDay : DOMAIN generated[dir][n] \subseteq DOMAIN generated'[dir][n]
        <3> HIDE DEF dir
        <3> QED  BY <2>2, <2>4
    <2>6. exports = TemplateExports /\ run.output = NoDir => run.entries = <<TemplateEntry>>
        BY <2>2 DEF ImportsInv
    <2> HIDE DEF dir
    <2> QED  BY <1>1, <2>2, <2>3, <2>5, <2>6
<1> QED  BY <1>2, <1>3, <1>4, <1>5, <1>6, <1>7, GeneratorCases

(* No generate has succeeded at first.                                      *)
LEMMA InitImports == Init => ImportsInv
<1> SUFFICES ASSUME Init PROVE ImportsInv
    OBVIOUS
<1>1. run = NoRun /\ last = NeverRan
    BY DEF Init, GeneratorInit
<1>2. run.pc = "none" /\ last.command = "none"
    BY <1>1 DEF NoRun, NeverRan
<1> QED  BY <1>2 DEF ImportsInv, WritePcs

(* Every step keeps it: the exports become the template's only when no      *)
(* command has run since.                                                   *)
LEMMA NextImports == TypeInv /\ DirInv /\ CheckInv /\ ImportsInv /\ [Next]_vars => ImportsInv'
<1> SUFFICES ASSUME TypeInv, DirInv, CheckInv, ImportsInv, [Next]_vars PROVE ImportsInv'
    OBVIOUS
<1>t. /\ GenInv /\ DatesInv /\ Links /\ run \in RunType /\ day \in 0..MaxDay /\ disk \in SchemaFiles
      /\ WrittenSoFar /\ InProject
    BY DEF TypeInv, GenInv, WorkbenchTypeOK, SchemaFiles, DirInv, CheckInv
<1>1. CASE GeneratorNext
    BY <1>1, <1>t, GeneratorImports
<1>2. ASSUME run'.pc = run.pc, run'.output = run.output, run'.entries = run.entries,
             UNCHANGED <<exports, last, generated>>
      PROVE  ImportsInv'
    BY <1>2 DEF ImportsInv, TemplateEntry
<1>3. ASSUME run'.pc = "none", last'.command = "none" PROVE ImportsInv'
    BY <1>3 DEF ImportsInv, WritePcs
<1>4. CASE Edit
    <2>1. run'.pc = run.pc /\ run'.output = run.output /\ run'.entries = run.entries
        BY <1>4, <1>t, EditedRun DEF Edit
    <2> QED  BY <1>2, <1>4, <2>1 DEF Edit
<1>5. CASE StartOver
    <2>1. UNCHANGED run /\ terminal = "prompt" /\ last' = NeverRan
        BY <1>5 DEF StartOver
    <2>2. run.pc = "none"
        BY <1>t, <2>1 DEF Links
    <2> QED  BY <1>3, <2>1, <2>2 DEF NeverRan
<1>6. CASE ScaffoldStep
    <2>1. UNCHANGED <<generated, run, last>> /\ (setup.pc # "write" => UNCHANGED exports)
        BY <1>6 DEF ScaffoldStep
    <2>2. setup.pc = "write" => run.pc = "none" /\ last.command = "none"
        BY <1>t DEF InProject
    <2> QED  BY <1>2, <1>3, <2>1, <2>2
<1>7. CASE UNCHANGED generator
    BY <1>2, <1>7 DEF generator
<1> QED  BY <1>1, <1>4, <1>5, <1>6, <1>7 DEF Next, vars

(* ImportsResolve for any budgets and days: a generate that succeeded on    *)
(* the day of the scaffolding left the dated files that the project imports *)
(* (templates.ts:35, generator/index.ts:197).                               *)
THEOREM ImportsAreThere == Spec => []ImportsResolve
<1>1. ImportsInv => ImportsResolve
    <2> SUFFICES ASSUME ImportsInv, exports = TemplateExports, last.command = "generate", last.why = "ok",
                        last.output = NoDir, ~ last.edited,
                        NEW p \in DOMAIN project, project[p].how = "dated",
                        project[p].date = last.began, last.began = last.ended
                 PROVE  {"contract", "order", "api"} \subseteq
                            DOMAIN generated[TemplateExports.default.dir][project[p].date]
        BY DEF ImportsResolve
    <2> QED  BY DEF ImportsInv
<1> QED  BY <1>1, TypesHold, InitDir, NextDir, InitCheck, NextCheck, InitImports, NextImports, PTL DEF Spec

-----------------------------------------------------------------------------
(* A contract file is of a schema that the diagnostics let through.         *)

FilesAccepted ==
    \A d \in Dirs, n \in 0..MaxDay :
        "contract" \in DOMAIN generated[d][n] =>
            /\ generated[d][n].contract.paired \in BOOLEAN
            /\ generated[d][n].contract.tables \in AcceptedSchemas(generated[d][n].contract.paired)
            /\ generated[d][n].contract.orders = OrdersOf(generated[d][n].contract.tables)
ContractsInv ==
    /\ run.pc \in WritePcs => run.schema.local \in AcceptedSchemas(Entry.kind = "paired")
    /\ FilesAccepted

(* A file is written: the contract is of the schema that was accepted.      *)
LEMMA ContractsWrite ==
    ASSUME GenInv, DatesInv, ContractsInv, Writing
    PROVE  ContractsInv'
<1>1. PICK files, content, next : WriteNext(files, content, next) /\ Write(files, content, next)
    BY DEF Writing
<1> DEFINE dir == Entry.dir
           today == run.today
           old == generated[dir][today]
           new == generated'[dir][today]
<1>2. /\ run.pc \in WritePcs /\ next \in WritePcs /\ files \subseteq FileNames
      /\ run' = [run EXCEPT !.pc = next]
      /\ \A d \in Dirs, n \in 0..MaxDay : d # dir \/ n # today => generated'[d][n] = generated[d][n]
      /\ DOMAIN new = {"whole"} \cup files \cup DOMAIN old
      /\ \A f \in files : new[f] = content
      /\ \A f \in FileNames \ files : new[f] = IF f \in DOMAIN old THEN old[f] ELSE new[f]
      /\ dir \in Dirs /\ today \in 0..MaxDay
    BY <1>1, WriteRun
<1>3. run'.schema = run.schema /\ Entry' = Entry
    BY <1>2, PcRun DEF GenInv, RunPcs, Entry
<1> DEFINE Right(file) == /\ file.paired \in BOOLEAN /\ file.tables \in AcceptedSchemas(file.paired)
                          /\ file.orders = OrdersOf(file.tables)
<1>4. "contract" \in DOMAIN new => Right(new.contract)
    <2>1. CASE run.pc = "contract"
        <3>1. files = {"contract"} /\ content = [version |-> today, tables |-> run.schema.local,
                                                   paired |-> Entry.kind = "paired", orders |-> Orders]
            BY <1>1, <2>1 DEF WriteNext
        <3>2. /\ new.contract.tables = run.schema.local /\ new.contract.orders = Orders
              /\ new.contract.paired = (Entry.kind = "paired")
            <4> HIDE DEF new, today
            <4> QED  BY <1>2, <3>1
        <3>3. run.schema.local \in AcceptedSchemas(Entry.kind = "paired")
            BY <1>2 DEF ContractsInv
        <3>4. Orders = OrdersOf(run.schema.local)
            BY DEF Orders, OrdersOf
        <3> HIDE DEF new
        <3> QED  BY <3>2, <3>3, <3>4
    <2>2. CASE run.pc # "contract"
        <3>1. "contract" \notin files
            BY <1>1, <2>2 DEF WriteNext
        <3>2. "contract" \in DOMAIN old => Right(old.contract)
            BY <1>2 DEF ContractsInv, FilesAccepted
        <3> HIDE DEF new, old, Right
        <3>3. "contract" \in DOMAIN new => "contract" \in DOMAIN old /\ new.contract = old.contract
            BY <1>2, <3>1 DEF FileNames
        <3> QED  BY <3>2, <3>3
    <2> QED  BY <2>1, <2>2
<1>5. FilesAccepted'
    <2> SUFFICES ASSUME NEW d \in Dirs, NEW n \in 0..MaxDay, "contract" \in DOMAIN generated'[d][n]
                 PROVE  Right(generated'[d][n].contract)
        BY DEF FilesAccepted
    <2>1. CASE d = dir /\ n = today
        BY <1>4, <2>1
    <2>2. CASE d # dir \/ n # today
        BY <1>2, <2>2 DEF ContractsInv, FilesAccepted
    <2> QED  BY <2>1, <2>2
<1> QED  BY <1>2, <1>3, <1>5 DEF ContractsInv

(* A step of the generator keeps the contracts those of accepted schemas.   *)
LEMMA ContractsStep ==
    ASSUME GenInv, DatesInv, day \in 0..MaxDay, disk \in SchemaFiles, ContractsInv, GeneratorNext
    PROVE  ContractsInv'
<1>1. ASSUME NEW command \in {"generate", "check", "doctor"}, NEW strict \in BOOLEAN, NEW output \in Outputs,
             Invoke(command, strict, output)
      PROVE  ContractsInv'
    <2>1. run'.pc \in {"failed", "load"}
        BY <1>1, InvokeRun
    <2>2. UNCHANGED generated
        BY <1>1 DEF Invoke
    <2> QED  BY <2>1, <2>2 DEF ContractsInv, FilesAccepted, WritePcs
<1>2. ASSUME NEW why, Ends(why) PROVE ContractsInv'
    <2>1. run'.pc = "none" /\ UNCHANGED generated
        BY <1>2, FinishRun DEF Ends
    <2> QED  BY <2>1 DEF ContractsInv, FilesAccepted, WritePcs
<1>3. CASE NextEntry
    <2>1. run.pc = "load" /\ (run.loaded \/ Entry.kind = "paired") \in BOOLEAN
        BY <1>3 DEF NextEntry, GenInv, RunType
    <2>2. run'.pc = "load" /\ UNCHANGED generated
        BY <1>3, <2>1, NextEntryRun DEF NextEntry, RunFrame
    <2> QED  BY <2>2 DEF ContractsInv, FilesAccepted, WritePcs
<1>4. CASE NextFormat
    <2>1. run'.pc = "load" /\ UNCHANGED generated
        BY <1>4, FormatRun DEF NextFormat, RunFrame
    <2> QED  BY <2>1 DEF ContractsInv, FilesAccepted, WritePcs
<1>5. CASE Accept
    <2>1. /\ run'.schema = Schema /\ run.pc = "load" /\ "throws" \notin Found /\ ~ Blocks(Entry, Found)
          /\ run'.entries = run.entries
        BY <1>5, AcceptRun
    <2>2. UNCHANGED generated
        BY <1>5 DEF Accept
    <2>3. "error" \notin Found
        BY <2>1 DEF Blocks
    <2>4. Schema \in SchemaFiles /\ Entry.kind \in Kinds
        BY <2>1, FoundType
    <2>5. Schema.local \in AcceptedSchemas(Entry.kind = "paired")
        BY <2>1, <2>3, <2>4, AcceptedOutcome DEF Found, SchemaFiles
    <2>6. Entry' = Entry
        BY <2>1 DEF Entry
    <2> QED  BY <2>1, <2>2, <2>5, <2>6 DEF ContractsInv, FilesAccepted
<1>6. CASE Writing
    BY <1>6, ContractsWrite
<1> QED  BY <1>1, <1>2, <1>3, <1>4, <1>5, <1>6, GeneratorCases

(* There is no contract at first.                                           *)
LEMMA InitContracts == Init => ContractsInv
<1> SUFFICES ASSUME Init PROVE ContractsInv
    OBVIOUS
<1>1. run = NoRun /\ generated = [d \in Dirs |-> [n \in 0..MaxDay |-> EmptyDir]]
    BY DEF Init, GeneratorInit
<1>2. run.pc = "none"
    BY <1>1 DEF NoRun
<1> QED  BY <1>1, <1>2 DEF ContractsInv, FilesAccepted, WritePcs, EmptyDir

(* Every step keeps them so.                                                *)
LEMMA NextContracts == TypeInv /\ ContractsInv /\ [Next]_vars => ContractsInv'
<1> SUFFICES ASSUME TypeInv, ContractsInv, [Next]_vars PROVE ContractsInv'
    OBVIOUS
<1>t. /\ GenInv /\ DatesInv /\ Links /\ run \in RunType /\ day \in 0..MaxDay /\ disk \in SchemaFiles
    BY DEF TypeInv, GenInv, WorkbenchTypeOK, SchemaFiles
<1>1. CASE GeneratorNext
    BY <1>1, <1>t, ContractsStep
<1>2. ASSUME UNCHANGED <<run, generated>> PROVE ContractsInv'
    BY <1>2 DEF ContractsInv, FilesAccepted, Entry
<1>3. CASE Edit
    <2>1. run'.pc = run.pc /\ run'.schema = run.schema /\ run'.entries = run.entries
        BY <1>3, <1>t, EditedRun DEF Edit
    <2>2. UNCHANGED generated
        BY <1>3 DEF Edit
    <2> QED  BY <2>1, <2>2 DEF ContractsInv, FilesAccepted, Entry
<1>4. CASE StartOver
    <2>1. UNCHANGED run /\ generated' = [d \in Dirs |-> [n \in 0..MaxDay |-> EmptyDir]]
        BY <1>4 DEF StartOver
    <2> QED  BY <2>1 DEF ContractsInv, FilesAccepted, EmptyDir, Entry
<1>5. CASE ScaffoldStep
    BY <1>2, <1>5 DEF ScaffoldStep
<1>6. CASE UNCHANGED generator
    BY <1>2, <1>6 DEF generator
<1> QED  BY <1>1, <1>3, <1>4, <1>5, <1>6 DEF Next, vars

(* ParentsFirst for any schemas, config modules and days: whatever an entry *)
(* was diagnosed with, the contract file of a dated directory lists each    *)
(* table once, behind those it refers to (fk-order.ts:100).                 *)
THEOREM ContractsAreOrdered == Spec => []ParentsFirst
<1>1. ContractsInv => ParentsFirst
    BY AcceptedIsRight DEF ContractsInv, FilesAccepted, ParentsFirst, ContractOf
<1> QED  BY <1>1, TypesHold, InitContracts, NextContracts, PTL DEF Spec

(* OnlySyncableTables for any schemas, config modules and days: no table    *)
(* reaches a contract file without the key, the columns and their types     *)
(* that SyncableTable names (diagnostics.ts); is_synced is there unless the *)
(* contract declares it local-only, which a paired one does by default.     *)
THEOREM ContractsAreSyncable == Spec => []OnlySyncableTables
<1>1. ContractsInv => OnlySyncableTables
    BY AcceptedIsRight DEF ContractsInv, FilesAccepted, OnlySyncableTables, ContractOf
<1> QED  BY <1>1, TypesHold, InitContracts, NextContracts, PTL DEF Spec
=============================================================================
