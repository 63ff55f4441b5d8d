------------------------------- MODULE Workbench -------------------------------
(* What the commands of the toolchain share: the machine's date, the two    *)
(* synced-schema files of packages/sync-contract/src, and the developer who *)
(* edits them and who runs one command at a time in a terminal.             *)
EXTENDS Integers

CONSTANTS Schemas,      \* what a synced-schema file can contain
          Edited,       \* what the developer may change a file to
          NoFile,       \* there is no such file
          MaxDay,       \* days in a behaviour
          Budgets       \* how often each thing may happen in a behaviour

Tools == {"scaffold", "generator", "skills"}
Happenings == Tools \cup {"edit", "midnight"}

ASSUME WorkbenchAssumption ==
    /\ MaxDay \in Nat /\ Budgets \subseteq [Happenings -> Nat]
    /\ NoFile \notin Schemas /\ Edited \subseteq Schemas \cup {NoFile}

VARIABLES day,       \* new Date().toISOString().slice(0, 10), as a number
          disk,      \* the contents of the two schema files
          terminal,  \* the command that runs, or "prompt"
          budget     \* how often each thing may still happen

workbench == <<day, disk, terminal, budget>>

WorkbenchTypeOK ==
    /\ day \in 0..MaxDay
    /\ disk \in [{"local", "api"} -> Schemas \cup {NoFile}]
    /\ terminal \in Tools \cup {"prompt"}
    /\ budget \in [Happenings -> Nat]

(* The files of a directory after some of them are written.                 *)
Put(paths, content, files) ==
    [p \in paths \cup DOMAIN files |-> IF p \in paths THEN content ELSE files[p]]

Spend(what) == budget[what] > 0 /\ budget' = [budget EXCEPT ![what] = @ - 1]

(* The developer starts a command, and the command ends.                    *)
Start(tool) == terminal = "prompt" /\ terminal' = tool /\ Spend(tool)
End == terminal' = "prompt" /\ UNCHANGED budget

Midnight ==
    /\ day < MaxDay /\ day' = day + 1 /\ Spend("midnight")
    /\ UNCHANGED <<disk, terminal>>

(* An edit, a checkout or a removal of one of the files.                    *)
EditFile ==
    /\ Spend("edit")
    /\ \E f \in {"local", "api"}, content \in Edited :
          disk[f] # content /\ disk' = [disk EXCEPT ![f] = content]
    /\ UNCHANGED <<day, terminal>>
=============================================================================
