---------------------------- MODULE ContractInit ----------------------------
(***************************************************************************)
(* `contract init` (commands/contract/init.rs): the files of the workspace  *)
(* template, and then those of the contract template under the contract's   *)
(* name, are written one by one; what exists is skipped, unless --overwrite *)
(* is given.  A user may edit the files at any time, and the process may be *)
(* killed between creating a file and writing it.                          *)
(***************************************************************************)
EXTENDS Naturals, Sequences

CONSTANTS
    Contracts,      \* names of contracts
    MaxEdits,       \* bound on the edits of the user
    Kills,          \* bound on the kills
    Existing        \* what Cargo.toml the project's directory may hold before

Root == "workspace"
Paths == {Root, "README.md"} \X {Root} \cup {"Cargo.toml", "lib.rs"} \X Contracts
Manifest == <<Root, Root>>          \* the Cargo.toml of the project

Absent == "absent"
Empty == "empty"
Package == "a manifest that is no workspace root"
Template(c) == <<"template", c>>    \* a template's file, with the name of the contract in it
Edited(n) == <<"edited", n>>

VARIABLES
    files,      \* what each path holds
    pc, name, overwrite,
    todo,       \* the files still to be written
    edits,      \* the number of edits
    kills

vars == <<files, pc, name, overwrite, todo, edits, kills>>

Init ==
    /\ \E m \in Existing : files = [p \in Paths |-> IF p = Manifest THEN <<m>> ELSE <<Absent>>]
    /\ pc = "idle" /\ name = Root /\ overwrite = FALSE /\ todo = << >>
    /\ edits = 0 /\ kills = 0

\* The two loops of copy_template_files, in the order of Runner::run.
Files(c) == <<Manifest, <<"README.md", Root>>, <<"Cargo.toml", c>>, <<"lib.rs", c>>>>

Run(c, o) ==
    /\ pc = "idle"
    /\ pc' = "check" /\ name' = c /\ overwrite' = o /\ todo' = Files(c)
    /\ UNCHANGED <<files, edits, kills>>

\* Mutant of Skips: what exists is written again.
SkipsNone(p) == FALSE

\* An empty file exists.
Skips(p) == files[p] # <<Absent>> /\ ~overwrite

\* The name is put into every Cargo.toml, in place of %contract-template%.
Contents(p) == IF p[1] \in {Root, "Cargo.toml"} THEN Template(name) ELSE Template(Root)

CheckFile ==
    /\ pc = "check"
    /\ IF todo = << >> THEN pc' = "done" /\ UNCHANGED todo
       ELSE IF Skips(Head(todo)) THEN todo' = Tail(todo) /\ UNCHANGED pc
       ELSE pc' = "create" /\ UNCHANGED todo
    /\ UNCHANGED <<files, name, overwrite, edits, kills>>

CreateFile ==
    /\ pc = "create"
    /\ files' = [files EXCEPT ![Head(todo)] = <<Empty>>]
    /\ pc' = "write"
    /\ UNCHANGED <<name, overwrite, todo, edits, kills>>

WriteFile ==
    /\ pc = "write"
    /\ files' = [files EXCEPT ![Head(todo)] = Contents(Head(todo))]
    /\ pc' = "check" /\ todo' = Tail(todo)
    /\ UNCHANGED <<name, overwrite, edits, kills>>

\* The user changes a file that a command has written.
Edit(p) ==
    /\ edits < MaxEdits
    /\ files[p] \notin {<<Absent>>, <<Empty>>}
    /\ pc \in {"create", "write"} => p # Head(todo)
    /\ edits' = edits + 1
    /\ files' = [files EXCEPT ![p] = Edited(edits + 1)]
    /\ UNCHANGED <<pc, name, overwrite, todo, kills>>

\* The process is killed, or a file cannot be written.
Kill ==
    /\ pc \in {"check", "create", "write"} /\ kills < Kills
    /\ kills' = kills + 1 /\ pc' = "idle" /\ todo' = << >>
    /\ UNCHANGED <<files, name, overwrite, edits>>

NextCommand ==
    /\ pc = "done"
    /\ pc' = "idle"
    /\ UNCHANGED <<files, name, overwrite, todo, edits, kills>>

Next ==
    \/ \E c \in Contracts, o \in BOOLEAN : Run(c, o)
    \/ CheckFile \/ CreateFile \/ WriteFile \/ NextCommand \/ Kill
    \/ \E p \in Paths : Edit(p)

InitSpec == Init /\ [][Next]_vars

-----------------------------------------------------------------------------
\* "It can be run multiple times with different names in order to generate multiple
\* contracts, and files won't be overwritten unless `--overwrite` is passed": without it
\* the command's steps change no file that someone edited, and with it none of another
\* contract.
KeepsEdits ==
    \A p \in Paths : files[p][1] = "edited" /\ edits' = edits /\ files'[p] # files[p] =>
        overwrite /\ p[2] \in {Root, name}

=============================================================================
