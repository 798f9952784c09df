--------------------------- MODULE ContractBuild ---------------------------
(***************************************************************************)
(* `contract build` (commands/contract/build.rs): cargo compiles the        *)
(* selected packages one after the other, the command rewrites each wasm    *)
(* file with the --meta entries, and copies it to --out-dir.                *)
(*                                                                         *)
(* Cargo is external.  It compiles to a file of its own, only when the      *)
(* sources have changed, and always puts that file where the command looks  *)
(* for it: as a hard link, or as a copy where links are not to be had.      *)
(***************************************************************************)
EXTENDS Naturals, Sequences

CONSTANTS
    Workspace,      \* the packages, in the order of `cargo metadata`
    Lines,          \* command lines
    Links,          \* whether cargo puts a hard link: a set of Booleans
    Edits,          \* bound on the edits of each package's sources
    MaxMeta,        \* bound on the meta entries that pile up in a file of cargo's
    None

Names == {Workspace[i].name : i \in DOMAIN Workspace}

\* manifest is the package whose Cargo.toml the command was pointed to or started beside.
LinesAssumption ==
    Lines \subseteq [package : Names \cup {None, "no such package"}, manifest : Names \cup {None},
                     meta : Seq({"a", "b"}), out : BOOLEAN, print : BOOLEAN]
LinksAssumption == Links \subseteq BOOLEAN
\* Cargo refuses a workspace in which two packages have one name.
WorkspaceAssumption ==
    /\ Workspace \in Seq([name : Names, default : BOOLEAN, cdylib : BOOLEAN])
    /\ \A i, j \in DOMAIN Workspace : Workspace[i].name = Workspace[j].name => i = j

VARIABLES
    sources,    \* the version of each package's sources
    compiled,   \* the version that cargo compiled last
    deps,       \* cargo's own wasm files
    linked,     \* whether the file in the target directory is the same inode
    target,     \* the wasm files in the target directory
    outdir,     \* those in the output directory
    pc, line,
    todo,       \* the packages still to build, by their places in the workspace
    anew,       \* the packages that cargo compiled in this command
    bytes       \* the wasm that was read

vars == <<sources, compiled, deps, linked, target, outdir, pc, line, todo, anew, bytes>>
cargo == <<sources, compiled, linked>>

Absent == [code |-> 0, meta |-> << >>]
Wasm(v) == [code |-> v, meta |-> << >>]
Truncated == [code |-> 0, meta |-> <<"truncated">>]

Init ==
    /\ sources = [k \in Names |-> 1]
    /\ compiled = [k \in Names |-> 0]
    /\ deps = [k \in Names |-> Absent]
    /\ linked = [k \in Names |-> FALSE]
    /\ target = [k \in Names |-> Absent]
    /\ outdir = [k \in Names |-> Absent]
    /\ pc = "idle" /\ line = None /\ todo = {} /\ anew = {} /\ bytes = Absent

-----------------------------------------------------------------------------
\* The package that is named, or that the manifest is of, or all the default members of
\* the workspace that build to cdylib.
Packages(l) ==
    LET name == IF l.package # None THEN l.package ELSE l.manifest
        Selected(p) == IF name # None THEN p.name = name ELSE p.default /\ p.cdylib
    IN  {i \in DOMAIN Workspace : Selected(Workspace[i])}

Run(l) ==
    /\ pc = "idle" /\ \A k \in Names : Len(deps[k].meta) <= MaxMeta
    /\ line' = l
    /\ todo' = Packages(l)
    /\ anew' = {}
    /\ pc' = (IF l.package # None /\ Packages(l) = {} THEN "failed"    \* PackageNotFound
              ELSE IF l.print \/ Packages(l) = {} THEN "done" ELSE "cargo")
    /\ UNCHANGED <<cargo, deps, target, outdir, bytes>>

\* The package that is built now: the first in the order of the metadata.
First == CHOOSE i \in todo : \A j \in todo : i <= j
Package == Workspace[First].name

\* Where the command goes on when the wasm file is ready, and when its copy is.
Built == IF todo # {First} THEN "cargo" ELSE "done"
AfterMeta == IF line.out THEN "out" ELSE Built

\* Mutant of AfterCargo: the copy does not wait for the meta entries.
AfterCargoCopies == IF line.out THEN "out" ELSE IF line.meta # << >> THEN "read" ELSE Built
AfterCargo == IF line.meta # << >> THEN "read" ELSE AfterMeta

\* The package is done with when the next step is not about it.
Advance(to) ==
    /\ pc' = to
    /\ todo' = IF to \in {"cargo", "done"} THEN todo \ {First} ELSE todo

Cargo ==
    /\ pc = "cargo"
    /\ LET k     == Package
           fresh == compiled[k] = sources[k]
           wasm  == IF fresh THEN deps[k] ELSE Wasm(sources[k])
       IN  /\ compiled' = [compiled EXCEPT ![k] = sources[k]]
           /\ anew' = IF fresh THEN anew ELSE anew \cup {k}
           /\ deps' = [deps EXCEPT ![k] = wasm]
           /\ \E l \in Links : linked' = [linked EXCEPT ![k] = l \/ (fresh /\ linked[k])]
           /\ target' = [target EXCEPT ![k] = wasm]
    /\ Advance(AfterCargo)
    /\ UNCHANGED <<sources, outdir, line, bytes>>

\* cargo, or one of the file accesses, fails; the rest of the packages are not built.
Fail ==
    /\ pc \notin {"idle", "done", "failed"}
    /\ pc' = "failed"
    /\ UNCHANGED <<cargo, deps, target, outdir, line, todo, anew, bytes>>

\* Writing in place reaches cargo's file too, when both are one inode.
Overwrite(k, wasm) ==
    /\ target' = [target EXCEPT ![k] = wasm]
    /\ deps' = IF linked[k] THEN [deps EXCEPT ![k] = wasm] ELSE deps

ReadWasm ==
    /\ pc = "read"
    /\ bytes' = target[Package]
    /\ pc' = "truncate"
    /\ UNCHANGED <<cargo, deps, target, outdir, line, todo, anew>>

TruncateWasm ==
    /\ pc = "truncate"
    /\ Overwrite(Package, Truncated)
    /\ pc' = "write"
    /\ UNCHANGED <<cargo, outdir, line, todo, anew, bytes>>

WriteWasm ==
    /\ pc = "write"
    /\ Overwrite(Package, [bytes EXCEPT !.meta = @ \o line.meta])
    /\ Advance(AfterMeta)
    /\ UNCHANGED <<cargo, outdir, line, anew, bytes>>

CopyOut ==
    /\ pc = "out"
    /\ outdir' = [outdir EXCEPT ![Package] = target[Package]]
    /\ Advance(Built)
    /\ UNCHANGED <<cargo, deps, target, line, anew, bytes>>

\* The user edits sources, also while the command runs, and runs the next command.
Edit(k) ==
    /\ sources[k] < 1 + Edits
    /\ sources' = [sources EXCEPT ![k] = @ + 1]
    /\ UNCHANGED <<compiled, deps, linked, target, outdir, pc, line, todo, anew, bytes>>

NextCommand ==
    /\ pc \in {"done", "failed"}
    /\ pc' = "idle" /\ todo' = {} /\ anew' = {} /\ bytes' = Absent
    /\ UNCHANGED <<cargo, deps, target, outdir, line>>

Next ==
    \/ \E l \in Lines : Run(l)
    \/ Cargo \/ Fail \/ ReadWasm \/ TruncateWasm \/ WriteWasm \/ CopyOut
    \/ \E k \in Names : Edit(k)
    \/ NextCommand

BuildSpec == Init /\ [][Next]_vars

-----------------------------------------------------------------------------
\* The files of a package are of the sources that cargo compiled last, with the meta entries
\* of this command and no others, the one in the output directory too.
Exact(k) ==
    LET wasm == [code |-> compiled[k], meta |-> line.meta]
    IN  target[k] = wasm /\ (line.out => outdir[k] = wasm)

\* What the command left of the packages it selected, when it ran to its end.
Left == IF pc = "done" /\ ~line.print THEN {Workspace[i].name : i \in Packages(line)} ELSE {}

\* A build that succeeds leaves exact files, whatever builds were made, broken off or killed
\* before (the test build_with_metadata, which builds twice, expects the second meta alone).
BuildExact == \A k \in Left : Exact(k)

\* What holds with hard links: the files are exact of every package that was compiled anew,
\* and of every one whose file is cargo's copy.  Only a package that cargo finds up to date
\* and links again may carry what earlier builds wrote, or what a killed one left of it.
BuildExactAnew == \A k \in Left : (linked[k] => k \in anew) => Exact(k)

=============================================================================
