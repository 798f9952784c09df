---------------------------- MODULE UpgradeCheck -----------------------------
(* The check for a new release, which main spawns beside the command: what it *)
(* remembers in upgrade_check.json, when it asks crates.io, and what it       *)
(* recommends.  Nothing waits for the check: when the command ends, it stops  *)
(* wherever it is.                                                            *)
EXTENDS Integers, FiniteSetsExt

CONSTANTS
  Procs,
  MaxVersion,  \* versions are 0 .. MaxVersion in semver order; 0 is 0.0.0
  Previews,    \* the versions with a pre-release part
  Interval,    \* MINIMUM_CHECK_INTERVAL
  MaxTime      \* bound: the clock

Versions == 0 .. MaxVersion

VersionsAssumption ==
  /\ Previews \subseteq Versions \ {0, 1}
  /\ MaxVersion \in Nat \ {0} /\ Interval \in Nat \ {0}

VARIABLES
  now,
  released,  \* the versions on crates.io
  file,      \* upgrade_check.json: {} when absent or truncated, or one record
  kept,      \* the time of the last check that was saved
  pc, version, checked, stats, said

vars == <<now, released, file, kept, pc, version, checked, stats, said>>

Epoch == -Interval     \* long before the clock starts
DefaultStats == [time |-> Epoch, stable |-> 0, latest |-> 0]

Init ==
  /\ now = 0 /\ released = {1} /\ file = {} /\ kept = Epoch
  /\ pc = [p \in Procs |-> "idle"]
  /\ version = [p \in Procs |-> 1]
  /\ checked = [p \in Procs |-> Epoch]
  /\ stats = [p \in Procs |-> DefaultStats]
  /\ said = [p \in Procs |-> {}]

Goto(p, label) == pc' = [pc EXCEPT ![p] = label]
MaxReleased == Max(released)
MaxStable == Max(released \ Previews)

(* A command of some released version starts its check, on a terminal and     *)
(* without STELLAR_NO_UPDATE_CHECK; otherwise there is no check.               *)
Spawn(p) ==
  /\ pc[p] = "idle"
  /\ \E v \in released : version' = [version EXCEPT ![p] = v]
  /\ said' = [said EXCEPT ![p] = {}]
  /\ checked' = [checked EXCEPT ![p] = Epoch]
  /\ stats' = [stats EXCEPT ![p] = DefaultStats]
  /\ Goto(p, "load")
  /\ UNCHANGED <<now, released, file, kept>>

(* UpgradeCheck::load; a file that is absent or does not parse is the default. *)
Loaded == IF file = {} THEN DefaultStats ELSE CHOOSE f \in file : TRUE

Load(p) ==
  /\ pc[p] = "load"
  /\ stats' = [stats EXCEPT ![p] = Loaded]
  /\ checked' = [checked EXCEPT ![p] = now]
  /\ Goto(p, IF now - Interval >= Loaded.time THEN "fetch" ELSE "warn")
  /\ UNCHANGED <<now, released, file, kept, version, said>>

(* A failed fetch that leaves no trace.                                       *)
FailedUntimed(p) == stats[p]

(* Only the time of the check is updated when the fetch failed.               *)
Failed(p) == [stats[p] EXCEPT !.time = checked[p]]

Fetch(p) ==
  /\ pc[p] = "fetch"
  /\ \/ stats' = [stats EXCEPT ![p] = [time |-> checked[p], stable |-> MaxStable,
                                       latest |-> MaxReleased]]
     \/ stats' = [stats EXCEPT ![p] = Failed(p)]
  /\ Goto(p, "truncate")
  /\ UNCHANGED <<now, released, file, kept, version, checked, said>>

(* UpgradeCheck::save opens and truncates the file, and writes it; when either *)
(* fails the check goes on with what it has.                                  *)
Truncate(p) ==
  /\ pc[p] = "truncate"
  /\ \/ file' = {} /\ Goto(p, "save")
     \/ Goto(p, "warn") /\ UNCHANGED file
  /\ UNCHANGED <<now, released, kept, version, checked, stats, said>>

Save(p) ==
  /\ pc[p] = "save"
  /\ \/ file' = {stats[p]} /\ kept' = checked[p]
     \/ UNCHANGED <<file, kept>>
  /\ Goto(p, "warn")
  /\ UNCHANGED <<now, released, version, checked, stats, said>>

(* The latest version, for everyone.                                          *)
LatestAny(v, s) == s.latest

(* A preview is told of previews until a newer stable version exists.         *)
GetLatestVersion(v, s) ==
  IF v \notin Previews \/ s.stable > v THEN s.stable ELSE s.latest

Warn(p) ==
  /\ pc[p] = "warn"
  /\ LET latest == GetLatestVersion(version[p], stats[p])
     IN  said' = [said EXCEPT ![p] = IF latest > version[p] THEN {latest} ELSE {}]
  /\ Goto(p, "idle")
  /\ UNCHANGED <<now, released, file, kept, version, checked, stats>>

(* The command ends, or is killed, and its check with it.                     *)
End(p) ==
  /\ pc[p] # "idle"
  /\ Goto(p, "idle")
  /\ UNCHANGED <<now, released, file, kept, version, checked, stats, said>>

Tick ==
  /\ now < MaxTime /\ now' = now + 1
  /\ UNCHANGED <<released, file, kept, pc, version, checked, stats, said>>

(* A version is published; crates.io keeps what it has.                       *)
Release ==
  /\ \E v \in Versions \ (released \cup {0}) : released' = released \cup {v}
  /\ UNCHANGED <<now, file, kept, pc, version, checked, stats, said>>

Next ==
  \/ Tick \/ Release
  \/ \E p \in Procs :
       Spawn(p) \/ Load(p) \/ Fetch(p) \/ Truncate(p) \/ Save(p) \/ Warn(p) \/ End(p)

UpgradeSpec == Init /\ [][Next]_vars

-----------------------------------------------------------------------------
(* However many checks run, stop half-way and overwrite each other's file,    *)
(* what one recommends is a released version, and to a user of a stable       *)
(* version a stable one.                                                      *)
RecommendsReleased ==
  \A p \in Procs : \A v \in said[p] :
    v \in released /\ (version[p] \notin Previews => v \notin Previews)

(* For commands that run one after the other, and may end at any point of     *)
(* their checks: once a check was saved, crates.io is not asked again before  *)
(* an Interval has passed, whether it answered or not, and whatever checks    *)
(* have been cut off or could not save since.                                 *)
QuietOnceSaved == \A p \in Procs : pc[p] = "fetch" => checked[p] >= kept + Interval
=============================================================================
