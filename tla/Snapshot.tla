------------------------------ MODULE Snapshot ------------------------------
(***************************************************************************)
(* Snapshot files: write_snapshot and read_snapshot                        *)
(* (src/persist/snapshot.cpp), and reload as start uses it                 *)
(* (src/runtime/observatory.cpp).                                          *)
(*                                                                         *)
(* A file holds one complete snapshot, known by the number of its save, or *)
(* bytes that fail the integrity checks of load_once.  Every file system   *)
(* call of a save is one step; any call, of a save or of a read, may fail, *)
(* the process may crash between any two steps of a save, and a file may   *)
(* be damaged on disk.  The state lock makes saves of one process          *)
(* exclusive.                                                              *)
(***************************************************************************)
EXTENDS Integers

CONSTANTS
  MaxSaves,      \* bound: calls of write_snapshot
  MaxCrashes,    \* bound: crashes of the process
  MaxFailures,   \* bound: file system calls that fail
  MaxDamage      \* bound: files damaged on disk

ASSUME SnapshotAssumption ==
  /\ MaxSaves \in Nat /\ MaxCrashes \in Nat
  /\ MaxFailures \in Nat /\ MaxDamage \in Nat

Paths == {"path", "prev", "tmp"}
Absent == -1
Corrupt == -2
Nothing == 0       \* no snapshot: the state of a process that started empty
Unusable == -3     \* neither file loads and the primary is there

VARIABLES
  files,        \* what each path holds
  pc,           \* where the process is in write_snapshot, or "down"
  saves,        \* the number of the last save begun
  reported,     \* history: the saves that reported success
  knows,        \* history: the reported saves the running state descends from
  lineage,      \* history: per save, itself and what its process knew
  misread,      \* history: a start met a read that failed
  unseen,       \* history: a save did not see the primary it should rotate
  crashes, failures, damage

history == <<reported, knows, lineage>>
vars == <<files, pc, saves, history, misread, unseen, crashes, failures, damage>>

Pcs == {"run", "opened", "written", "rotate", "discard", "install", "down"}
Saves == 1..MaxSaves

TypeOK ==
  /\ files \in [Paths -> {Absent, Corrupt} \cup Saves]
  /\ pc \in Pcs
  /\ saves \in 0..MaxSaves
  /\ reported \in SUBSET Saves /\ knows \in SUBSET Saves
  /\ lineage \in [Saves -> SUBSET Saves]
  /\ misread \in BOOLEAN /\ unseen \in BOOLEAN
  /\ crashes \in Nat /\ failures \in Nat /\ damage \in Nat

Init ==
  /\ files = [p \in Paths |-> Absent]
  /\ pc = "run"
  /\ saves = 0 /\ reported = {} /\ knows = {}
  /\ lineage = [n \in Saves |-> {}]
  /\ misread = FALSE /\ unseen = FALSE
  /\ crashes = 0 /\ failures = 0 /\ damage = 0

-----------------------------------------------------------------------------
(***************************************************************************)
(* read_snapshot.  load_once says of a file what is there, or that it      *)
(* could not be opened, which the code does not tell from an absent file,  *)
(* or that reading it failed.                                              *)
(***************************************************************************)
Exists(p) == files[p] # Absent
Good(p) == files[p] > 0

Content(p) == CASE files[p] = Absent  -> "NotFound"
                [] files[p] = Corrupt -> "CorruptData"
                [] files[p] > 0       -> "ok"

LoadOutcomes(p) == IF Exists(p) THEN {Content(p), "NotFound", "IoError"} ELSE {"NotFound"}

\* The primary, or the backup when the primary is unusable.  When both are,
\* the status is the primary's, whatever became of the backup.
ReadSnapshot(primary, backup) ==
  CASE primary = "ok"                           -> files["path"]
    [] primary # "ok" /\ backup = "ok"          -> files["prev"]
    [] primary = "NotFound" /\ backup # "ok"    -> Nothing
    [] primary \notin {"ok", "NotFound"} /\ backup # "ok" -> Unusable

\* What a start would load now if no call of it failed.
LoadedVersion == ReadSnapshot(Content("path"), Content("prev"))

-----------------------------------------------------------------------------
(***************************************************************************)
(* write_snapshot.                                                         *)
(***************************************************************************)
Fails == failures < MaxFailures /\ failures' = failures + 1
Works == UNCHANGED failures
Keep == UNCHANGED <<saves, history, misread, crashes, damage>>

\* Opening the temporary truncates it.  A snapshot over the size bound, or a
\* temporary that cannot be created, ends the save before any file changed.
OpenTemporary ==
  /\ pc = "run" /\ saves < MaxSaves
  /\ saves' = saves + 1
  /\ lineage' = [lineage EXCEPT ![saves + 1] = knows \cup {saves + 1}]
  /\ \/ Works /\ pc' = "opened" /\ files' = [files EXCEPT !["tmp"] = Corrupt]
     \/ Fails /\ UNCHANGED <<pc, files>>
  /\ UNCHANGED <<reported, knows, misread, unseen, crashes, damage>>

WriteTemporary ==
  /\ pc = "opened"
  /\ \/ Works /\ pc' = "written" /\ files' = [files EXCEPT !["tmp"] = saves]
     \/ Fails /\ pc' = "run" /\ UNCHANGED files
  /\ UNCHANGED unseen
  /\ Keep
\* Mutant: the backup is removed even when there is no primary to rotate.
RemoveBackup_Always ==
  /\ pc = "written"
  /\ pc' = IF Exists("path") THEN "rotate" ELSE "install"
  /\ \/ Works /\ files' = [files EXCEPT !["prev"] = Absent]
     \/ Fails /\ UNCHANGED files
  /\ UNCHANGED unseen
  /\ Keep
\* Mutant: the new snapshot simply replaces the primary.
RemoveBackup_InPlace ==
  /\ pc = "written" /\ pc' = "install"
  /\ UNCHANGED <<files, failures, unseen>>
  /\ Keep

\* A backup that cannot be removed is not an error: the rename replaces it.
\* A primary that cannot be opened is taken for absent and not rotated.
RemoveBackup ==
  /\ pc = "written"
  /\ \/ /\ Exists("path") /\ pc' = "rotate" /\ UNCHANGED unseen
        /\ \/ Works /\ files' = [files EXCEPT !["prev"] = Absent]
           \/ Fails /\ UNCHANGED files
     \/ Exists("path") /\ Fails /\ pc' = "install" /\ unseen' = TRUE /\ UNCHANGED files
     \/ ~Exists("path") /\ Works /\ pc' = "install" /\ UNCHANGED <<files, unseen>>
  /\ Keep

Rotate ==
  /\ pc = "rotate"
  /\ \/ /\ Works /\ pc' = "install"
        /\ files' = [files EXCEPT !["prev"] = files["path"], !["path"] = Absent]
     \/ Fails /\ pc' = "discard" /\ UNCHANGED files
  /\ UNCHANGED unseen
  /\ Keep

\* The rotation failed: the temporary is removed, if that works.
DiscardTemporary ==
  /\ pc = "discard" /\ pc' = "run"
  /\ \/ Works /\ files' = [files EXCEPT !["tmp"] = Absent]
     \/ Fails /\ UNCHANGED files
  /\ UNCHANGED unseen
  /\ Keep

\* The rename replaces whatever the primary's name holds.
Install ==
  /\ pc = "install" /\ pc' = "run"
  /\ \/ /\ Works
        /\ reported' = reported \cup {saves} /\ knows' = knows \cup {saves}
        /\ files' = [files EXCEPT !["path"] = files["tmp"], !["tmp"] = Absent]
     \/ Fails /\ UNCHANGED <<files, reported, knows>>
  /\ UNCHANGED <<saves, lineage, misread, unseen, crashes, damage>>

WriterStep ==
  OpenTemporary \/ WriteTemporary \/ RemoveBackup \/ Rotate \/ DiscardTemporary \/ Install

-----------------------------------------------------------------------------
Crash ==
  /\ pc # "down" /\ crashes < MaxCrashes
  /\ pc' = "down" /\ crashes' = crashes + 1
  /\ UNCHANGED <<files, saves, history, misread, unseen, failures, damage>>

\* start: reload restores what read_snapshot yields and starts empty when it
\* says NotFound; on any other failure start fails and the process stays down.
\* The backup is read only when the primary did not load.
Restart(primary, backup) ==
  /\ pc = "down" /\ pc' = "run"
  /\ primary = "ok" => backup = Content("prev")
  /\ LET version == ReadSnapshot(primary, backup) IN
     /\ version # Unusable
     /\ knows' = IF version = Nothing THEN {} ELSE lineage[version]
  /\ IF primary = Content("path") /\ backup = Content("prev")
     THEN Works /\ UNCHANGED misread ELSE Fails /\ misread' = TRUE
  /\ UNCHANGED <<files, saves, reported, lineage, unseen, crashes, damage>>

\* A file loses its integrity on disk.
Damage ==
  /\ damage < MaxDamage /\ damage' = damage + 1
  /\ \E p \in Paths : Good(p) /\ files' = [files EXCEPT ![p] = Corrupt]
  /\ UNCHANGED <<pc, saves, history, misread, unseen, crashes, failures>>

Start ==
  \E primary \in LoadOutcomes("path"), backup \in LoadOutcomes("prev") : Restart(primary, backup)

Next == WriterStep \/ Crash \/ Start \/ Damage

Spec == Init /\ [][Next]_vars

-----------------------------------------------------------------------------
(***************************************************************************)
(* Properties.                                                             *)
(***************************************************************************)
\* A save that reported success survives crashes and failed calls at any step
\* of later saves: as long as no file was damaged, what a start whose reads
\* work would load is that save or a newer one.
SavedSurvives ==
  damage = 0 => \A n \in reported : LoadedVersion >= n

\* Saves accumulate: unless a read of a start failed or a file was damaged,
\* every reported save was taken by a process that had loaded, through however
\* many crashes and restarts, every save reported before it.
SavesAccumulate ==
  damage = 0 /\ ~misread => \A n, m \in reported : n < m => n \in lineage[m]

OnDisk(n) == \E p \in {"path", "prev"} : Good(p) /\ n \in lineage[files[p]]

\* A start that could not open a good snapshot runs from the backup, or empty,
\* and goes on saving.  What it did not read is not lost with its first save:
\* a reported save is in a file the reader looks at until a process that did
\* not know it has reported one save and begun another, whatever crashed or
\* failed between; only a save that did not see the primary shortens this.
UnreadIsKept ==
  damage = 0 /\ ~unseen =>
    \A n \in reported :
      OnDisk(n) \/ \E m \in reported : n < m /\ m < saves /\ n \notin lineage[m]

\* While nothing is being written and nothing was damaged, neither file the
\* reader looks at is torn, and a backup next to a primary is the older one.
RestingFiles ==
  damage = 0 /\ pc \in {"run", "down"} =>
    /\ files["path"] # Corrupt /\ files["prev"] # Corrupt
    /\ Good("path") /\ Good("prev") => files["prev"] < files["path"]
=============================================================================
