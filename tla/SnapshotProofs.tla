--------------------------- MODULE SnapshotProofs ---------------------------
(***************************************************************************)
(* Crash safety of write_snapshot and read_snapshot, for any number of     *)
(* saves, crashes and failing file system calls.  None of the properties   *)
(* is inductive: they need to know what each step of the writer has        *)
(* already put where, and what each save descends from.                    *)
(***************************************************************************)
EXTENDS Snapshot, TLAPS

Saving == {"opened", "written", "rotate", "discard", "install"}

\* Every file, and every success reported, is a save that was begun.
Begun ==
  /\ \A n \in reported : n <= saves
  /\ \A p \in Paths : files[p] <= saves
  /\ pc \in Saving => /\ saves > 0
                      /\ \A n \in reported : n < saves
                      /\ files["path"] < saves /\ files["prev"] < saves

\* Without damage, the two files the reader looks at are whole and reported,
\* the temporary is whole once written, the primary is newer than the backup,
\* and the newest of them is the last success: the primary or, between the two
\* renames, the backup.
WholeFiles ==
  damage = 0 =>
    /\ files["path"] # Corrupt /\ files["prev"] # Corrupt
    /\ \A p \in {"path", "prev"} : Good(p) => files[p] \in reported
    /\ pc \in {"written", "rotate", "discard", "install"} => files["tmp"] = saves
    /\ pc = "rotate" => Exists("path")
    /\ pc = "install" /\ ~unseen => ~Exists("path")
    /\ Good("path") /\ Good("prev") => files["prev"] < files["path"]
    /\ \A n \in reported :
         \/ Good("path") /\ files["path"] >= n
         \/ ~Exists("path") /\ Good("prev") /\ files["prev"] >= n

\* A save holds itself and older ones; the save in progress holds what the
\* running process knows.
Lineage ==
  /\ \A n \in reported : n \in lineage[n]
  /\ \A n \in Saves : \A k \in lineage[n] : k <= n
  /\ \A k \in knows : k <= saves
  /\ pc \in Saving => lineage[saves] = knows \cup {saves}

\* While no read failed, the running process knows every reported save.
KnowsAll ==
  damage = 0 /\ ~misread =>
    /\ SavesAccumulate
    /\ pc # "down" => reported \subseteq knows

SnapshotInv == TypeOK /\ Begun /\ WholeFiles /\ Lineage /\ KnowsAll /\ UnreadIsKept

\* Each file has an integer content, each save is a number.
LEMMA FileTypes ==
  ASSUME TypeOK
  PROVE  /\ "path" \in Paths /\ "prev" \in Paths /\ "tmp" \in Paths
         /\ \A p \in Paths : files[p] \in Int /\ (Good(p) => files[p] \in Saves)
         /\ saves \in Nat /\ Saves \subseteq Nat /\ MaxSaves \in Nat
         /\ reported \subseteq Saves /\ knows \subseteq Saves
         /\ \A n \in Saves : lineage[n] \subseteq Saves
         /\ damage \in Nat
BY SnapshotAssumption DEF TypeOK, Paths, Absent, Corrupt, Saves, Good

LEMMA InvInit == Init => SnapshotInv
<1> SUFFICES ASSUME Init PROVE SnapshotInv
  OBVIOUS
<1>1. TypeOK
  <2>1. misread \in BOOLEAN /\ unseen \in BOOLEAN
    BY DEF Init
  <2>2. lineage \in [Saves -> SUBSET Saves] /\ files \in [Paths -> {Absent, Corrupt} \cup Saves]
    BY DEF Init
  <2>3. QED
    BY <2>1, <2>2, SnapshotAssumption DEF Init, TypeOK, Pcs
<1>2. Begun /\ WholeFiles /\ Lineage
  BY SnapshotAssumption
  DEF Init, Begun, WholeFiles, Lineage, Paths, Saving, Saves, Absent, Corrupt, Good, Exists
<1>3. KnowsAll /\ UnreadIsKept
  BY DEF Init, KnowsAll, SavesAccumulate, UnreadIsKept
<1>4. QED
  BY <1>1, <1>2, <1>3 DEF SnapshotInv

LEMMA InvStep == SnapshotInv /\ [Next]_vars => SnapshotInv'
<1> SUFFICES ASSUME SnapshotInv, [Next]_vars PROVE SnapshotInv'
  OBVIOUS
<1> USE FileTypes DEF SnapshotInv, history
<1>1. CASE OpenTemporary
  <2>1. TypeOK'
    BY <1>1 DEF OpenTemporary, Fails, Works, Keep, TypeOK, Pcs, Paths, Saves, Absent, Corrupt
  <2>2. Begun'
    BY <1>1 DEF OpenTemporary, Fails, Works, Keep, TypeOK, Begun, Paths, Saving, Saves, Absent, Corrupt
  <2>3. WholeFiles'
    BY <1>1 DEF OpenTemporary, Fails, Works, Keep, TypeOK, Begun, WholeFiles, Paths, Saving, Good, Exists, Absent, Corrupt
  <2>4. Lineage'
    BY <1>1 DEF OpenTemporary, Fails, Works, Keep, TypeOK, Begun, Lineage, Saving, Saves
  <2>5. KnowsAll'
    BY <1>1 DEF OpenTemporary, Fails, Works, Keep, TypeOK, Begun, Lineage, KnowsAll, SavesAccumulate, Saving
  <2>6. UnreadIsKept'
    BY <1>1 DEF OpenTemporary, Fails, Works, Keep, TypeOK, Begun, WholeFiles, Lineage, UnreadIsKept, OnDisk, Good, Exists, Paths, Saving, Absent, Corrupt
  <2>7. QED
    BY <2>1, <2>2, <2>3, <2>4, <2>5, <2>6
<1>2. CASE WriteTemporary
  <2>1. TypeOK'
    <3>1. saves \in Saves
      BY <1>2 DEF WriteTemporary, TypeOK, Begun, Saving, Saves
    <3>2. files' \in [Paths -> {Absent, Corrupt} \cup Saves]
      BY <1>2, <3>1 DEF WriteTemporary, TypeOK
    <3>3. QED
      BY <1>2, <3>2 DEF WriteTemporary, Fails, Works, Keep, TypeOK, Pcs
  <2>2. Begun'
    BY <1>2 DEF WriteTemporary, Fails, Works, Keep, TypeOK, Begun, Paths, Saving, Saves, Absent, Corrupt
  <2>3. WholeFiles'
    BY <1>2 DEF WriteTemporary, Fails, Works, Keep, TypeOK, Begun, WholeFiles, Paths, Saving, Good, Exists, Absent, Corrupt
  <2>4. Lineage'
    BY <1>2 DEF WriteTemporary, Fails, Works, Keep, TypeOK, Begun, Lineage, Saving, Saves
  <2>5. KnowsAll'
    BY <1>2 DEF WriteTemporary, Fails, Works, Keep, TypeOK, Begun, Lineage, KnowsAll, SavesAccumulate, Saving
  <2>6. UnreadIsKept'
    BY <1>2 DEF WriteTemporary, Fails, Works, Keep, TypeOK, Begun, WholeFiles, Lineage, UnreadIsKept, OnDisk, Good, Exists, Paths, Saving, Absent, Corrupt
  <2>7. QED
    BY <2>1, <2>2, <2>3, <2>4, <2>5, <2>6
<1>3. CASE RemoveBackup
  <2>1. TypeOK'
    <3>1. files' \in [Paths -> {Absent, Corrupt} \cup Saves]
      BY <1>3 DEF RemoveBackup, TypeOK
    <3>2. unseen' \in BOOLEAN
      BY <1>3 DEF RemoveBackup, TypeOK
    <3>3. QED
      BY <1>3, <3>1, <3>2 DEF RemoveBackup, Fails, Works, Keep, TypeOK, Pcs
  <2>2. Begun'
    BY <1>3 DEF RemoveBackup, Fails, Works, Keep, TypeOK, Begun, Paths, Saving, Saves, Absent, Corrupt
  <2>3. WholeFiles'
    BY <1>3 DEF RemoveBackup, Fails, Works, Keep, TypeOK, Begun, WholeFiles, Paths, Saving, Good, Exists, Absent, Corrupt
  <2>4. Lineage'
    BY <1>3 DEF RemoveBackup, Fails, Works, Keep, TypeOK, Begun, Lineage, Saving, Saves
  <2>5. KnowsAll'
    BY <1>3 DEF RemoveBackup, Fails, Works, Keep, TypeOK, Begun, Lineage, KnowsAll, SavesAccumulate, Saving
  <2>6. UnreadIsKept'
    BY <1>3 DEF RemoveBackup, Fails, Works, Keep, TypeOK, Begun, WholeFiles, Lineage, UnreadIsKept, OnDisk, Good, Exists, Paths, Saving, Absent, Corrupt
  <2>7. QED
    BY <2>1, <2>2, <2>3, <2>4, <2>5, <2>6
<1>4. CASE Rotate
  <2>1. TypeOK'
    BY <1>4 DEF Rotate, Fails, Works, Keep, TypeOK, Pcs, Paths, Saves, Absent, Corrupt
  <2>2. Begun'
    BY <1>4 DEF Rotate, Fails, Works, Keep, TypeOK, Begun, Paths, Saving, Saves, Absent, Corrupt
  <2>3. WholeFiles'
    BY <1>4 DEF Rotate, Fails, Works, Keep, TypeOK, Begun, WholeFiles, Paths, Saving, Good, Exists, Absent, Corrupt
  <2>4. Lineage'
    BY <1>4 DEF Rotate, Fails, Works, Keep, TypeOK, Begun, Lineage, Saving, Saves
  <2>5. KnowsAll'
    BY <1>4 DEF Rotate, Fails, Works, Keep, TypeOK, Begun, Lineage, KnowsAll, SavesAccumulate, Saving
  <2>6. UnreadIsKept'
    BY <1>4 DEF Rotate, Fails, Works, Keep, TypeOK, Begun, WholeFiles, Lineage, UnreadIsKept, OnDisk, Good, Exists, Paths, Saving, Absent, Corrupt
  <2>7. QED
    BY <2>1, <2>2, <2>3, <2>4, <2>5, <2>6
<1>5. CASE DiscardTemporary
  <2>1. TypeOK'
    BY <1>5 DEF DiscardTemporary, Fails, Works, Keep, TypeOK, Pcs, Paths, Saves, Absent, Corrupt
  <2>2. Begun'
    BY <1>5 DEF DiscardTemporary, Fails, Works, Keep, TypeOK, Begun, Paths, Saving, Saves, Absent, Corrupt
  <2>3. WholeFiles'
    BY <1>5 DEF DiscardTemporary, Fails, Works, Keep, TypeOK, Begun, WholeFiles, Paths, Saving, Good, Exists, Absent, Corrupt
  <2>4. Lineage'
    BY <1>5 DEF DiscardTemporary, Fails, Works, Keep, TypeOK, Begun, Lineage, Saving, Saves
  <2>5. KnowsAll'
    BY <1>5 DEF DiscardTemporary, Fails, Works, Keep, TypeOK, Begun, Lineage, KnowsAll, SavesAccumulate, Saving
  <2>6. UnreadIsKept'
    BY <1>5 DEF DiscardTemporary, Fails, Works, Keep, TypeOK, Begun, WholeFiles, Lineage, UnreadIsKept, OnDisk, Good, Exists, Paths, Saving, Absent, Corrupt
  <2>7. QED
    BY <2>1, <2>2, <2>3, <2>4, <2>5, <2>6
<1>6. CASE Install
  <2>0. saves \in Saves /\ pc \in Saving /\ pc' \notin Saving
    BY <1>6 DEF Install, TypeOK, Begun, Saving, Saves
  <2>1. TypeOK'
    <3>1. files' \in [Paths -> {Absent, Corrupt} \cup Saves]
      BY <1>6 DEF Install, TypeOK
    <3>2. reported' \in SUBSET Saves /\ knows' \in SUBSET Saves
      BY <1>6, <2>0 DEF Install, TypeOK
    <3>3. QED
      BY <1>6, <3>1, <3>2 DEF Install, Fails, Works, TypeOK, Pcs
  <2>2. Begun'
    <3>1. \A n \in reported' : n <= saves
      BY <1>6, <2>0 DEF Install, Begun
    <3>2. \A p \in Paths : files'[p] <= saves
      BY <1>6, <2>0 DEF Install, Begun, TypeOK, Absent
    <3>3. QED
      BY <1>6, <2>0, <3>1, <3>2 DEF Install, Begun
  <2>3. WholeFiles'
    BY <1>6 DEF Install, Fails, Works, Keep, TypeOK, Begun, WholeFiles, Paths, Saving, Good, Exists, Absent, Corrupt
  <2>4. Lineage'
    <3>1. saves \in lineage[saves]
      BY <2>0 DEF Lineage
    <3>2. /\ \A n \in reported' : n \in lineage[n]
          /\ \A k \in knows' : k <= saves
      BY <1>6, <2>0, <3>1 DEF Install, Lineage
    <3>3. QED
      BY <1>6, <2>0, <3>2 DEF Install, Lineage
  <2>5. KnowsAll'
    BY <1>6 DEF Install, Fails, Works, Keep, TypeOK, Begun, Lineage, KnowsAll, SavesAccumulate, Saving
  <2>6. UnreadIsKept'
    BY <1>6 DEF Install, Fails, Works, Keep, TypeOK, Begun, WholeFiles, Lineage, UnreadIsKept, OnDisk, Good, Exists, Paths, Saving, Absent, Corrupt
  <2>7. QED
    BY <2>1, <2>2, <2>3, <2>4, <2>5, <2>6
<1>7. CASE Crash
  <2>1. TypeOK'
    BY <1>7 DEF Crash, Fails, Works, Keep, TypeOK, Pcs, Paths, Saves, Absent, Corrupt
  <2>2. Begun'
    BY <1>7 DEF Crash, Fails, Works, Keep, TypeOK, Begun, Paths, Saving, Saves, Absent, Corrupt
  <2>3. WholeFiles'
    BY <1>7 DEF Crash, Fails, Works, Keep, TypeOK, Begun, WholeFiles, Paths, Saving, Good, Exists, Absent, Corrupt
  <2>4. Lineage'
    BY <1>7 DEF Crash, Fails, Works, Keep, TypeOK, Begun, Lineage, Saving, Saves
  <2>5. KnowsAll'
    BY <1>7 DEF Crash, Fails, Works, Keep, TypeOK, Begun, Lineage, KnowsAll, SavesAccumulate, Saving
  <2>6. UnreadIsKept'
    BY <1>7 DEF Crash, Fails, Works, Keep, TypeOK, Begun, WholeFiles, Lineage, UnreadIsKept, OnDisk, Good, Exists, Paths, Saving, Absent, Corrupt
  <2>7. QED
    BY <2>1, <2>2, <2>3, <2>4, <2>5, <2>6
<1>8. CASE Start
  <2> PICK primary \in LoadOutcomes("path"), backup \in LoadOutcomes("prev") :
         Restart(primary, backup)
    BY <1>8 DEF Start
  <2> DEFINE version == ReadSnapshot(primary, backup)
  <2>a. version # Nothing => version \in Saves
    <3>1. /\ primary = "ok" => Good("path")
          /\ backup = "ok" => Good("prev")
      BY DEF LoadOutcomes, Content, Exists, Good, TypeOK, Absent, Corrupt, Saves, Paths
    <3>2. QED
      BY <3>1 DEF Restart, ReadSnapshot
  <2>b. knows' = IF version = Nothing THEN {} ELSE lineage[version]
    BY DEF Restart
  <2> HIDE DEF version
  <2>1. TypeOK'
    <3>1. knows' \in SUBSET Saves
      BY <2>a, <2>b
    <3>2. misread' \in BOOLEAN
      BY DEF Restart, TypeOK
    <3>3. QED
      BY <3>1, <3>2 DEF Restart, Fails, Works, TypeOK, Pcs
  <2>2. Begun'
    BY <1>8 DEF Start, Restart, Fails, Works, Keep, TypeOK, Begun, Paths, Saving, Saves, Absent, Corrupt
  <2>3. WholeFiles'
    BY <1>8 DEF Start, Restart, Fails, Works, Keep, TypeOK, Begun, WholeFiles, Paths, Saving, Good, Exists, Absent, Corrupt
  <2>4. Lineage'
    <3>1. version # Nothing => version <= saves
      BY DEF version, ReadSnapshot, Restart, Begun
    <3>2. \A k \in knows' : k <= saves
      BY <2>a, <2>b, <3>1 DEF Lineage
    <3>3. QED
      BY <3>2 DEF Restart, Lineage, Saving
  <2>5. KnowsAll'
    <3> SUFFICES ASSUME damage = 0, ~misread', NEW n \in reported
                 PROVE  SavesAccumulate /\ n \in knows'
      BY DEF KnowsAll, SavesAccumulate, Restart
    <3>1. ~misread /\ primary = Content("path") /\ backup = Content("prev")
      BY DEF Restart
    <3>2. SavesAccumulate /\ \A k, m \in reported : k < m => k \in lineage[m]
      BY <3>1 DEF KnowsAll, SavesAccumulate
    <3>3. version \in reported /\ version >= n
      BY <3>1 DEF version, ReadSnapshot, Content, WholeFiles, Good, Exists, Absent, Corrupt
    <3>4. n \in lineage[version] /\ version # Nothing
      BY <3>2, <3>3 DEF Lineage, Nothing, Saves
    <3>5. QED
      BY <2>b, <3>2, <3>4
  <2>6. UnreadIsKept'
    BY <1>8 DEF Start, Restart, Fails, Works, Keep, TypeOK, Begun, WholeFiles, Lineage, UnreadIsKept, OnDisk, Good, Exists, Paths, Saving, Absent, Corrupt
  <2>7. QED
    BY <2>1, <2>2, <2>3, <2>4, <2>5, <2>6
<1>9. CASE Damage
  <2>1. TypeOK'
    BY <1>9 DEF Damage, Fails, Works, Keep, TypeOK, Pcs, Paths, Saves, Absent, Corrupt
  <2>2. Begun'
    BY <1>9 DEF Damage, Fails, Works, Keep, TypeOK, Begun, Paths, Saving, Saves, Absent, Corrupt
  <2>3. WholeFiles'
    BY <1>9 DEF Damage, Fails, Works, Keep, TypeOK, Begun, WholeFiles, Paths, Saving, Good, Exists, Absent, Corrupt
  <2>4. Lineage'
    BY <1>9 DEF Damage, Fails, Works, Keep, TypeOK, Begun, Lineage, Saving, Saves
  <2>5. KnowsAll'
    BY <1>9 DEF Damage, Fails, Works, Keep, TypeOK, Begun, Lineage, KnowsAll, SavesAccumulate, Saving
  <2>6. UnreadIsKept'
    BY <1>9 DEF Damage, Fails, Works, Keep, TypeOK, Begun, WholeFiles, Lineage, UnreadIsKept, OnDisk, Good, Exists, Paths, Saving, Absent, Corrupt
  <2>7. QED
    BY <2>1, <2>2, <2>3, <2>4, <2>5, <2>6
<1>10. CASE UNCHANGED vars
  BY <1>10 DEF vars, TypeOK, Begun, WholeFiles, Lineage, KnowsAll, SavesAccumulate, UnreadIsKept,
     OnDisk, Good, Exists
<1>11. QED
  BY <1>1, <1>2, <1>3, <1>4, <1>5, <1>6, <1>7, <1>8, <1>9, <1>10 DEF Next, WriterStep

LEMMA InvAlways == Spec => []SnapshotInv
BY InvInit, InvStep, PTL DEF Spec

\* Crash safety of write_snapshot: a save that reported success is what a start
\* would load, or something newer, at every later moment, however often the
\* process crashes inside later saves and whichever calls fail.
THEOREM SavedSnapshotSurvives == Spec => []SavedSurvives
<1>1. SnapshotInv => SavedSurvives
  BY FileTypes DEF SnapshotInv, WholeFiles, SavedSurvives, LoadedVersion, ReadSnapshot, Content,
     Good, Exists, Absent, Corrupt
<1>2. QED
  BY <1>1, InvAlways, PTL

\* Nothing but a read that fails makes a process save without what was saved
\* before it: otherwise each reported save descends from all earlier ones.
THEOREM SavesDescend == Spec => []SavesAccumulate
<1>1. SnapshotInv => SavesAccumulate
  BY DEF SnapshotInv, KnowsAll, SavesAccumulate
<1>2. QED
  BY <1>1, InvAlways, PTL

\* What a start failed to read stays where the reader looks until the process
\* that does not know it has reported a save and begun another.
THEOREM UnreadStays == Spec => []UnreadIsKept
<1>1. SnapshotInv => UnreadIsKept
  BY DEF SnapshotInv
<1>2. QED
  BY <1>1, InvAlways, PTL

\* Between saves the files the reader looks at are whole and in order, however
\* the last save ended, as long as nothing damaged them.
THEOREM FilesAtRest == Spec => []RestingFiles
<1>1. SnapshotInv => RestingFiles
  BY DEF SnapshotInv, WholeFiles, RestingFiles
<1>2. QED
  BY <1>1, InvAlways, PTL
=============================================================================
