------------------------- MODULE MaintenanceProofs -------------------------
(***************************************************************************)
(* Proofs about Maintenance for every value of its constants, any number   *)
(* of kills and disk failures included.                                    *)
(***************************************************************************)
EXTENDS Maintenance, TLAPS

Uniform == \A p, q \in Parts : tree[p] = tree[q] /\ tree[p] # Broken

(* While a release is copied it is staged, was not refused, and the copied *)
(* parts are its parts; the database could be backed up, and can be again. *)
CopySound ==
    At("copy") =>
        /\ zip \in Releases
        /\ process.code <= zip \/ AllowDowngrade
        /\ ~journal /\ db # Broken
        /\ \A p \in Parts \ process.todo : tree[p] = zip
        /\ damaged \/ tree["bot"] \in {process.code, zip, Broken}

BootSound == At("update") => process.code = tree["bot"]

ReportSound == At("report") => Uniform /\ ~damaged /\ zip = None

(* An interrupted copy leaves a tree of two releases only together with    *)
(* everything its repetition needs.                                        *)
MixedSound ==
    ~Uniform /\ ~damaged /\ ~At("copy") =>
        /\ At("down") \/ At("update")
        /\ zip \in Releases
        /\ ~journal /\ db # Broken
        /\ tree["bot"] = Broken \/ tree["bot"] <= zip \/ AllowDowngrade

ReportKept ==
    report # None => /\ zip = None /\ ~At("copy") /\ ~At("running")
                     /\ \A p \in Parts : tree[p] = report

(* The content a restore is about to overwrite is in a backup. *)
RestoreSound ==
    process.pc \in {"empty", "fill", "clear"} => restore # None /\ changes \in backups

TreeInv == CopySound /\ BootSound /\ ReportSound /\ MixedSound /\ ReportKept
Inv == TypeOK /\ TreeInv /\ RestoreSound /\ Recoverable

LEMMA InitInv == Init => Inv
<1> SUFFICES ASSUME Init PROVE Inv
  OBVIOUS
<1> USE MaintenanceAssumptions DEF Init, None, Broken, Empty
<1>1. TypeOK
  <2>1. PICK v \in Releases : /\ tree = [p \in Parts |-> v]
                              /\ process = [pc |-> "down", code |-> v, todo |-> {}]
    OBVIOUS
  <2>2. tree \in [Parts -> Releases \cup {Broken}]
    BY <2>1
  <2>3. process \in [pc : Starting \cup {"down", "running"}, code : Releases, todo : SUBSET Parts]
    BY <2>1
  <2>4. db \in Databases /\ changes \in Databases
    BY DEF Databases
  <2>5. faults \in 0..MaxFaults
    OBVIOUS
  <2>6. journal = FALSE /\ damaged = FALSE
    OBVIOUS
  <2>7. journal \in BOOLEAN /\ damaged \in BOOLEAN
    BY <2>6, Zenon
  <2> QED  BY <2>2, <2>3, <2>4, <2>5, <2>7 DEF TypeOK
<1>2. TreeInv
  BY DEF TreeInv, CopySound, BootSound, ReportSound, MixedSound, ReportKept, Uniform, At
<1>3. RestoreSound /\ Recoverable
  BY DEF RestoreSound, Recoverable
<1> QED  BY <1>1, <1>2, <1>3 DEF Inv

LEMMA CutShortHarm == CutShort \subseteq Harm
  BY DEF CutShort, Harm

LEMMA StartType ==
  ASSUME Inv, Start
  PROVE  TypeOK'
<1> USE MaintenanceAssumptions DEF Inv, TypeOK, Databases, Starting, disk, history,
        At, Goto, None, Broken, Empty
<1>1. CASE Boot
  BY <1>1 DEF Boot
<1>2. CASE NothingStaged
  BY <1>2 DEF NothingStaged
<1>3. CASE UpdateBegin
  BY <1>3 DEF UpdateBegin, Backup, CanBackup
<1>4. CASE UpdateFail
  BY <1>4 DEF UpdateFail
<1>5. CASE UpdateDone
  BY <1>5 DEF UpdateDone
<1>6. CASE UpdateReport
  BY <1>6 DEF UpdateReport, TreeInv, ReportSound, Uniform
<1>7. CASE CopyFail
  <2>1. harm' \subseteq Harm
    BY <1>7, CutShortHarm DEF CopyFail
  <2> QED  BY <1>7, <2>1 DEF CopyFail, Fault
<1>8. ASSUME NEW p \in Parts, CopyPart(p) PROVE TypeOK'
  BY <1>8 DEF CopyPart, TreeInv, CopySound
<1>9. CASE RestoreBegin
  BY <1>9 DEF RestoreBegin, Backup, CanBackup
<1>10. CASE NoRestore
  BY <1>10 DEF NoRestore
<1>11. CASE EmptyDb
  BY <1>11 DEF EmptyDb
<1>12. CASE FillDb
  <2>1. harm' \subseteq Harm
    BY <1>12 DEF FillDb, Harm
  <2> QED  BY <1>12, <2>1 DEF FillDb, RestoreSound
<1>13. CASE FillFail
  <2>1. harm' \subseteq Harm
    BY <1>13, CutShortHarm DEF FillFail
  <2> QED  BY <1>13, <2>1 DEF FillFail, Fault
<1>14. CASE RestoreDone
  BY <1>14 DEF RestoreDone
<1>15. CASE InitDb
  <2>1. journal' \in BOOLEAN
    BY <1>15 DEF InitDb
  <2>2. process' \in [pc : Starting \cup {"down", "running"}, code : Releases, todo : SUBSET Parts]
    BY <1>15 DEF InitDb
  <2> QED  BY <1>15, <2>1, <2>2, SMTT(30) DEF InitDb
<1>16. CASE Notify
  BY <1>16 DEF Notify
<1> QED
  BY <1>1, <1>2, <1>3, <1>4, <1>5, <1>6, <1>7, <1>8, <1>9, <1>10, <1>11, <1>12,
     <1>13, <1>14, <1>15, <1>16 DEF Start

LEMMA OtherType ==
  ASSUME Inv, Run \/ Kill \/ KillStaging
  PROVE  TypeOK'
<1> USE MaintenanceAssumptions DEF Inv, TypeOK, Databases, Starting, disk, history,
        At, Goto, None, Broken, Empty
<1>1. CASE Change
  BY <1>1 DEF Change
<1>2. CASE MakeBackup
  BY <1>2 DEF MakeBackup, Backup, CanBackup
<1>3. ASSUME NEW v \in Releases, StageUpdate(v) PROVE TypeOK'
  BY <1>3 DEF StageUpdate
<1>4. ASSUME NEW d \in Uploads, StageRestore(d) PROVE TypeOK'
  <2>1. d \in Databases \cup {Empty, Broken}
    BY DEF Uploads
  <2> QED  BY <1>4, <2>1 DEF StageRestore
<1>5. CASE CancelUpdate
  BY <1>5 DEF CancelUpdate
<1>6. CASE CancelRestore
  BY <1>6 DEF CancelRestore
<1>7. CASE Restart
  BY <1>7 DEF Restart
<1>8. CASE Kill
  <2>0. harm' \subseteq Harm
    BY <1>8, CutShortHarm DEF Kill
  <2>1. journal' \in BOOLEAN
    BY <1>8 DEF Kill
  <2>2. faults' \in 0..MaxFaults
    BY <1>8 DEF Kill, Fault
  <2>3. process' = [process EXCEPT !.pc = "down"]
    BY <1>8 DEF Kill
  <2> QED  BY <1>8, <2>0, <2>1, <2>2, <2>3 DEF Kill
<1>9. CASE KillStaging
  BY <1>9 DEF KillStaging, Fault
<1> QED  BY <1>1, <1>2, <1>3, <1>4, <1>5, <1>6, <1>7, <1>8, <1>9 DEF Run

LEMMA StartTree ==
  ASSUME Inv, Start
  PROVE  TreeInv'
<1> USE MaintenanceAssumptions DEF Inv, TypeOK, TreeInv, disk, history,
        At, Goto, None, Broken, Empty, Uniform
<1>1. CASE Boot
  BY <1>1 DEF Boot, CopySound, BootSound, ReportSound, MixedSound, ReportKept
<1>2. CASE NothingStaged
  BY <1>2 DEF NothingStaged, CopySound, BootSound, ReportSound, MixedSound, ReportKept
<1>3. CASE UpdateBegin
  BY <1>3 DEF UpdateBegin, Backup, CanBackup, Refused,
              CopySound, BootSound, ReportSound, MixedSound, ReportKept
<1>4. CASE UpdateFail
  BY <1>4 DEF UpdateFail, CanBackup, Refused,
              CopySound, BootSound, ReportSound, MixedSound, ReportKept
<1>5. CASE UpdateDone
  BY <1>5 DEF UpdateDone, CopySound, BootSound, ReportSound, MixedSound, ReportKept
<1>6. CASE UpdateReport
  BY <1>6 DEF UpdateReport, CopySound, BootSound, ReportSound, MixedSound, ReportKept
<1>7. CASE CopyFail
  BY <1>7 DEF CopyFail, Fault, CopySound, BootSound, ReportSound, MixedSound, ReportKept
<1>8. ASSUME NEW p \in Parts, CopyPart(p) PROVE TreeInv'
  BY <1>8 DEF CopyPart, CopySound, BootSound, ReportSound, MixedSound, ReportKept
<1>9. CASE RestoreBegin
  BY <1>9 DEF RestoreBegin, Backup, CanBackup,
              CopySound, BootSound, ReportSound, MixedSound, ReportKept
<1>10. CASE NoRestore
  BY <1>10 DEF NoRestore, CopySound, BootSound, ReportSound, MixedSound, ReportKept
<1>11. CASE EmptyDb
  BY <1>11 DEF EmptyDb, CopySound, BootSound, ReportSound, MixedSound, ReportKept
<1>12. CASE FillDb
  BY <1>12 DEF FillDb, CopySound, BootSound, ReportSound, MixedSound, ReportKept
<1>13. CASE FillFail
  BY <1>13 DEF FillFail, Fault, CopySound, BootSound, ReportSound, MixedSound, ReportKept
<1>14. CASE RestoreDone
  BY <1>14 DEF RestoreDone, CopySound, BootSound, ReportSound, MixedSound, ReportKept
<1>15. CASE InitDb
  BY <1>15 DEF InitDb, CopySound, BootSound, ReportSound, MixedSound, ReportKept
<1>16. CASE Notify
  BY <1>16 DEF Notify, CopySound, BootSound, ReportSound, MixedSound, ReportKept
<1> QED
  BY <1>1, <1>2, <1>3, <1>4, <1>5, <1>6, <1>7, <1>8, <1>9, <1>10, <1>11, <1>12,
     <1>13, <1>14, <1>15, <1>16 DEF Start

LEMMA OtherTree ==
  ASSUME Inv, Run \/ Kill \/ KillStaging
  PROVE  TreeInv'
<1> USE MaintenanceAssumptions DEF Inv, TypeOK, TreeInv, disk, history,
        At, Goto, None, Broken, Empty, Uniform,
        CopySound, BootSound, ReportSound, MixedSound, ReportKept
<1>1. CASE Change
  BY <1>1 DEF Change
<1>2. CASE MakeBackup
  BY <1>2 DEF MakeBackup, Backup, CanBackup
<1>3. ASSUME NEW v \in Releases, StageUpdate(v) PROVE TreeInv'
  BY <1>3 DEF StageUpdate
<1>4. ASSUME NEW d \in Uploads, StageRestore(d) PROVE TreeInv'
  BY <1>4 DEF StageRestore
<1>5. CASE CancelUpdate
  BY <1>5 DEF CancelUpdate
<1>6. CASE CancelRestore
  BY <1>6 DEF CancelRestore
<1>7. CASE Restart
  BY <1>7 DEF Restart
<1>8. CASE Kill
  <2>1. process'.pc = "down"
    BY <1>8 DEF Kill
  <2>2. At("update") \/ At("copy") => journal' = journal
    BY <1>8 DEF Kill
  <2>3. UNCHANGED <<tree, zip, report, db, damaged>>
    BY <1>8 DEF Kill
  <2>4. At("down") => FALSE
    BY <1>8 DEF Kill
  <2>5. CopySound' /\ BootSound' /\ ReportSound'
    BY <2>1
  <2>6. MixedSound'
    BY <2>1, <2>2, <2>3, <2>4
  <2>7. ReportKept'
    BY <2>1, <2>3
  <2> QED  BY <2>5, <2>6, <2>7
<1>9. CASE KillStaging
  BY <1>9 DEF KillStaging, Fault
<1> QED  BY <1>1, <1>2, <1>3, <1>4, <1>5, <1>6, <1>7, <1>8, <1>9 DEF Run

LEMMA StepRestore ==
  ASSUME Inv, Next
  PROVE  RestoreSound' /\ Recoverable'
<1> USE MaintenanceAssumptions DEF Inv, TypeOK, Databases, RestoreSound, Recoverable,
        disk, history, At, Goto, None, Broken, Empty
<1>1. CASE Boot \/ NothingStaged \/ UpdateFail
  BY <1>1 DEF Boot, NothingStaged, UpdateFail
<1>11. CASE UpdateBegin
  BY <1>11 DEF UpdateBegin, Backup
<1>12. CASE UpdateDone
  BY <1>12 DEF UpdateDone
<1>2. CASE UpdateReport \/ CopyFail \/ NoRestore \/ InitDb \/ Notify
  BY <1>2 DEF UpdateReport, CopyFail, NoRestore, InitDb, Notify
<1>3. ASSUME NEW p \in Parts, CopyPart(p) PROVE RestoreSound' /\ Recoverable'
  BY <1>3 DEF CopyPart
<1>4. CASE RestoreBegin
  BY <1>4 DEF RestoreBegin, Backup, CanBackup
<1>5. CASE EmptyDb \/ FillDb \/ FillFail \/ RestoreDone
  BY <1>5 DEF EmptyDb, FillDb, FillFail, RestoreDone
<1>6. CASE Change
  BY <1>6 DEF Change
<1>7. CASE MakeBackup
  BY <1>7 DEF MakeBackup, Backup
<1>8. ASSUME NEW v \in Releases, StageUpdate(v) PROVE RestoreSound' /\ Recoverable'
  BY <1>8 DEF StageUpdate
<1>9. ASSUME NEW d \in Uploads, StageRestore(d) PROVE RestoreSound' /\ Recoverable'
  BY <1>9 DEF StageRestore
<1>10. CASE CancelUpdate \/ CancelRestore \/ Restart \/ Kill \/ KillStaging
  BY <1>10 DEF CancelUpdate, CancelRestore, Restart, Kill, KillStaging
<1> QED
  BY <1>1, <1>2, <1>3, <1>4, <1>5, <1>6, <1>7, <1>8, <1>9, <1>10, <1>11, <1>12
  DEF Next, Start, Run

LEMMA StutterInv ==
  ASSUME Inv, UNCHANGED vars
  PROVE  Inv'
<1> USE DEF vars, disk, history, Inv
<1>1. TypeOK'
  BY DEF TypeOK
<1>2. TreeInv'
  BY DEF TreeInv, CopySound, BootSound, ReportSound, MixedSound, ReportKept, Uniform, At
<1>3. RestoreSound' /\ Recoverable'
  BY DEF RestoreSound, Recoverable
<1> QED  BY <1>1, <1>2, <1>3

LEMMA StepInv == Inv /\ [Next]_vars => Inv'
<1>1. ASSUME Inv, Next PROVE Inv'
  <2>1. TypeOK' /\ TreeInv'
    BY <1>1, StartType, OtherType, StartTree, OtherTree DEF Next
  <2>2. RestoreSound' /\ Recoverable'
    BY <1>1, StepRestore
  <2> QED  BY <2>1, <2>2 DEF Inv
<1> QED  BY <1>1, StutterInv

LEMMA Invariance == Spec => []Inv
  BY InitInv, StepInv, PTL DEF Spec

(* Whatever is staged and wherever the process is killed, the files of an  *)
(* installation are the ones the start of main can deal with.              *)
THEOREM TypeCorrect == Spec => []TypeOK
<1>1. Inv => TypeOK
  BY DEF Inv
<1> QED  BY <1>1, Invariance, PTL

(* No restore, update or kill loses the newest content of the database:    *)
(* apply_pending_restore empties data/bot.db only when what it held last   *)
(* is in data/backups.                                                     *)
THEOREM DataKept == Spec => []Recoverable
<1>1. Inv => Recoverable
  BY DEF Inv
<1> QED  BY <1>1, Invariance, PTL

(* A bot that polls has one release on disk, unless a full disk ended the  *)
(* last copy: _copy_release_into_install, killed anywhere, is repeated by  *)
(* apply_pending_update before anything else runs.                         *)
THEOREM TreeWhole == Spec => []RunningTreeWhole
<1>1. Inv => RunningTreeWhole
  BY DEF Inv, TreeInv, MixedSound, Uniform, RunningTreeWhole, At
<1> QED  BY <1>1, Invariance, PTL

(* A report of success is never about a release that is not wholly         *)
(* installed, however late after the copy it is read.                      *)
THEOREM ReportTrue == Spec => []ReportedInstalled
<1>1. Inv => ReportedInstalled
  BY DEF Inv, TreeInv, ReportKept, ReportedInstalled
<1> QED  BY <1>1, Invariance, PTL
=============================================================================
