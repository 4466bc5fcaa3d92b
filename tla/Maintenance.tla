---------------------------- MODULE Maintenance ----------------------------
(***************************************************************************)
(* Updates of the code and restores of the database (services/updater.py,  *)
(* services/backup.py, the start of bot/main.py).                          *)
(*                                                                         *)
(* An admin stages a release or a database file while the bot runs; the    *)
(* next start of the process, whatever brought it about, installs what it  *)
(* finds staged.  systemd starts the process again whenever it ends.  The  *)
(* process may be killed between any two steps, and in the middle of       *)
(* writing a file.                                                         *)
(*                                                                         *)
(* Abstractions.  A release is its version and holds every part of the     *)
(* program.  The content of a database is a number: how many changes the   *)
(* bot had made to it, over its life, at the last of them.  The two files  *)
(* a staging consists of are written and removed in one step, save for a   *)
(* kill in the middle of the first.  A database file is damaged when       *)
(* init_db cannot use it.  Messages are left out.                          *)
(***************************************************************************)
EXTENDS Integers

CONSTANTS
    Parts,          \* directories of the program a release replaces
    Releases,       \* versions that exist
    AllowDowngrade, \* allow_update_downgrade
    MaxFaults,      \* bound: kills of the process and failures of the disk
    MaxChanges      \* bound: changes of the database

ASSUME MaintenanceAssumptions ==
    /\ "bot" \in Parts
    /\ Releases \subseteq Nat \ {0}
    /\ Releases # {}
    /\ AllowDowngrade \in BOOLEAN
    /\ MaxFaults \in Nat
    /\ MaxChanges \in Nat \ {0}

None == 0           \* no file
Broken == -1        \* a damaged file: not written to its end, or never of use
Empty == -2         \* a database file with nothing in it

VARIABLES
    tree,           \* version of each installed part, Broken while it is replaced
    zip,            \* data/pending_update.zip
    target,         \* data/pending_update.json: the version the admin is shown
    report,         \* data/update_result.json: the version it says is installed
    db,             \* data/bot.db
    journal,        \* a rollback journal a killed process left beside it
    backups,        \* data/backups
    restore,        \* data/pending_restore.db, None or what it holds
    described,      \* whether data/pending_restore.json is there
    process,        \* the bot: where it is, the version of the code it runs
    changes,        \* history: changes of the database so far
    announced,      \* history: the version last announced as installed
    damaged,        \* history: a failing disk ended the last copy of a release
    harm,           \* history: what has left a damaged file in the installation
    faults

disk == <<tree, zip, target, report, db, journal, backups, restore, described>>
history == <<changes, announced, damaged, harm, faults>>
vars == <<disk, process, history>>

Databases == 1..MaxChanges
Harm == {"release cut", "restore cut", "damaged file restored"}
Starting == {"update", "copy", "report", "restore", "empty", "fill", "clear", "init", "notify"}

TypeOK ==
    /\ tree \in [Parts -> Releases \cup {Broken}]
    /\ zip \in Releases \cup {None, Broken}
    /\ target \in Releases \cup {None}
    /\ report \in Releases \cup {None}
    /\ db \in Databases \cup {Empty, Broken}
    /\ journal \in BOOLEAN
    /\ backups \subseteq Databases \cup {Empty}
    /\ restore \in Databases \cup {None, Empty, Broken}
    /\ described \in BOOLEAN
    /\ process \in [pc : Starting \cup {"down", "running"},
                    code : Releases, todo : SUBSET Parts]
    /\ changes \in Databases
    /\ announced \in Releases \cup {None}
    /\ damaged \in BOOLEAN
    /\ harm \subseteq Harm
    /\ faults \in 0..MaxFaults

Init ==
    /\ \E v \in Releases :
          /\ tree = [p \in Parts |-> v]
          /\ process = [pc |-> "down", code |-> v, todo |-> {}]
    /\ zip = None /\ target = None /\ report = None
    /\ db = 1 /\ journal = FALSE
    /\ backups = {} /\ restore = None /\ described = FALSE
    /\ changes = 1 /\ announced = None /\ damaged = FALSE /\ harm = {} /\ faults = 0

-----------------------------------------------------------------------------
At(step) == process.pc = step
Goto(step) == process' = [process EXCEPT !.pc = step]
Fault == faults < MaxFaults /\ faults' = faults + 1

(* The harm done if the copy under way is never finished. *)
CutShort == {h \in {"release cut", "restore cut"} :
    IF h = "release cut" THEN At("copy") /\ \E p \in Parts : tree[p] = Broken
                         ELSE At("fill") /\ db = Broken}

(* Mistaken variants of a definition, each of which a run must refute, stand *)
(* before the definition they vary and are used by none.                     *)

(* mistake: the file is copied whatever it holds *)
CanCopyAnything == ~journal

(* create_backup reads the database without the right to change it: it     *)
(* fails on a torn file and where a journal waits to be rolled back.       *)
CanBackup == db # Broken /\ ~journal

(* mistake: no copy is made of the database *)
NoBackup == CanBackup /\ UNCHANGED backups

Backup == CanBackup /\ backups' = backups \cup {db}

-----------------------------------------------------------------------------
(* The start of the process: main.                                         *)

(* Python imports every part; RUNNING_VERSION is a constant of bot.        *)
Boot ==
    /\ At("down")
    /\ \A p \in Parts : tree[p] # Broken
    /\ process' = [pc |-> "update", code |-> tree["bot"], todo |-> {}]
    /\ UNCHANGED <<disk, history>>

NothingStaged ==
    /\ At("update")
    /\ zip = None
    /\ Goto("restore")
    /\ UNCHANGED <<disk, history>>

(* mistake: the version that runs is refused, as when the file is staged *)
RefusedSame == zip = Broken \/ (zip <= process.code /\ ~AllowDowngrade)

Refused == zip = Broken \/ (zip < process.code /\ ~AllowDowngrade)

(* apply_pending_update up to the copy: the file can be read, its version  *)
(* is not refused, a backup of the database is made.                       *)
UpdateBegin ==
    /\ At("update")
    /\ zip # None
    /\ ~Refused
    /\ Backup
    /\ process' = [process EXCEPT !.pc = "copy", !.todo = Parts]
    /\ UNCHANGED <<tree, zip, target, report, db, journal, restore, described, history>>

(* mistake: an update that fails ends the process *)
UpdateFailExits ==
    /\ At("update")
    /\ zip # None
    /\ Refused \/ ~CanBackup
    /\ report' = None
    /\ Goto("down")
    /\ UNCHANGED <<tree, zip, target, db, journal, backups, restore, described, history>>

(* The except branch.  The staged file stays and is tried at every start.  *)
UpdateFail ==
    /\ At("update")
    /\ zip # None
    /\ Refused \/ ~CanBackup
    /\ report' = None
    /\ Goto("restore")
    /\ UNCHANGED <<tree, zip, target, db, journal, backups, restore, described, history>>

(* _copy_release_into_install, in the order of a set: rmtree and copytree  *)
(* of one part.                                                            *)
CopyPart(p) ==
    /\ At("copy")
    /\ p \in process.todo
    /\ \/ /\ tree[p] # Broken
          /\ \A q \in process.todo : tree[q] # Broken \/ q = p
          /\ tree' = [tree EXCEPT ![p] = Broken]
          /\ UNCHANGED process
       \/ /\ tree[p] = Broken
          /\ tree' = [tree EXCEPT ![p] = zip]
          /\ process' = [process EXCEPT !.todo = @ \ {p}]
    /\ UNCHANGED <<zip, target, report, db, journal, backups, restore, described, history>>

(* mistake: the copy is taken for done when one part is *)
UpdateDoneEarly ==
    /\ At("copy")
    /\ process.todo # Parts
    /\ \/ zip' = None /\ target' = None /\ Goto("report") /\ UNCHANGED report
       \/ report' = None /\ Goto("restore") /\ UNCHANGED <<zip, target>>
    /\ damaged' = FALSE
    /\ UNCHANGED <<tree, db, journal, backups, restore, described, changes, announced, harm,
                   faults>>

(* _run_pip_install, which may fail, and clear_pending. *)
UpdateDone ==
    /\ At("copy")
    /\ process.todo = {}
    /\ \/ zip' = None /\ target' = None /\ Goto("report") /\ UNCHANGED report
       \/ report' = None /\ Goto("restore") /\ UNCHANGED <<zip, target>>
    /\ damaged' = FALSE
    /\ UNCHANGED <<tree, db, journal, backups, restore, described, changes, announced, harm,
                   faults>>

UpdateReport ==
    /\ At("report")
    /\ report' = tree["bot"]
    /\ Goto("restore")
    /\ UNCHANGED <<tree, zip, target, db, journal, backups, restore, described, history>>

(* The copy fails: the except branch leaves the tree as it is. *)
CopyFail ==
    /\ At("copy")
    /\ report' = None
    /\ damaged' = TRUE
    /\ harm' = harm \cup CutShort
    /\ Goto("restore")
    /\ Fault
    /\ UNCHANGED <<tree, zip, target, db, journal, backups, restore, described, changes,
                   announced>>

(* apply_pending_restore up to the copy. *)
RestoreBegin ==
    /\ At("restore")
    /\ restore # None
    /\ zip = None
    /\ Backup
    /\ Goto("empty")
    /\ UNCHANGED <<tree, zip, target, report, db, journal, restore, described, history>>

(* Nothing is staged, or the except branch: the staged file stays. *)
NoRestore ==
    /\ At("restore")
    /\ restore = None \/ zip # None \/ ~CanBackup
    /\ Goto("init")
    /\ UNCHANGED <<disk, history>>

(* shutil.copy2 empties the database file and fills it piece by piece. *)
EmptyDb ==
    /\ At("empty")
    /\ db' \in {Empty, Broken}
    /\ Goto("fill")
    /\ UNCHANGED <<tree, zip, target, report, journal, backups, restore, described, history>>

FillDb ==
    /\ At("fill")
    /\ db' = restore
    /\ harm' = IF restore = Broken THEN harm \cup {"damaged file restored"} ELSE harm
    /\ Goto("clear")
    /\ UNCHANGED <<tree, zip, target, report, journal, backups, restore, described,
                   changes, announced, damaged, faults>>

FillFail ==
    /\ At("fill")
    /\ Goto("init")
    /\ harm' = harm \cup CutShort
    /\ Fault
    /\ UNCHANGED <<disk, changes, announced, damaged>>

RestoreDone ==
    /\ At("clear")
    /\ restore' = None
    /\ described' = FALSE
    /\ Goto("init")
    /\ UNCHANGED <<tree, zip, target, report, db, journal, backups, history>>

(* init_db makes the tables an empty database lacks and rolls a journal    *)
(* back; a torn database ends the process.                                 *)
InitDb ==
    /\ At("init")
    /\ IF db # Broken THEN Goto("notify") /\ journal' = FALSE
                      ELSE Goto("down") /\ UNCHANGED journal
    /\ UNCHANGED <<tree, zip, target, report, db, backups, restore, described, history>>

(* _notify_update_result takes the report away and tells the admins.       *)
Notify ==
    /\ At("notify")
    /\ announced' = IF report = None THEN announced ELSE report
    /\ report' = None
    /\ Goto("running")
    /\ UNCHANGED <<tree, zip, target, db, journal, backups, restore, described, changes,
                   damaged, harm, faults>>

Start ==
    \/ Boot
    \/ NothingStaged \/ UpdateBegin \/ UpdateFail \/ UpdateDone \/ UpdateReport
    \/ CopyFail
    \/ \E p \in Parts : CopyPart(p)
    \/ RestoreBegin \/ NoRestore \/ EmptyDb \/ FillDb \/ FillFail \/ RestoreDone
    \/ InitDb \/ Notify

-----------------------------------------------------------------------------
(* The bot runs.                                                           *)

Change ==
    /\ At("running")
    /\ changes < MaxChanges
    /\ changes' = changes + 1
    /\ db' = changes + 1
    /\ UNCHANGED <<tree, zip, target, report, journal, backups, restore, described, process,
                   announced, damaged, harm, faults>>

(* The admin asks for a backup. *)
MakeBackup ==
    /\ At("running")
    /\ Backup
    /\ UNCHANGED <<tree, zip, target, report, db, journal, restore, described, process, history>>

(* save_pending_update writes the file, then looks at it: a refused one    *)
(* stays, beside the description of the one before.                        *)
StageUpdate(v) ==
    /\ At("running")
    /\ zip' = v
    /\ target' = IF v > process.code \/ (v < process.code /\ AllowDowngrade)
                 THEN v ELSE target
    /\ UNCHANGED <<tree, report, db, journal, backups, restore, described, process, history>>

CancelUpdate ==
    /\ At("running")
    /\ zip' = None
    /\ target' = None
    /\ UNCHANGED <<tree, report, db, journal, backups, restore, described, process, history>>

(* What an admin may upload: inspect_restore_file takes every file that    *)
(* begins as SQLite files do, be it a content the database once had, one   *)
(* with no data of the bot, or a damaged one.                              *)
Uploads == 1..changes \cup {Empty, Broken}

(* save_pending_restore *)
StageRestore(d) ==
    /\ At("running")
    /\ zip = None
    /\ restore' = d
    /\ described' = TRUE
    /\ UNCHANGED <<tree, zip, target, report, db, journal, backups, process, history>>

CancelRestore ==
    /\ At("running")
    /\ restore' = None
    /\ described' = FALSE
    /\ UNCHANGED <<tree, zip, target, report, db, journal, backups, process, history>>

(* bot_update_apply and backup_restore_apply: each asks for the file that  *)
(* describes what is staged.                                               *)
Restart ==
    /\ At("running")
    /\ target # None \/ described
    /\ Goto("down")
    /\ UNCHANGED <<disk, history>>

Run ==
    \/ Change \/ MakeBackup
    \/ \E v \in Releases : StageUpdate(v)
    \/ \E d \in Uploads : StageRestore(d)
    \/ CancelUpdate \/ CancelRestore \/ Restart

-----------------------------------------------------------------------------
(* The process is killed, ends by an error main does not catch, or the     *)
(* machine stops.  A kill in the middle of a change of the database leaves *)
(* the journal that undoes it.                                             *)
Kill ==
    /\ ~At("down")
    /\ Goto("down")
    /\ journal' \in IF At("init") \/ At("notify") \/ At("running")
                    THEN {journal, TRUE} ELSE {journal}
    /\ harm' = harm \cup CutShort
    /\ Fault
    /\ UNCHANGED <<tree, zip, target, report, db, backups, restore, described, changes, announced,
                   damaged>>

(* The kill comes while a staged file is written, neither of which is      *)
(* written beside its place and then moved.                                *)
KillStaging ==
    /\ At("running")
    /\ \/ zip' = Broken /\ UNCHANGED restore
       \/ zip = None /\ restore' \in {Empty, Broken} /\ UNCHANGED zip
    /\ Goto("down")
    /\ Fault
    /\ UNCHANGED <<tree, target, report, db, journal, backups, described, changes, announced,
                   damaged, harm>>

Next == Start \/ Run \/ Kill \/ KillStaging

Spec == Init /\ [][Next]_vars

(* systemd starts the process whenever it is down (Restart=always), and a  *)
(* start goes on as long as nobody kills it.                               *)
FairSpec == Spec /\ WF_vars(Start)

-----------------------------------------------------------------------------
(* What maintenance must not break.                                        *)

(* The newest content the bot ever gave its database is in the database or *)
(* in a backup ("before a restore: automatic backup of the current DB",    *)
(* CHANGELOG.md:59; "automatic DB backup before apply", CHANGELOG.md:168), *)
(* however often restores are interrupted and begun again.                 *)
Recoverable == db = changes \/ changes \in backups

(* A bot that runs has one release on disk, even when an earlier start was *)
(* killed while it copied: that start's successor runs the copy again,     *)
(* whichever release's code it has come up with.  (A copy that a full disk *)
(* ends is different: the bot goes on with what it left.)                  *)
RunningTreeWhole ==
    At("running") /\ ~damaged => \A p, q \in Parts : tree[p] = tree[q] /\ tree[p] # Broken

(* What a report says is installed is installed, in every part.            *)
ReportedInstalled == report # None => \A p \in Parts : tree[p] = report

(* A bot that is down polls again, whatever is staged and wherever it is   *)
(* killed, unless it is kept down by one of three things: a part of the    *)
(* program whose copy was cut short, a database whose restore was cut      *)
(* short, or a database that a damaged file was restored over.  That file  *)
(* was uploaded so (only its first bytes are looked at, backup.py:111) or  *)
(* half written when the process was killed (219); no start looks at it    *)
(* again before it takes the database's place (274).                       *)
KeptDown ==
    /\ At("down")
    /\ \/ "release cut" \in harm /\ \E p \in Parts : tree[p] = Broken
       \/ harm \cap {"restore cut", "damaged file restored"} # {} /\ db = Broken
ComesUp == At("down") ~> At("running") \/ KeptDown

(* The version announced to the admins ("the bot was updated: {previous}   *)
(* to {new_version}", bot/texts/fa.py:712) is the version that runs.  The  *)
(* code does not keep this: main has imported the old release before it    *)
(* installs the new one.                                                   *)
AnnouncedRuns == At("running") /\ announced # None => process.code = announced
=============================================================================
