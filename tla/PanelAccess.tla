---------------------------- MODULE PanelAccess ----------------------------
(***************************************************************************)
(* Which panels a reseller may use (db/repository.py: Reseller-,           *)
(* ResellerPanel- and PanelRepository, services/reseller_panel_edit.py,    *)
(* services/set_panel.py).  The table reseller_panels has a row, an        *)
(* assignment, per panel of a reseller.  The older table resellers still   *)
(* has a default panel and, for it, the same columns: a method of          *)
(* ResellerRepository that changes a row of it ends by copying them to the *)
(* assignment of the default panel, which it adds when it is not there.    *)
(*                                                                         *)
(* One reseller, and handlers of the admin and of the reseller.  A session *)
(* writes the columns in which the row it has read was changed, and keeps  *)
(* an assignment it has read only while a variable holds it (the identity  *)
(* map is weak): create_service holds the one it checked.  SQLite does not *)
(* enforce foreign keys here, no PRAGMA asks for it.  A step lies between  *)
(* two awaits; reads of one handler with nothing written between them are  *)
(* one step when only their last answer matters.  Any handlers may cross;  *)
(* history variables say which of them did, so that a property can except  *)
(* just what the code gets wrong then.                                     *)
(*                                                                         *)
(* Abstractions.  Which inbounds are chosen, whether a limit, the volume   *)
(* or a name allows a service, and whether a deletion refunds, is decided  *)
(* elsewhere: both answers are possible.  Of services only their number on *)
(* each panel is kept, of panels whether they are active; the names and    *)
(* settings of panels and the registry of their clients are left out.      *)
(***************************************************************************)
EXTENDS Naturals, FiniteSets

CONSTANTS
    Panels,         \* ids of panels
    FirstPanel,     \* the panel with id 1, which is never deleted
    Columns,        \* columns both tables have: inbounds and max_clients
    Values,         \* values of a column
    Admins,         \* tasks that run handlers of the admin
    Sellers,        \* tasks that run handlers of the reseller
    MaxServices,    \* bound on the services on a panel
    None            \* no row

AdminOps == {"new", "edit", "add", "remove", "default", "delete_panel", "delete"}
SellerOps == {"create", "drop", "charge"}
Editors == {"new", "edit", "default"}     \* they change columns both tables have
Tasks == Admins \cup Sellers

VARIABLES
    panels,         \* panels[p]: whether p is active, None without a row
    reseller,       \* the row of the reseller, or None
    assigned,       \* assigned[p]: the assignment of p, or None
    services,       \* services[p]: the number of records on p
    task,           \* the handlers and what their sessions have read
    revoked,        \* history: panels taken away, for good, and not given back
    spoiled,        \* history: panels taken away by a handler that met another
    apart           \* history: what may part the tables happened, no lone copy since

tables == <<panels, reseller, assigned, services>>
history == <<revoked, spoiled, apart>>
vars == <<tables, task, history>>

Config == [Columns -> Values]
Row == [panel : Panels, config : Config]
Assignment == [config : Config, active : BOOLEAN]
Steps == {"idle", "insert", "commit", "refresh", "lookup", "sync", "record", "panel", "add",
          "others", "remove", "fetch", "copy", "delete_panel", "delete"}

(* A handler: its operation and next step, the panel it was asked about,   *)
(* the row it has read, the columns it wants there, the assignment it has  *)
(* read, and (history) whether it has met another handler.                 *)
Jobs == [op : AdminOps \cup SellerOps \cup {None}, pc : Steps, panel : Panels \cup {None},
         row : Row \cup {None}, want : Config \cup {None}, held : Assignment \cup {None},
         met : BOOLEAN]
Idle == [op |-> None, pc |-> "idle", panel |-> None, row |-> None, want |-> None, held |-> None,
         met |-> FALSE]

ASSUME PanelAssumptions ==
    /\ FirstPanel \in Panels
    /\ Admins \cap Sellers = {}
    /\ MaxServices \in Nat
    /\ None \notin BOOLEAN /\ None \notin Panels /\ None \notin AdminOps \cup SellerOps
    /\ None \notin Config /\ None \notin Row /\ None \notin Assignment

TypeOK ==
    /\ panels \in [Panels -> BOOLEAN \cup {None}]
    /\ reseller \in Row \cup {None}
    /\ assigned \in [Panels -> Assignment \cup {None}]
    /\ services \in [Panels -> 0..MaxServices]
    /\ task \in [Tasks -> Jobs]
    /\ revoked \subseteq Panels
    /\ spoiled \subseteq Panels
    /\ apart \in BOOLEAN

Init ==
    /\ panels = [p \in Panels |-> IF p = FirstPanel THEN TRUE ELSE None]
    /\ reseller = None
    /\ assigned = [p \in Panels |-> None]
    /\ services = [p \in Panels |-> 0]
    /\ task = [t \in Tasks |-> Idle]
    /\ revoked = {}
    /\ spoiled = {}
    /\ apart = FALSE

Quiet == \A t \in Tasks : task[t] = Idle

(* What p leaves behind: a service on a panel its reseller has not, an     *)
(* assignment or a default panel that does not exist.                      *)
Dangling(p) ==
    \/ services[p] > 0 /\ (reseller = None \/ assigned[p] = None)
    \/ assigned[p] # None /\ panels[p] = None
    \/ reseller # None /\ reseller.panel = p /\ panels[p] = None

MayStart(t, op) ==
    /\ t \in (IF op \in AdminOps THEN Admins ELSE Sellers)
    /\ task[t] = Idle

(* A handler begins; it meets those that are at work.  While nobody was, a *)
(* panel with nothing dangling counts as mended.                           *)
Start(t, op, step, p, want, held) ==
    /\ MayStart(t, op)
    /\ task' = [u \in Tasks |->
          CASE u = t -> [op |-> op, pc |-> step, panel |-> p, row |-> reseller,
                         want |-> want, held |-> held, met |-> ~Quiet]
            [] u # t /\ task[u] = Idle -> Idle
            [] OTHER -> [task[u] EXCEPT !.met = TRUE]]
    /\ spoiled' = IF Quiet THEN {q \in spoiled : Dangling(q)} ELSE spoiled
    /\ apart' = (apart \/ \E u \in Tasks : task[u] # Idle /\ {op, task[u].op} \cap Editors # {})
    /\ UNCHANGED revoked

At(t, step) == task[t].pc = step
Goto(t, step) == task' = [task EXCEPT ![t].pc = step]
End(t) == task' = [task EXCEPT ![t] = Idle]

(* The statements SQLAlchemy writes: the columns of now that differ from   *)
(* what the session had read.                                              *)
Changed(stored, read, now) == [c \in Columns |-> IF now[c] = read[c] THEN stored[c] ELSE now[c]]

-----------------------------------------------------------------------------
(* A row of resellers is edited, then copied.                              *)

(* wizard_save, /add_reseller: upsert for an active panel.                 *)
NewBegin(t, p, c) ==
    /\ panels[p] = TRUE
    /\ Start(t, "new", IF reseller = None THEN "insert" ELSE "commit", p, c, None)
    /\ UNCHANGED tables

(* set_allowed_inbound_ids, set_attach_inbound_ids, set_max_clients.       *)
EditBegin(t, c) ==
    /\ reseller # None
    /\ Start(t, "edit", "commit", None, c, None)
    /\ UNCHANGED tables

(* Quota and use: the row changes in a column that is not copied.          *)
ChargeBegin(t) ==
    /\ reseller # None
    /\ Start(t, "charge", "commit", None, reseller.config, None)
    /\ UNCHANGED tables

(* A row inserted meanwhile makes the commit fail.                         *)
InsertRow(t) ==
    /\ At(t, "insert")
    /\ IF reseller = None
       THEN /\ reseller' = [panel |-> task[t].panel, config |-> task[t].want]
            /\ Goto(t, "refresh")
            /\ revoked' = revoked \ {task[t].panel}
       ELSE End(t) /\ UNCHANGED <<reseller, revoked>>
    /\ UNCHANGED <<panels, assigned, services, spoiled, apart>>

(* mistake: the copy to the assignment is forgotten. *)
CommitRowOnly(t) ==
    /\ At(t, "commit")
    /\ IF reseller # None
       THEN reseller' = [reseller EXCEPT !.config =
                             Changed(reseller.config, task[t].row.config, task[t].want)]
       ELSE UNCHANGED reseller
    /\ End(t)
    /\ UNCHANGED <<panels, assigned, services, history>>

(* The row was deleted meanwhile: no row matches, the commit fails.        *)
CommitRow(t) ==
    /\ At(t, "commit")
    /\ IF reseller # None
       THEN /\ reseller' = [reseller EXCEPT !.config =
                                Changed(reseller.config, task[t].row.config, task[t].want)]
            /\ Goto(t, "refresh")
       ELSE End(t) /\ UNCHANGED reseller
    /\ UNCHANGED <<panels, assigned, services, history>>

Refresh(t) ==
    /\ At(t, "refresh")
    /\ IF reseller # None
       THEN task' = [task EXCEPT ![t].pc = "lookup", ![t].row = reseller, ![t].want = None]
       ELSE End(t)
    /\ UNCHANGED <<tables, history>>

(* session.get answers with the assignment create_service holds, if it is  *)
(* the one of the default panel, and reads it otherwise.                   *)
HasDefault(j) == j.op = "create" /\ j.panel = j.row.panel

Lookup(t) ==
    /\ At(t, "lookup")
    /\ task' = [task EXCEPT ![t].pc = "sync",
                            ![t].held = IF HasDefault(task[t]) THEN task[t].held
                                        ELSE assigned[task[t].row.panel]]
    /\ UNCHANGED <<tables, history>>

(* _sync_primary_panel_assignment: ResellerPanelRepository.add, which      *)
(* refuses one that exists, or the columns of the one that was read; a     *)
(* commit for an assignment that is gone fails.  A handler that met nobody *)
(* leaves tables that agree.                                               *)
Sync(t) ==
    LET j == task[t]
        p == j.row.panel
        now == assigned[p]
    IN  /\ At(t, "sync")
        /\ assigned' =
             CASE j.held = None /\ now = None ->
                    [assigned EXCEPT ![p] = [config |-> j.row.config, active |-> TRUE]]
               [] j.held # None /\ now # None ->
                    [assigned EXCEPT ![p].config = Changed(@, j.held.config, j.row.config)]
               [] OTHER -> assigned
        /\ apart' = (apart /\ j.met)
        /\ End(t)
        /\ UNCHANGED <<panels, reseller, services, revoked, spoiled>>

-----------------------------------------------------------------------------
(* A reseller creates and deletes services.                                *)

(* create_service and the checks of its handler (_xui_for_panel_id,        *)
(* xui_for_reseller_panel, validate_create).                               *)
CreateBegin(t, p) ==
    /\ reseller # None
    /\ panels[p] = TRUE
    /\ assigned[p] # None
    /\ assigned[p].active
    /\ Start(t, "create", "record", p, reseller.config, assigned[p])
    /\ UNCHANGED tables

CreateRecord(t) ==
    /\ At(t, "record")
    /\ services[task[t].panel] < MaxServices
    /\ services' = [services EXCEPT ![task[t].panel] = @ + 1]
    /\ Goto(t, "panel")
    /\ UNCHANGED <<panels, reseller, assigned, history>>

CreateOnPanel(t) ==
    /\ At(t, "panel")
    /\ Goto(t, "commit")
    /\ UNCHANGED <<tables, history>>

(* mistake: the number is lowered for a record that is already deleted. *)
CreateFailsBlindly(t) ==
    LET p == task[t].panel
    IN  /\ At(t, "panel")
        /\ End(t)
        /\ services' = [services EXCEPT ![p] = @ - 1]
        /\ UNCHANGED <<panels, reseller, assigned, history>>

(* A refusal: the record is deleted, if nobody deleted it meanwhile.       *)
CreateFails(t) ==
    LET p == task[t].panel
    IN  /\ At(t, "panel")
        /\ End(t)
        /\ \E n \in {services[p] - 1, services[p]} \cap Nat :
               services' = [services EXCEPT ![p] = n]
        /\ UNCHANGED <<panels, reseller, assigned, history>>

(* delete_service: the record goes; a refund then edits the row.           *)
Drop(t, p) ==
    /\ reseller # None
    /\ services[p] > 0
    /\ services' = [services EXCEPT ![p] = @ - 1]
    /\ \/ Start(t, "drop", "commit", None, reseller.config, None)
       \/ MayStart(t, "drop") /\ UNCHANGED <<task, history>>
    /\ UNCHANGED <<panels, reseller, assigned>>

-----------------------------------------------------------------------------
(* The admin edits assignments.                                            *)

(* apply_add_panel_assignment.                                             *)
AddBegin(t, p, c) ==
    /\ reseller # None
    /\ panels[p] # None
    /\ Start(t, "add", "add", p, c, None)
    /\ UNCHANGED tables

Add(t) ==
    LET p == task[t].panel
    IN  /\ At(t, "add")
        /\ IF assigned[p] = None
           THEN /\ assigned' = [assigned EXCEPT ![p] = [config |-> task[t].want, active |-> TRUE]]
                /\ revoked' = revoked \ {p}
           ELSE UNCHANGED <<assigned, revoked>>
        /\ End(t)
        /\ UNCHANGED <<panels, reseller, services, spoiled, apart>>

(* mistake: services on the panel do not hinder its removal. *)
RemoveUsed(t, p) ==
    /\ reseller # None
    /\ panels[p] # None
    /\ assigned[p] # None
    /\ Start(t, "remove", "others", p, reseller.config, None)
    /\ UNCHANGED tables

(* apply_remove_panel_assignment and ResellerPanelRepository.delete: no    *)
(* services there, another assignment left.  Nothing looks at the default  *)
(* panel.                                                                  *)
RemoveBegin(t, p) ==
    /\ reseller # None
    /\ panels[p] # None
    /\ assigned[p] # None
    /\ services[p] = 0
    /\ Start(t, "remove", "others", p, reseller.config, None)
    /\ UNCHANGED tables

RemoveOthers(t) ==
    /\ At(t, "others")
    /\ IF Cardinality({p \in Panels : assigned[p] # None}) > 1 THEN Goto(t, "remove") ELSE End(t)
    /\ UNCHANGED <<tables, history>>

(* History of a removal: it is not for good when p is the default panel,   *)
(* whose assignment the next copy adds again, or when a handler is about   *)
(* to copy to p or to make it the default one.                             *)
Reviving(p) ==
    \/ reseller # None /\ reseller.panel = p
    \/ \E u \in Tasks :
          \/ task[u].pc \in {"lookup", "sync"} /\ task[u].row.panel = p
          \/ At(u, "copy") /\ task[u].panel = p

Remove(t) ==
    LET p == task[t].panel
    IN  /\ At(t, "remove")
        /\ assigned' = [assigned EXCEPT ![p] = None]
        /\ revoked' = IF Reviving(p) THEN revoked ELSE revoked \cup {p}
        /\ spoiled' = IF task[t].met THEN spoiled \cup {p} ELSE spoiled
        /\ apart' = (apart \/ (reseller # None /\ reseller.panel = p))
        /\ End(t)
        /\ UNCHANGED <<panels, reseller, services>>

(* apply_panel_toggle_create_allowed writes the opposite of what it read,  *)
(* which another handler may have written meanwhile; nothing happens then. *)
Switch(p, active) ==
    /\ assigned[p] # None
    /\ assigned[p].active # active
    /\ assigned' = [assigned EXCEPT ![p].active = active]
    /\ UNCHANGED <<panels, reseller, services, task, history>>

(* apply_reseller_panel and apply_set_default_panel: the row of resellers  *)
(* becomes a copy of the assignment of another panel.                      *)
DefaultBegin(t, p) ==
    /\ reseller # None
    /\ Start(t, "default", "fetch", p, reseller.config, None)
    /\ UNCHANGED tables

(* mistake: any panel becomes the default one, with the columns of the row. *)
DefaultUnassigned(t) ==
    /\ At(t, "fetch")
    /\ IF panels[task[t].panel] # None THEN Goto(t, "copy") ELSE End(t)
    /\ UNCHANGED <<tables, history>>

DefaultFetch(t) ==
    LET p == task[t].panel
    IN  /\ At(t, "fetch")
        /\ IF assigned[p] # None /\ panels[p] # None
           THEN task' = [task EXCEPT ![t].pc = "copy", ![t].want = assigned[p].config]
           ELSE End(t)
        /\ UNCHANGED <<tables, history>>

DefaultCopy(t) ==
    LET j == task[t]
    IN  /\ At(t, "copy")
        /\ IF reseller # None
           THEN /\ reseller' = [panel |-> IF j.panel = j.row.panel THEN reseller.panel ELSE j.panel,
                                config |-> Changed(reseller.config, j.row.config, j.want)]
                /\ apart' = (apart /\ j.met)
           ELSE UNCHANGED <<reseller, apart>>
        /\ End(t)
        /\ UNCHANGED <<panels, assigned, services, revoked, spoiled>>

-----------------------------------------------------------------------------
(* Panels and resellers come and go.                                       *)

CreatePanel(p) ==
    /\ panels[p] = None
    /\ panels' = [panels EXCEPT ![p] = TRUE]
    /\ UNCHANGED <<reseller, assigned, services, task, history>>

SwitchPanel(p, active) ==
    /\ panels[p] # None
    /\ panels[p] # active
    /\ panels' = [panels EXCEPT ![p] = active]
    /\ UNCHANGED <<reseller, assigned, services, task, history>>

(* PanelRepository.delete: neither an assignment nor a reseller refers to  *)
(* the panel.  (The flush asks once more, through the relationships.)      *)
DeletePanelBegin(t, p) ==
    /\ p # FirstPanel
    /\ panels[p] # None
    /\ assigned[p] = None
    /\ reseller # None => reseller.panel # p
    /\ Start(t, "delete_panel", "delete_panel", p, None, None)
    /\ UNCHANGED tables

DeletePanel(t) ==
    /\ At(t, "delete_panel")
    /\ panels' = [panels EXCEPT ![task[t].panel] = None]
    /\ spoiled' = IF task[t].met THEN spoiled \cup {task[t].panel} ELSE spoiled
    /\ End(t)
    /\ UNCHANGED <<reseller, assigned, services, revoked, apart>>

(* ResellerRepository.delete: no services.                                 *)
DeleteBegin(t) ==
    /\ reseller # None
    /\ \A p \in Panels : services[p] = 0
    /\ Start(t, "delete", "delete", None, reseller.config, None)
    /\ UNCHANGED tables

(* The flush would set reseller_tg_id of the assignments and services of   *)
(* the reseller to NULL (relationships without a cascade): it fails if     *)
(* there is one, and the transaction is rolled back.                       *)
Delete(t) ==
    /\ At(t, "delete")
    /\ reseller' = IF \A p \in Panels : assigned[p] = None /\ services[p] = 0 THEN None
                   ELSE reseller
    /\ End(t)
    /\ UNCHANGED <<panels, assigned, services, history>>

(* The handler t is between the two commits of an edit.                    *)
HalfEdited(t) == task[t].op \in Editors /\ task[t].pc \in {"refresh", "lookup", "sync"}

(* The process ends; the tables stay as they were committed.               *)
Crash ==
    /\ ~Quiet
    /\ task' = [t \in Tasks |-> Idle]
    /\ apart' = (apart \/ \E t \in Tasks : HalfEdited(t))
    /\ UNCHANGED <<tables, revoked, spoiled>>

RowStep(t) ==
    \/ \E p \in Panels, c \in Config : NewBegin(t, p, c)
    \/ \E c \in Config : EditBegin(t, c)
    \/ ChargeBegin(t)
    \/ InsertRow(t)
    \/ CommitRow(t)
    \/ Refresh(t)
    \/ Lookup(t)
    \/ Sync(t)

ServiceStep(t) ==
    \/ \E p \in Panels : CreateBegin(t, p) \/ Drop(t, p)
    \/ CreateRecord(t)
    \/ CreateOnPanel(t)
    \/ CreateFails(t)

AssignmentStep(t) ==
    \/ \E p \in Panels, c \in Config : AddBegin(t, p, c)
    \/ \E p \in Panels : RemoveBegin(t, p) \/ DefaultBegin(t, p)
    \/ Add(t)
    \/ RemoveOthers(t)
    \/ Remove(t)
    \/ DefaultFetch(t)
    \/ DefaultCopy(t)

PanelStep(t) ==
    \/ \E p \in Panels : DeletePanelBegin(t, p)
    \/ DeletePanel(t)
    \/ DeleteBegin(t)
    \/ Delete(t)

Next ==
    \/ \E t \in Tasks : RowStep(t) \/ ServiceStep(t) \/ AssignmentStep(t) \/ PanelStep(t)
    \/ \E p \in Panels : CreatePanel(p)
    \/ \E p \in Panels, active \in BOOLEAN : Switch(p, active) \/ SwitchPanel(p, active)
    \/ Crash

Spec == Init /\ [][Next]_vars

-----------------------------------------------------------------------------
(* Nothing is left behind: services lie on panels their reseller has, and  *)
(* the default panel and the assigned panels exist.  Two tasks that check, *)
(* await and write (repository.py:619-630) break this when one of them     *)
(* takes away what the other relies on; what they spoil is the panel that  *)
(* was taken away, and no other.                                           *)
NoDangling == \A p \in Panels \ spoiled : ~Dangling(p)

(* The two tables agree: the default panel is assigned with the columns of *)
(* the row ("keep resellers.* in sync", repository.py:443), also while the *)
(* reseller's handlers cross each other and the admin's handlers that edit *)
(* none of these columns.  The code parts the tables when an edit of these *)
(* columns meets another handler, when the process ends between the two    *)
(* commits of an edit, and when the default panel's assignment is removed; *)
(* whatever happened, the next handler that changes the row and meets no   *)
(* other mends them.                                                       *)
RowsAgree ==
    reseller # None /\ ~apart /\ (\A t \in Tasks : ~HalfEdited(t)) =>
        /\ assigned[reseller.panel] # None
        /\ assigned[reseller.panel].config = reseller.config

(* A panel taken away from a reseller ("the assignment was removed",       *)
(* bot/texts/fa.py:240) stays away until the admin gives it back, whatever *)
(* crosses the removal.  This is not true of the default panel, which the  *)
(* next charge gives back (repository.py:231), nor while a handler that    *)
(* has read it as the default panel, or is making it that, goes on: the    *)
(* history counts neither as removed.                                      *)
RemovedStays == \A p \in revoked : assigned[p] = None
=============================================================================
