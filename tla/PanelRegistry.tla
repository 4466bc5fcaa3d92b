--------------------------- MODULE PanelRegistry ----------------------------
(***************************************************************************)
(* The registry of panel clients (services/panel_registry.py): one client  *)
(* of 3x-ui for every active panel, made from its row and shared by all    *)
(* handlers.  Handlers that change a row reload its client; a handler that *)
(* finds no client reloads it too (services/panel_resolve.py).             *)
(*                                                                         *)
(* Handlers interleave at their awaits.  Their session keeps the panel row *)
(* it has read, until one of their own commits refreshes it.               *)
(*                                                                         *)
(* Abstractions.  The connection settings of a panel are a version number; *)
(* a client is the version it was made from.  The test of a connection     *)
(* before its settings are saved, and the reads of the reseller and of the *)
(* assignment, are left out: they may end a handler before it begins here. *)
(***************************************************************************)
EXTENDS Integers

CONSTANTS
    PanelIds,       \* ids of panels
    Undeletable,    \* panel 1, or panels with resellers: delete refuses them
    Visitors,       \* handler tasks that may run at the same time
    MaxVersion      \* bound: connection settings of a panel

ASSUME RegistryAssumptions ==
    /\ "none" \notin PanelIds
    /\ Undeletable \subseteq PanelIds
    /\ MaxVersion \in Nat \ {0}

VARIABLES
    rows,           \* table panels
    clients,        \* PanelRegistry._clients
    visit,          \* the handlers: step, panel and the row their session has
    raced           \* history: panels last written while another handler was at work on them

registryVars == <<rows, clients, visit, raced>>

NoRow == [version |-> 0, active |-> FALSE]
NoConn == 0
Versions == 1..MaxVersion
PanelRow == [version : Versions, active : BOOLEAN] \cup {NoRow}
Away == [pc |-> "away", panel |-> "none", row |-> NoRow]

RegistryTypeOK ==
    /\ rows \in [PanelIds -> PanelRow]
    /\ clients \in [PanelIds -> Versions \cup {NoConn}]
    /\ visit \in [Visitors -> [pc : {"edit", "toggle", "lookup", "reread", "reload", "install"},
                               panel : PanelIds, row : PanelRow] \cup {Away}]
    /\ raced \subseteq PanelIds

RegistryInit ==
    /\ rows = [p \in PanelIds |-> NoRow]
    /\ clients = [p \in PanelIds |-> NoConn]
    /\ visit = [v \in Visitors |-> Away]
    /\ raced = {}

Doing(v, step) == visit[v].pc = step
Busy(p) == {v \in Visitors : visit[v].panel = p}
Step(v, step, p, row) == visit' = [visit EXCEPT ![v] = [pc |-> step, panel |-> p, row |-> row]]
Leave(v) == visit' = [visit EXCEPT ![v] = Away]

-----------------------------------------------------------------------------
(* The rows.  Mistaken variants of a definition, each of which a run must  *)
(* refute, stand before the definition they vary and are used by none.     *)

(* A handler reads the row: to change it, or to use the panel. *)
ReadRow(v, p, step) ==
    /\ Doing(v, "away")
    /\ Step(v, step, p, rows[p])
    /\ UNCHANGED <<rows, clients, raced>>

(* The commit of a row, and the refresh of the session's copy. *)
Commit(v, p, row) ==
    /\ rows' = [rows EXCEPT ![p] = row]
    /\ raced' = IF Busy(p) \subseteq {v} THEN raced \ {p} ELSE raced \cup {p}
    /\ UNCHANGED clients

(* PanelRepository.create. *)
AddPanel(v, p) ==
    /\ Doing(v, "away")
    /\ rows[p] = NoRow
    /\ Commit(v, p, [version |-> 1, active |-> TRUE])
    /\ Step(v, "reload", p, rows'[p])

(* panel_edit_value, panel_edit_sub_clear: new settings for the row. *)
EditPanel(v) ==
    LET p == visit[v].panel IN
    /\ Doing(v, "edit")
    /\ \/ /\ rows[p] # NoRow
          /\ rows[p].version < MaxVersion
          /\ Commit(v, p, [rows[p] EXCEPT !.version = @ + 1])
          /\ Step(v, "reload", p, rows'[p])
       \/ Leave(v) /\ UNCHANGED <<rows, clients, raced>>

(* mistake: nobody looks whether the row is there *)
TogglePanelBlindly(v) ==
    LET p == visit[v].panel IN
    /\ Doing(v, "toggle")
    /\ Commit(v, p, [rows[p] EXCEPT !.active = ~visit[v].row.active])
    /\ Step(v, "reload", p, rows'[p])

(* panel_toggle: the switch is the opposite of what the session has read. *)
TogglePanel(v) ==
    LET p == visit[v].panel IN
    /\ Doing(v, "toggle")
    /\ \/ /\ rows[p] # NoRow
          /\ visit[v].row # NoRow
          /\ Commit(v, p, [rows[p] EXCEPT !.active = ~visit[v].row.active])
          /\ Step(v, "reload", p, rows'[p])
       \/ Leave(v) /\ UNCHANGED <<rows, clients, raced>>

(* panel_delete_yes: the client is reloaded in a session of its own. *)
DropPanel(v, p) ==
    /\ Doing(v, "away")
    /\ rows[p] # NoRow
    /\ p \notin Undeletable
    /\ Commit(v, p, NoRow)
    /\ Step(v, "reread", p, NoRow)

Reread(v) ==
    /\ Doing(v, "reread")
    /\ Step(v, "reload", visit[v].panel, rows[visit[v].panel])
    /\ UNCHANGED <<rows, clients, raced>>

-----------------------------------------------------------------------------
(* PanelRegistry.reload_panel of the row the session has: the old client   *)
(* is removed and closed, then a new one takes its place.                  *)

(* mistake: a client of an inactive panel stays *)
ReloadActive(v) ==
    LET p == visit[v].panel IN
    /\ Doing(v, "reload")
    /\ UNCHANGED <<rows, raced>>
    /\ IF visit[v].row.active
       THEN /\ clients' = [clients EXCEPT ![p] = visit[v].row.version]
            /\ Leave(v)
       ELSE Leave(v) /\ UNCHANGED clients

Reload(v) ==
    LET p == visit[v].panel
        row == visit[v].row
    IN
    /\ Doing(v, "reload")
    /\ UNCHANGED <<rows, raced>>
    /\ \/ /\ clients[p] # NoConn
          /\ clients' = [clients EXCEPT ![p] = NoConn]
          /\ Step(v, "install", p, row)
       \/ /\ clients[p] = NoConn
          /\ clients' = [clients EXCEPT ![p] = row.version]
          /\ row.active
          /\ Leave(v)
       \/ /\ clients[p] = NoConn
          /\ ~row.active
          /\ Leave(v)
          /\ UNCHANGED clients

(* The old client is closed (a close that fails is left out), and the one  *)
(* of an active panel is made.                                             *)
Install(v) ==
    /\ Doing(v, "install")
    /\ clients' = IF visit[v].row.active
                  THEN [clients EXCEPT ![visit[v].panel] = visit[v].row.version]
                  ELSE clients
    /\ Leave(v)
    /\ UNCHANGED <<rows, raced>>

(* _xui_for_panel_id: an active panel whose client is missing is reloaded, *)
(* with nothing to close and hence at once.                                *)
FindClient(v) ==
    LET p == visit[v].panel IN
    /\ Doing(v, "lookup")
    /\ IF visit[v].row.active /\ clients[p] = NoConn
       THEN clients' = [clients EXCEPT ![p] = visit[v].row.version]
       ELSE UNCHANGED clients
    /\ Leave(v)
    /\ UNCHANGED <<rows, raced>>

(* add_reseller_inline, reseller_add_confirm: a reseller is saved on an    *)
(* active panel, whose client is then reloaded.                            *)
SaveReseller(v, p) ==
    /\ Doing(v, "away")
    /\ rows[p].active
    /\ Step(v, "reload", p, rows[p])
    /\ raced' = IF Busy(p) = {} THEN raced \ {p} ELSE raced
    /\ UNCHANGED <<rows, clients>>

(* The process ends and starts again: load_from_db. *)
Restart ==
    /\ clients' = [p \in PanelIds |-> IF rows[p].active THEN rows[p].version ELSE NoConn]
    /\ visit' = [v \in Visitors |-> Away]
    /\ raced' = {}
    /\ UNCHANGED rows

RegistryNext ==
    \/ \E v \in Visitors :
          \/ \E p \in PanelIds :
                \/ \E step \in {"edit", "toggle", "lookup"} : ReadRow(v, p, step)
                \/ AddPanel(v, p) \/ DropPanel(v, p) \/ SaveReseller(v, p)
          \/ EditPanel(v) \/ TogglePanel(v) \/ Reread(v)
          \/ Reload(v) \/ Install(v) \/ FindClient(v)
    \/ Restart

RegistrySpec == RegistryInit /\ [][RegistryNext]_registryVars

-----------------------------------------------------------------------------
(* What the registry is for.                                               *)

(* When no handler is at work on a panel, the registry has its client if   *)
(* and only if it is active, and the client has the settings of the row,   *)
(* unless the row was last written while another handler was at work on    *)
(* the panel: the next handler that writes alone repairs what such a race  *)
(* has left.                                                               *)
RegistryAgrees ==
    \A p \in PanelIds : Busy(p) = {} /\ p \notin raced =>
        clients[p] = IF rows[p].active THEN rows[p].version ELSE NoConn
=============================================================================
