--------------------------- MODULE MCPanelAccess ---------------------------
(***************************************************************************)
(* One instance of the three modules about panels: who may use them, the   *)
(* registry of their clients, and the calls of a client.  The first state  *)
(* chooses which of them this behaviour is about.                          *)
(***************************************************************************)
EXTENDS PanelAccess, PanelRegistry, XuiClient, TLC

Symmetric == Permutations(Sellers) \cup Permutations(Values)

VARIABLE about      \* the behaviour's subject; never changes

panelVars == <<vars, registryVars, callVars, about>>

PanelsInit ==
    /\ Init /\ RegistryInit /\ CallInit
    /\ about \in {"access", "registry", "calls"}

(* Bounds.  Services lie on the panel that is not the first; only it is    *)
(* switched off and on, or its assignment, and not both; which of the two  *)
(* is the default one changes with the operations.                         *)
Bounds ==
    /\ services[FirstPanel] = 0 /\ panels[FirstPanel] = TRUE
    /\ assigned[FirstPanel] # None => assigned[FirstPanel].active
    /\ \A p \in Panels : panels[p] = FALSE /\ assigned[p] # None => assigned[p].active

(* At most two handlers are at work, whichever they are; two of the        *)
(* reseller only while nothing parted or spoiled the tables, and an edit   *)
(* changes a column.                                                       *)
Crossings ==
    /\ Cardinality({t \in Tasks : task[t] # Idle}) <= 2
    /\ (\A t \in Sellers : task[t] # Idle) => ~apart /\ spoiled = {}
    /\ \A t \in Tasks : task[t].op = "edit" /\ task[t].pc = "commit" =>
                        task[t].want # task[t].row.config

PanelsNext ==
    /\ \/ about = "access" /\ Next /\ Bounds' /\ Crossings' /\ UNCHANGED <<registryVars, callVars>>
       \/ about = "registry" /\ RegistryNext /\ UNCHANGED <<vars, callVars>>
       \/ about = "calls" /\ CallNext /\ UNCHANGED <<vars, registryVars>>
    /\ UNCHANGED about

PanelsSpec == PanelsInit /\ [][PanelsNext]_panelVars
=============================================================================
