------------------------- MODULE PanelAccessProofs -------------------------
(***************************************************************************)
(* Proofs about PanelAccess for every value of its constants: any number   *)
(* of panels, columns and handlers, whichever of them cross.               *)
(***************************************************************************)
EXTENDS PanelAccess, TLAPS

(***************************************************************************)
(* The inductive invariant has four parts, each inductive on its own with  *)
(* the first two: the types and what a handler has read at each step, who  *)
(* has met whom, what a panel that is not spoiled can be sure of, and what *)
(* tables that are not parted can be sure of; a fifth is about the panels  *)
(* that were revoked.                                                      *)
(***************************************************************************)
Working(t) == task[t].pc # "idle"

(* What a handler has read and chosen by the time of each step. *)
Shape(j) ==
    /\ j \in Jobs
    /\ (j.pc = "idle" \/ j.op = None) => j = Idle
    /\ j.pc \in {"insert", "commit", "add", "copy", "record", "panel"} => j.want # None
    /\ j.pc \in {"commit", "lookup", "sync", "record", "panel", "fetch", "copy"} => j.row # None
    /\ j.pc \in {"insert", "record", "panel", "add", "others", "remove", "fetch", "copy",
                 "delete_panel"} => j.panel # None
    /\ j.pc = "insert" => j.op = "new"
    /\ j.pc \in {"record", "panel"} => j.op = "create"
    /\ j.pc \in {"fetch", "copy"} => j.op = "default"
    /\ j.pc = "add" => j.op = "add"
    /\ j.pc \in {"others", "remove"} => j.op = "remove"
    /\ j.pc = "delete_panel" => j.op = "delete_panel"
    /\ j.pc = "delete" => j.op = "delete"
    /\ j.pc \in {"commit", "refresh", "lookup", "sync"} => j.op \in {"new", "edit"} \cup SellerOps
    /\ j.op = "create" /\ j.pc # "sync" => j.panel # None /\ j.held # None
    /\ j.op \in SellerOps /\ j.pc \in {"record", "panel", "commit"} => j.want = j.row.config

TablesTyped ==
    /\ panels \in [Panels -> BOOLEAN \cup {None}]
    /\ reseller \in Row \cup {None}
    /\ assigned \in [Panels -> Assignment \cup {None}]
    /\ services \in [Panels -> 0..MaxServices]

HistoryTyped ==
    /\ revoked \subseteq Panels
    /\ spoiled \subseteq Panels
    /\ apart \in BOOLEAN

TaskTyped == task \in [Tasks -> Jobs] /\ \A t \in Tasks : Shape(task[t])

(* Two that are at work have met, and if one of them changes the columns   *)
(* both tables have, the tables may be parted.                             *)
Met ==
    /\ \A t, u \in Tasks : t # u /\ Working(t) /\ Working(u) => task[t].met
    /\ \A t \in Tasks : task[t].op \in Editors /\ task[t].met => apart

Inv == TablesTyped /\ HistoryTyped /\ TaskTyped /\ Met

(* What handler j relies on about panel p. *)
Brings(j, p) ==
    \/ j.pc \in {"insert", "add", "copy"} /\ j.panel = p
    \/ j.pc \in {"lookup", "sync"} /\ j.row.panel = p

Relies(j, p) ==
    /\ Brings(j, p) => panels[p] # None
    /\ j.pc = "record" /\ j.panel = p => reseller # None /\ assigned[p] # None
    /\ ~j.met /\ j.pc \in {"others", "remove"} /\ j.panel = p => services[p] = 0
    /\ ~j.met /\ j.pc = "delete_panel" /\ j.panel = p =>
          assigned[p] = None /\ (reseller # None => reseller.panel # p)

Sound(p) == ~Dangling(p) /\ \A t \in Tasks : Relies(task[t], p)

SpoilInv == \A p \in Panels \ spoiled : Sound(p)

(* A panel taken away for good is not the default one, and nobody is about *)
(* to make it that.                                                        *)
Gone(p) == assigned[p] = None /\ ~Reviving(p)
RevokedInv == \A p \in revoked : Gone(p)

(* What a handler that met nobody has read is what the tables say. *)
Fresh(j) ==
    /\ j.pc \in {"lookup", "sync", "fetch", "copy"} => reseller # None /\ j.row = reseller
    /\ j.pc = "sync" => /\ j.held = None <=> assigned[j.row.panel] = None
                        /\ j.held # None => j.held.config = assigned[j.row.panel].config
    /\ j.op = "create" /\ j.pc # "sync" => /\ assigned[j.panel] # None
                                           /\ assigned[j.panel].config = j.held.config
    /\ j.pc = "copy" => assigned[j.panel] # None /\ j.want = assigned[j.panel].config

(* What the reseller's handlers have read while nobody edits the columns. *)
Follows(j) ==
    /\ reseller # None
    /\ j.row = reseller
    /\ j.op = "create" /\ j.panel = reseller.panel /\ j.pc # "sync" => j.held.config = reseller.config
    /\ j.pc = "sync" => j.held # None /\ j.held.config = reseller.config

NoEditor == \A t \in Tasks : task[t].op \notin Editors

AgreeInv ==
    /\ RowsAgree
    /\ \A t \in Tasks : ~task[t].met => Fresh(task[t])
    /\ ~apart /\ NoEditor => \A t \in Tasks : task[t].op \in SellerOps => Follows(task[t])

(* Handler t takes a step and has job j after it. *)
Goes(t, j) ==
    /\ task' = [task EXCEPT ![t] = j]
    /\ Shape(j)
    /\ j = Idle \/ (j.op = task[t].op /\ j.met = task[t].met)
    /\ apart => apart' \/ (~task[t].met /\ j = Idle)

StepTyped(t) == TablesTyped' /\ HistoryTyped' /\ \E j : Goes(t, j)

LEMMA IdleShape ==
    /\ Shape(Idle) /\ Idle \in Jobs /\ Idle.pc = "idle" /\ Idle.op = None /\ Idle.met = FALSE
    /\ Idle.op \notin AdminOps \cup SellerOps
  BY PanelAssumptions DEF Shape, Jobs, Idle, Steps, SellerOps, AdminOps

LEMMA InitInv == Init => Inv
<1> SUFFICES ASSUME Init PROVE Inv
  OBVIOUS
<1>1. panels \in [Panels -> BOOLEAN \cup {None}] /\ services \in [Panels -> 0..MaxServices]
  BY PanelAssumptions DEF Init
<1>2. TablesTyped /\ HistoryTyped
  BY <1>1 DEF Init, TablesTyped, HistoryTyped
<1>3. \A t \in Tasks : task[t] = Idle
  BY DEF Init
<1>4. TaskTyped
  BY <1>3, IdleShape DEF Init, TaskTyped
<1>5. Met
  BY <1>3, IdleShape DEF Met, Working
<1> QED
  BY <1>2, <1>4, <1>5 DEF Inv

(* Facts about a handler at work. *)
LEMMA AtWork ==
    ASSUME Inv, NEW t \in Tasks
    PROVE  /\ Shape(task[t]) /\ task[t] \in Jobs
           /\ task[t].met \in BOOLEAN /\ task[t].pc \in Steps
           /\ task[t].op \in AdminOps \cup SellerOps \cup {None}
           /\ task[t].panel \in Panels \cup {None}
           /\ task[t].row \in Row \cup {None}
           /\ task[t].want \in Config \cup {None}
           /\ task[t].held \in Assignment \cup {None}
           /\ Working(t) <=> task[t] # Idle
           /\ task[t].pc # "idle" => task[t].op # None
  BY IdleShape DEF Inv, TaskTyped, Shape, Jobs, Working

LEMMA RowFields ==
    ASSUME NEW r \in Row
    PROVE  r.panel \in Panels /\ r.config \in Config /\ r # None
  BY PanelAssumptions DEF Row

LEMMA AssignmentFields ==
    ASSUME NEW a \in Assignment
    PROVE  a.config \in Config /\ a.active \in BOOLEAN /\ a # None
  BY PanelAssumptions DEF Assignment

(* Columns of a row stay columns, whoever wrote them. *)
LEMMA ChangedTyped ==
    ASSUME NEW a \in Config, NEW b \in Config, NEW c \in Config
    PROVE  /\ Changed(a, b, c) \in Config
           /\ Changed(a, b, b) = a
           /\ Changed(a, a, c) = c
  BY DEF Changed, Config

LEMMA TaskStep ==
    ASSUME Inv, NEW t \in Tasks, Working(t), NEW j, Goes(t, j)
    PROVE  TaskTyped' /\ Met'
<1>1. /\ task \in [Tasks -> Jobs] /\ j \in Jobs
      /\ task'[t] = j /\ \A u \in Tasks : u # t => task'[u] = task[u]
  BY DEF Inv, TaskTyped, Goes, Shape
<1>2. task' \in [Tasks -> Jobs]
  BY <1>1 DEF Goes
<1>3. TaskTyped'
  BY <1>1, <1>2 DEF Inv, TaskTyped, Goes
<1>4. ASSUME NEW u \in Tasks, NEW w \in Tasks, u # w, Working(u)', Working(w)'
      PROVE  task'[u].met
  <2>1. Working(u) /\ Working(w)
    BY <1>1, <1>4 DEF Working
  <2>2. task[u].met
    BY <1>4, <2>1 DEF Inv, Met
  <2> QED
    BY <1>1, <1>4, <2>2, IdleShape DEF Goes, Working
<1>5. ASSUME NEW u \in Tasks, task'[u].op \in Editors, task'[u].met
      PROVE  apart'
  <2>1. task'[u] # Idle
    BY <1>5, IdleShape
  <2>2. task[u].op \in Editors /\ task[u].met
    BY <1>1, <1>5, <2>1 DEF Goes
  <2>3. apart
    BY <2>2 DEF Inv, Met
  <2>4. CASE u = t
    BY <1>1, <2>1, <2>3, <2>4 DEF Goes
  <2>5. CASE u # t
    <3>1. Working(u)
      BY <2>2, IdleShape, AtWork DEF Editors, Working, AdminOps, SellerOps
    <3>2. task[t].met
      BY <2>5, <3>1 DEF Inv, Met
    <3> QED
      BY <2>3, <3>2 DEF Goes
  <2> QED
    BY <2>4, <2>5
<1> QED
  BY <1>3, <1>4, <1>5 DEF Met

(* The job a handler starts with. *)
NewJob(op, step, p, want, held) ==
    [op |-> op, pc |-> step, panel |-> p, row |-> reseller, want |-> want, held |-> held,
     met |-> ~Quiet]

LEMMA Started ==
    ASSUME Inv, NEW t \in Tasks, NEW op, NEW step, NEW p, NEW want, NEW held,
           Start(t, op, step, p, want, held)
    PROVE  /\ task[t] = Idle
           /\ task'[t] = NewJob(op, step, p, want, held)
           /\ \A u \in Tasks \ {t} :
                 \/ task[u] = Idle /\ task'[u] = Idle
                 \/ task[u] # Idle /\ task'[u] = [task[u] EXCEPT !.met = TRUE] /\ ~Quiet
           /\ DOMAIN task' = Tasks
  BY DEF Start, MayStart, NewJob, Quiet

(* A handler that has met another has read and chosen the same. *)
LEMMA MetShape ==
    ASSUME NEW j, Shape(j), j # Idle, NEW k, k = [j EXCEPT !.met = TRUE]
    PROVE  /\ Shape(k) /\ k.pc # "idle" /\ k.pc = j.pc /\ k.op = j.op /\ k.op # None
           /\ k.panel = j.panel /\ k.row = j.row /\ k.want = j.want /\ k.held = j.held
           /\ k.met = TRUE
<1>1. j \in Jobs /\ j.pc # "idle" /\ j.op # None
  BY DEF Shape
<1>2. k \in Jobs /\ k.pc = j.pc /\ k.op = j.op /\ k.panel = j.panel /\ k.row = j.row
      /\ k.want = j.want /\ k.held = j.held /\ k.met = TRUE
  BY <1>1 DEF Jobs
<1> QED
  BY <1>1, <1>2 DEF Shape

LEMMA StartStep ==
    ASSUME Inv, NEW t \in Tasks, NEW op \in AdminOps \cup SellerOps, NEW step \in Steps \ {"idle"},
           NEW p, NEW want, NEW held,
           Start(t, op, step, p, want, held), Shape(NewJob(op, step, p, want, held))
    PROVE  TaskTyped' /\ Met' /\ HistoryTyped'
<1> DEFINE j == NewJob(op, step, p, want, held)
<1>1. j \in Jobs /\ j.op = op /\ j.pc = step /\ j.met = ~Quiet
  BY DEF Shape, NewJob
<1>2. /\ task[t] = Idle /\ task'[t] = j /\ DOMAIN task' = Tasks
      /\ \A u \in Tasks \ {t} :
                 \/ task[u] = Idle /\ task'[u] = Idle
                 \/ task[u] # Idle /\ task'[u] = [task[u] EXCEPT !.met = TRUE] /\ ~Quiet
  BY Started
<1> HIDE DEF j
<1>3. ASSUME NEW u \in Tasks, u # t
      PROVE  /\ Shape(task'[u])
             /\ Working(u)' => Working(u) /\ task'[u].met /\ ~Quiet
             /\ task'[u].op = task[u].op
  <2>1. CASE task[u] = Idle
    BY <1>2, <1>3, <2>1, IdleShape DEF Working
  <2>2. CASE task[u] # Idle
    <3>1. Shape(task[u]) /\ Working(u)
      BY <2>2, AtWork
    <3>2. task'[u] = [task[u] EXCEPT !.met = TRUE] /\ ~Quiet
      BY <1>2, <1>3, <2>2
    <3>3. Shape(task'[u]) /\ task'[u].op = task[u].op /\ task'[u].met = TRUE
      BY <2>2, <3>1, <3>2, MetShape
    <3> QED
      BY <3>1, <3>2, <3>3
  <2> QED
    BY <2>1, <2>2
<1>4. \A u \in Tasks : Shape(task'[u]) /\ task'[u] \in Jobs
  BY <1>2, <1>3 DEF Shape, j
<1>5. task' \in [Tasks -> Jobs]
  <2>1. task' = [u \in Tasks |-> task'[u]]
    BY DEF Start
  <2> QED
    BY <1>4, <2>1
<1>6. TaskTyped'
  BY <1>4, <1>5 DEF TaskTyped
<1>7. HistoryTyped'
  BY DEF Inv, HistoryTyped, Start
<1>8. apart => apart'
  BY DEF Start
<1>9. ASSUME NEW u \in Tasks, NEW w \in Tasks, u # w, Working(u)', Working(w)'
      PROVE  task'[u].met
  BY <1>1, <1>2, <1>3, <1>9
<1>10. ASSUME NEW u \in Tasks, task'[u].op \in Editors, task'[u].met
       PROVE  apart'
  <2>1. CASE u = t
    <3>1. op \in Editors /\ ~Quiet
      BY <1>1, <1>2, <1>10, <2>1
    <3>2. PICK w \in Tasks : task[w] # Idle
      BY <3>1 DEF Quiet
    <3> QED
      BY <3>1, <3>2 DEF Start
  <2>2. CASE u # t
    <3>1. task[u].op \in Editors
      BY <1>3, <1>10, <2>2
    <3>2. task[u] # Idle
      BY <3>1, IdleShape DEF Editors, AdminOps
    <3> QED
      BY <3>1, <3>2 DEF Start
  <2> QED
    BY <2>1, <2>2
<1> QED
  BY <1>6, <1>7, <1>9, <1>10 DEF Met

(* The first steps of the handlers. *)
Begin(t) ==
    \/ \E p \in Panels, c \in Config : NewBegin(t, p, c) \/ AddBegin(t, p, c)
    \/ \E c \in Config : EditBegin(t, c)
    \/ ChargeBegin(t)
    \/ \E p \in Panels : CreateBegin(t, p) \/ Drop(t, p) \/ RemoveBegin(t, p)
                         \/ DefaultBegin(t, p) \/ DeletePanelBegin(t, p)
    \/ DeleteBegin(t)

(* Their other steps. *)
Continue(t) ==
    \/ InsertRow(t) \/ CommitRow(t) \/ Refresh(t) \/ Lookup(t) \/ Sync(t)
    \/ CreateRecord(t) \/ CreateOnPanel(t) \/ CreateFails(t)
    \/ Add(t) \/ RemoveOthers(t) \/ Remove(t) \/ DefaultFetch(t) \/ DefaultCopy(t)
    \/ DeletePanel(t) \/ Delete(t)

(* What no handler does. *)
Aside ==
    \/ \E p \in Panels : CreatePanel(p)
    \/ \E p \in Panels, active \in BOOLEAN : Switch(p, active) \/ SwitchPanel(p, active)

LEMMA StepKinds ==
    ASSUME Next
    PROVE  (\E t \in Tasks : Begin(t) \/ Continue(t)) \/ Aside \/ Crash
<1> USE DEF Begin, Continue, Aside
<1>1. ASSUME NEW t \in Tasks, RowStep(t) PROVE Begin(t) \/ Continue(t)
  BY <1>1 DEF RowStep
<1>2. ASSUME NEW t \in Tasks, ServiceStep(t) PROVE Begin(t) \/ Continue(t)
  BY <1>2 DEF ServiceStep
<1>3. ASSUME NEW t \in Tasks, AssignmentStep(t) PROVE Begin(t) \/ Continue(t)
  BY <1>3 DEF AssignmentStep
<1>4. ASSUME NEW t \in Tasks, PanelStep(t) PROVE Begin(t) \/ Continue(t)
  BY <1>4 DEF PanelStep
<1> HIDE DEF Begin, Continue
<1> QED
  BY <1>1, <1>2, <1>3, <1>4 DEF Next

LEMMA ContinueWorks ==
    ASSUME Inv, NEW t \in Tasks, Continue(t)
    PROVE  Working(t)
  BY DEF Continue, InsertRow, CommitRow, Refresh, Lookup, Sync, CreateRecord, CreateOnPanel,
         CreateFails, Add, RemoveOthers, Remove, DefaultFetch, DefaultCopy, DeletePanel, Delete,
         At, Working

LEMMA ResellerFields ==
    ASSUME Inv, reseller # None
    PROVE  /\ reseller \in Row /\ reseller.panel \in Panels
           /\ reseller.config \in Config /\ reseller.config # None
  BY RowFields, PanelAssumptions DEF Inv, TablesTyped

(* What a handler starts with, and what it has found to start. *)
LEMMA Begun ==
    ASSUME Inv, NEW t \in Tasks, Begin(t)
    PROVE  /\ UNCHANGED <<panels, reseller, assigned>>
           /\ services' # services => \E p \in Panels : Drop(t, p)
           /\ \/ UNCHANGED <<task, history>>
              \/ \E op \in AdminOps \cup SellerOps, step \in Steps \ {"idle"},
                    p \in Panels \cup {None}, want \in Config \cup {None},
                    held \in Assignment \cup {None} :
                    /\ Start(t, op, step, p, want, held)
                    /\ Shape(NewJob(op, step, p, want, held))
                    /\ step \notin {"refresh", "lookup", "sync", "copy", "panel", "remove"}
                    /\ op \in SellerOps => reseller # None /\ step \in {"record", "commit"}
                    /\ op = "create" => assigned[p] # None /\ held = assigned[p]
                    /\ step \in {"insert", "add"} => panels[p] # None
                    /\ step = "fetch" => reseller # None
                    /\ step \in {"others", "remove"} => services[p] = 0
                    /\ step = "record" => op = "create"
                    /\ step = "delete_panel" =>
                          assigned[p] = None /\ (reseller # None => reseller.panel # p)
<1> DEFINE Start1(op, step, p, want, held) ==
              /\ Start(t, op, step, p, want, held)
              /\ Shape(NewJob(op, step, p, want, held))
              /\ step \notin {"refresh", "lookup", "sync", "copy", "panel", "remove"}
              /\ op \in SellerOps => reseller # None /\ step \in {"record", "commit"}
              /\ op = "create" => assigned[p] # None /\ held = assigned[p]
              /\ step \in {"insert", "add"} => panels[p] # None
              /\ step = "fetch" => reseller # None
              /\ step \in {"others", "remove"} => services[p] = 0
              /\ step = "record" => op = "create"
              /\ step = "delete_panel" =>
                    assigned[p] = None /\ (reseller # None => reseller.panel # p)
           Goal == /\ UNCHANGED <<panels, reseller, assigned>>
                   /\ services' # services => \E p \in Panels : Drop(t, p)
                   /\ \/ UNCHANGED <<task, history>>
                      \/ \E op \in AdminOps \cup SellerOps, step \in Steps \ {"idle"},
                            p \in Panels \cup {None}, want \in Config \cup {None},
                            held \in Assignment \cup {None} : Start1(op, step, p, want, held)
<1>0. /\ None \notin AdminOps \cup SellerOps
      /\ reseller \in Row \cup {None} /\ Quiet \in BOOLEAN
      /\ \A c \in Config : c # None
      /\ \A p \in Panels : p # None /\ assigned[p] \in Assignment \cup {None}
  BY PanelAssumptions DEF Inv, TablesTyped, Quiet
<1>1. ASSUME NEW op \in AdminOps \cup SellerOps, NEW step \in Steps \ {"idle"},
             NEW p \in Panels \cup {None}, NEW want \in Config \cup {None},
             NEW held \in Assignment \cup {None}
      PROVE  LET j == NewJob(op, step, p, want, held)
             IN  /\ j \in Jobs /\ j.op = op /\ j.pc = step /\ j.panel = p /\ j.row = reseller
                 /\ j.want = want /\ j.held = held
  BY <1>0 DEF NewJob, Jobs
<1>2. ASSUME NEW p \in Panels, NEW c \in Config, NewBegin(t, p, c) PROVE Goal
  <2> DEFINE step == IF reseller = None THEN "insert" ELSE "commit"
  <2>1. Start(t, "new", step, p, c, None) /\ panels[p] = TRUE
        /\ UNCHANGED <<panels, reseller, assigned, services>>
    BY <1>2 DEF NewBegin, tables
  <2>2. "new" \in AdminOps \cup SellerOps /\ step \in Steps \ {"idle"}
    BY DEF AdminOps, Steps
  <2>3. Shape(NewJob("new", step, p, c, None))
    BY <1>0, <1>1, <2>2 DEF Shape, SellerOps
  <2>4. Start1("new", step, p, c, None)
    BY <2>1, <2>3, PanelAssumptions DEF SellerOps
  <2> QED
    BY <2>1, <2>2, <2>4
<1>3. ASSUME NEW p \in Panels, NEW c \in Config, AddBegin(t, p, c) PROVE Goal
  <2>1. Start(t, "add", "add", p, c, None) /\ panels[p] # None
        /\ UNCHANGED <<panels, reseller, assigned, services>>
    BY <1>3 DEF AddBegin, tables
  <2>2. "add" \in AdminOps \cup SellerOps /\ "add" \in Steps \ {"idle"}
    BY DEF AdminOps, Steps
  <2>3. Shape(NewJob("add", "add", p, c, None))
    BY <1>0, <1>1, <2>2 DEF Shape, SellerOps
  <2>4. Start1("add", "add", p, c, None)
    BY <2>1, <2>3 DEF SellerOps
  <2> QED
    BY <2>1, <2>2, <2>4
<1>4. ASSUME NEW c \in Config, EditBegin(t, c) PROVE Goal
  <2>1. Start(t, "edit", "commit", None, c, None) /\ reseller # None
        /\ UNCHANGED <<panels, reseller, assigned, services>>
    BY <1>4 DEF EditBegin, tables
  <2>2. "edit" \in AdminOps \cup SellerOps /\ "commit" \in Steps \ {"idle"}
    BY DEF AdminOps, Steps
  <2>3. Shape(NewJob("edit", "commit", None, c, None))
    BY <1>0, <1>1, <2>1, <2>2 DEF Shape, SellerOps
  <2>4. Start1("edit", "commit", None, c, None)
    BY <2>1, <2>3 DEF SellerOps
  <2> QED
    BY <2>1, <2>2, <2>4
<1>5. ASSUME ChargeBegin(t) PROVE Goal
  <2>1. Start(t, "charge", "commit", None, reseller.config, None) /\ reseller # None
        /\ UNCHANGED <<panels, reseller, assigned, services>>
    BY <1>5 DEF ChargeBegin, tables
  <2>2. /\ "charge" \in AdminOps \cup SellerOps /\ "commit" \in Steps \ {"idle"}
        /\ reseller.config \in Config
    BY <2>1, ResellerFields DEF SellerOps, Steps
  <2>3. Shape(NewJob("charge", "commit", None, reseller.config, None))
    BY <1>0, <1>1, <2>1, <2>2 DEF Shape, SellerOps
  <2>4. Start1("charge", "commit", None, reseller.config, None)
    BY <2>1, <2>3
  <2> QED
    BY <2>1, <2>2, <2>4
<1>6. ASSUME NEW p \in Panels, CreateBegin(t, p) PROVE Goal
  <2>1. /\ Start(t, "create", "record", p, reseller.config, assigned[p])
        /\ reseller # None /\ assigned[p] # None
        /\ UNCHANGED <<panels, reseller, assigned, services>>
    BY <1>6 DEF CreateBegin, tables
  <2>2. /\ "create" \in AdminOps \cup SellerOps /\ "record" \in Steps \ {"idle"}
        /\ reseller.config \in Config /\ assigned[p] \in Assignment
    BY <1>0, <2>1, ResellerFields DEF SellerOps, Steps
  <2>3. Shape(NewJob("create", "record", p, reseller.config, assigned[p]))
    BY <1>0, <1>1, <2>1, <2>2 DEF Shape, SellerOps
  <2>4. Start1("create", "record", p, reseller.config, assigned[p])
    BY <2>1, <2>3
  <2> QED
    BY <2>1, <2>2, <2>4
<1>7. ASSUME NEW p \in Panels, Drop(t, p) PROVE Goal
  <2>1. CASE Start(t, "drop", "commit", None, reseller.config, None)
    <3>1. reseller # None /\ UNCHANGED <<panels, reseller, assigned>>
      BY <1>7 DEF Drop
    <3>2. /\ "drop" \in AdminOps \cup SellerOps /\ "commit" \in Steps \ {"idle"}
          /\ reseller.config \in Config
      BY <3>1, ResellerFields DEF SellerOps, Steps
    <3>3. Shape(NewJob("drop", "commit", None, reseller.config, None))
      BY <1>0, <1>1, <3>1, <3>2 DEF Shape, SellerOps
    <3>4. Start1("drop", "commit", None, reseller.config, None)
      BY <2>1, <3>1, <3>3
    <3> QED
      BY <1>7, <3>1, <3>2, <3>4
  <2>2. CASE UNCHANGED <<task, history>>
    BY <1>7, <2>2 DEF Drop
  <2> QED
    BY <1>7, <2>1, <2>2 DEF Drop
<1>8. ASSUME NEW p \in Panels, RemoveBegin(t, p) PROVE Goal
  <2>1. /\ Start(t, "remove", "others", p, reseller.config, None)
        /\ reseller # None /\ services[p] = 0
        /\ UNCHANGED <<panels, reseller, assigned, services>>
    BY <1>8 DEF RemoveBegin, tables
  <2>2. /\ "remove" \in AdminOps \cup SellerOps /\ "others" \in Steps \ {"idle"}
        /\ reseller.config \in Config
    BY <2>1, ResellerFields DEF AdminOps, Steps
  <2>3. Shape(NewJob("remove", "others", p, reseller.config, None))
    BY <1>0, <1>1, <2>2 DEF Shape, SellerOps
  <2>4. Start1("remove", "others", p, reseller.config, None)
    BY <2>1, <2>3 DEF SellerOps
  <2> QED
    BY <2>1, <2>2, <2>4
<1>9. ASSUME NEW p \in Panels, DefaultBegin(t, p) PROVE Goal
  <2>1. /\ Start(t, "default", "fetch", p, reseller.config, None) /\ reseller # None
        /\ UNCHANGED <<panels, reseller, assigned, services>>
    BY <1>9 DEF DefaultBegin, tables
  <2>2. /\ "default" \in AdminOps \cup SellerOps /\ "fetch" \in Steps \ {"idle"}
        /\ reseller.config \in Config
    BY <2>1, ResellerFields DEF AdminOps, Steps
  <2>3. Shape(NewJob("default", "fetch", p, reseller.config, None))
    BY <1>0, <1>1, <2>1, <2>2 DEF Shape, SellerOps
  <2>4. Start1("default", "fetch", p, reseller.config, None)
    BY <2>1, <2>3 DEF SellerOps
  <2> QED
    BY <2>1, <2>2, <2>4
<1>10. ASSUME NEW p \in Panels, DeletePanelBegin(t, p) PROVE Goal
  <2>1. /\ Start(t, "delete_panel", "delete_panel", p, None, None)
        /\ assigned[p] = None /\ (reseller # None => reseller.panel # p)
        /\ UNCHANGED <<panels, reseller, assigned, services>>
    BY <1>10 DEF DeletePanelBegin, tables
  <2>2. "delete_panel" \in AdminOps \cup SellerOps /\ "delete_panel" \in Steps \ {"idle"}
    BY DEF AdminOps, Steps
  <2>3. Shape(NewJob("delete_panel", "delete_panel", p, None, None))
    BY <1>0, <1>1, <2>2 DEF Shape, SellerOps
  <2>4. Start1("delete_panel", "delete_panel", p, None, None)
    BY <2>1, <2>3 DEF SellerOps
  <2> QED
    BY <2>1, <2>2, <2>4
<1>11. ASSUME DeleteBegin(t) PROVE Goal
  <2>1. /\ Start(t, "delete", "delete", None, reseller.config, None) /\ reseller # None
        /\ UNCHANGED <<panels, reseller, assigned, services>>
    BY <1>11 DEF DeleteBegin, tables
  <2>2. /\ "delete" \in AdminOps \cup SellerOps /\ "delete" \in Steps \ {"idle"}
        /\ reseller.config \in Config
    BY <2>1, ResellerFields DEF AdminOps, Steps
  <2>3. Shape(NewJob("delete", "delete", None, reseller.config, None))
    BY <1>0, <1>1, <2>1, <2>2 DEF Shape, SellerOps
  <2>4. Start1("delete", "delete", None, reseller.config, None)
    BY <2>1, <2>3 DEF SellerOps
  <2> QED
    BY <2>1, <2>2, <2>4
<1>12. Goal
  BY <1>2, <1>3, <1>4, <1>5, <1>6, <1>7, <1>8, <1>9, <1>10, <1>11 DEF Begin
<1> QED
  BY <1>12

(* The other steps of a handler keep the types and shapes. *)
LEMMA WentShape ==
    ASSUME NEW j \in Jobs, j.op # None, NEW step \in Steps \ {"idle"}, NEW k,
           k = [j EXCEPT !.pc = step]
    PROVE  /\ k \in Jobs /\ k.pc = step /\ k.op = j.op /\ k.op # None /\ k.panel = j.panel
           /\ k.row = j.row /\ k.want = j.want /\ k.held = j.held /\ k.met = j.met
  BY DEF Jobs

LEMMA Went ==
    ASSUME Inv, NEW t \in Tasks, Working(t), NEW step \in Steps \ {"idle"}, Goto(t, step),
           Shape([task[t] EXCEPT !.pc = step]), apart => apart'
    PROVE  \E j : Goes(t, j)
<1>1. task[t] \in Jobs /\ task \in [Tasks -> Jobs]
  BY DEF Inv, TaskTyped
<1> DEFINE j == [task[t] EXCEPT !.pc = step]
<1>2. j.op = task[t].op /\ j.met = task[t].met /\ task' = [task EXCEPT ![t] = j]
  BY <1>1 DEF Jobs, Goto
<1> QED
  BY <1>2 DEF Goes

LEMMA Ended ==
    ASSUME NEW t \in Tasks, End(t), apart => apart' \/ ~task[t].met
    PROVE  \E j : Goes(t, j)
  BY IdleShape DEF End, Goes

LEMMA InsertTyped == ASSUME Inv, NEW t \in Tasks, InsertRow(t) PROVE StepTyped(t)
<1>1. /\ Working(t) /\ Shape(task[t]) /\ task[t] \in Jobs /\ task[t].op # None /\ task[t].pc = "insert"
      /\ task[t].panel \in Panels /\ task[t].want \in Config
      /\ UNCHANGED <<panels, assigned, services, spoiled, apart>>
  BY AtWork DEF InsertRow, At, Working, Shape
<1>2. CASE reseller = None
  <2>1. /\ reseller' = [panel |-> task[t].panel, config |-> task[t].want]
        /\ Goto(t, "refresh") /\ revoked' = revoked \ {task[t].panel}
    BY <1>2 DEF InsertRow
  <2>2. reseller' \in Row
    BY <1>1, <2>1 DEF Row
  <2>3. Shape([task[t] EXCEPT !.pc = "refresh"])
    BY <1>1, WentShape DEF Shape, SellerOps, Steps
  <2>4. \E j : Goes(t, j)
    BY <1>1, <2>1, <2>3, Went DEF Steps
  <2> QED
    BY <1>1, <2>1, <2>2, <2>4 DEF StepTyped, Inv, TablesTyped, HistoryTyped
<1>3. CASE reseller # None
  BY <1>1, <1>3, Ended DEF InsertRow, StepTyped, Inv, TablesTyped, HistoryTyped
<1> QED
  BY <1>2, <1>3

LEMMA CommitTyped == ASSUME Inv, NEW t \in Tasks, CommitRow(t) PROVE StepTyped(t)
<1>1. /\ Working(t) /\ Shape(task[t]) /\ task[t] \in Jobs /\ task[t].op # None /\ task[t].pc = "commit"
      /\ task[t].row \in Row /\ task[t].want \in Config
      /\ UNCHANGED <<panels, assigned, services, revoked, spoiled, apart>>
  BY AtWork DEF CommitRow, At, Working, Shape, history
<1>2. CASE reseller # None
  <2>1. /\ reseller' = [reseller EXCEPT !.config =
                            Changed(reseller.config, task[t].row.config, task[t].want)]
        /\ Goto(t, "refresh")
    BY <1>2 DEF CommitRow
  <2>2. Changed(reseller.config, task[t].row.config, task[t].want) \in Config
    BY <1>1, <1>2, ChangedTyped, ResellerFields, RowFields
  <2>3. reseller' \in Row
    BY <1>2, <2>1, <2>2, ResellerFields DEF Row
  <2>4. Shape([task[t] EXCEPT !.pc = "refresh"])
    BY <1>1, WentShape DEF Shape, SellerOps, Steps
  <2>5. \E j : Goes(t, j)
    BY <1>1, <2>1, <2>4, Went DEF Steps
  <2> QED
    BY <1>1, <2>3, <2>5 DEF StepTyped, Inv, TablesTyped, HistoryTyped
<1>3. CASE reseller = None
  BY <1>1, <1>3, Ended DEF CommitRow, StepTyped, Inv, TablesTyped, HistoryTyped
<1> QED
  BY <1>2, <1>3

LEMMA RefreshTyped == ASSUME Inv, NEW t \in Tasks, Refresh(t) PROVE StepTyped(t)
<1>1. /\ Working(t) /\ Shape(task[t]) /\ task[t] \in Jobs /\ task[t].op # None /\ task[t].pc = "refresh"
      /\ UNCHANGED <<tables, history>>
  BY AtWork DEF Refresh, At, Working
<1>2. TablesTyped' /\ HistoryTyped' /\ apart' = apart
  BY <1>1 DEF Inv, TablesTyped, HistoryTyped, tables, history
<1>3. CASE reseller # None
  <2> DEFINE j == [task[t] EXCEPT !.pc = "lookup", !.row = reseller, !.want = None]
  <2>1. task' = [task EXCEPT ![t] = j]
    BY <1>3 DEF Refresh
  <2>2. /\ j \in Jobs /\ j.pc = "lookup" /\ j.row = reseller /\ j.want = None
        /\ j.op = task[t].op /\ j.met = task[t].met /\ j.panel = task[t].panel
        /\ j.held = task[t].held
    BY <1>1, <1>3, ResellerFields DEF Jobs, Steps
  <2> HIDE DEF j
  <2>3. Shape(j)
    BY <1>1, <1>3, <2>2 DEF Shape, SellerOps
  <2> QED
    BY <1>2, <2>1, <2>2, <2>3 DEF StepTyped, Goes
<1>4. CASE reseller = None
  BY <1>2, <1>4, Ended DEF Refresh, StepTyped
<1> QED
  BY <1>3, <1>4

LEMMA LookupTyped == ASSUME Inv, NEW t \in Tasks, Lookup(t) PROVE StepTyped(t)
<1>1. /\ Working(t) /\ Shape(task[t]) /\ task[t] \in Jobs /\ task[t].op # None /\ task[t].pc = "lookup"
      /\ task[t].row \in Row /\ task[t].held \in Assignment \cup {None}
      /\ UNCHANGED <<tables, history>>
  BY AtWork DEF Lookup, At, Working, Shape
<1>2. TablesTyped' /\ HistoryTyped' /\ apart' = apart
  BY <1>1 DEF Inv, TablesTyped, HistoryTyped, tables, history
<1> DEFINE h == IF HasDefault(task[t]) THEN task[t].held ELSE assigned[task[t].row.panel]
           j == [task[t] EXCEPT !.pc = "sync", !.held = h]
<1>3. task' = [task EXCEPT ![t] = j]
  BY DEF Lookup
<1>4. h \in Assignment \cup {None}
  BY <1>1, RowFields DEF Inv, TablesTyped
<1> HIDE DEF h
<1>5. /\ j \in Jobs /\ j.pc = "sync" /\ j.row = task[t].row /\ j.want = task[t].want
      /\ j.op = task[t].op /\ j.met = task[t].met /\ j.panel = task[t].panel
  BY <1>1, <1>4 DEF Jobs, Steps
<1> HIDE DEF j
<1>6. Shape(j)
  BY <1>1, <1>5 DEF Shape
<1> QED
  BY <1>2, <1>3, <1>5, <1>6 DEF StepTyped, Goes

LEMMA SyncTyped == ASSUME Inv, NEW t \in Tasks, Sync(t) PROVE StepTyped(t)
<1> DEFINE j == task[t]
           p == j.row.panel
<1>1. /\ j.pc = "sync" /\ j.row \in Row /\ j.held \in Assignment \cup {None}
      /\ j.met \in BOOLEAN
      /\ UNCHANGED <<panels, reseller, services, revoked, spoiled>>
      /\ apart' = (apart /\ j.met) /\ End(t)
  BY AtWork DEF Sync, At, Working, Shape
<1>2. p \in Panels /\ j.row.config \in Config
  BY <1>1, RowFields
<1>3. assigned' \in [Panels -> Assignment \cup {None}]
  <2>1. assigned \in [Panels -> Assignment \cup {None}]
    BY DEF Inv, TablesTyped
  <2>2. CASE j.held = None /\ assigned[p] = None
    <3>1. assigned' = [assigned EXCEPT ![p] = [config |-> j.row.config, active |-> TRUE]]
      BY <2>2 DEF Sync
    <3> QED
      BY <1>2, <2>1, <3>1 DEF Assignment
  <2>3. CASE j.held # None /\ assigned[p] # None
    <3> DEFINE c == Changed(assigned[p].config, j.held.config, j.row.config)
    <3>1. assigned' = [assigned EXCEPT ![p] = [assigned[p] EXCEPT !.config = c]]
      BY <1>2, <2>1, <2>3 DEF Sync
    <3>2. assigned[p] \in Assignment /\ c \in Config
      BY <1>1, <1>2, <2>1, <2>3, AssignmentFields, ChangedTyped
    <3>3. [assigned[p] EXCEPT !.config = c] \in Assignment
      BY <3>2 DEF Assignment
    <3> QED
      BY <1>2, <2>1, <3>1, <3>3
  <2>4. CASE (j.held = None) # (assigned[p] = None)
    BY <2>1, <2>4 DEF Sync
  <2> QED
    BY <2>2, <2>3, <2>4
<1>4. apart' \in BOOLEAN /\ (apart => apart' \/ ~task[t].met)
  BY <1>1 DEF Inv, HistoryTyped
<1> HIDE DEF j, p
<1>5. TablesTyped' /\ HistoryTyped'
  BY <1>1, <1>3, <1>4 DEF Inv, TablesTyped, HistoryTyped
<1> QED
  BY <1>1, <1>4, <1>5, Ended DEF StepTyped

LEMMA RecordTyped == ASSUME Inv, NEW t \in Tasks, CreateRecord(t) PROVE StepTyped(t)
<1>1. /\ Working(t) /\ Shape(task[t]) /\ task[t] \in Jobs /\ task[t].op # None /\ task[t].pc = "record"
      /\ task[t].panel \in Panels
      /\ services[task[t].panel] < MaxServices
      /\ services' = [services EXCEPT ![task[t].panel] = @ + 1]
      /\ Goto(t, "panel")
      /\ UNCHANGED <<panels, reseller, assigned, history>>
  BY AtWork DEF CreateRecord, At, Working, Shape
<1>2. services' \in [Panels -> 0..MaxServices]
  BY <1>1, PanelAssumptions DEF Inv, TablesTyped
<1>3. TablesTyped' /\ HistoryTyped' /\ apart' = apart
  BY <1>1, <1>2 DEF Inv, TablesTyped, HistoryTyped, history
<1>4. Shape([task[t] EXCEPT !.pc = "panel"])
  BY <1>1, WentShape DEF Shape, SellerOps, Steps
<1>5. \E j : Goes(t, j)
  BY <1>1, <1>3, <1>4, Went DEF Steps
<1> QED
  BY <1>3, <1>5 DEF StepTyped

LEMMA OnPanelTyped == ASSUME Inv, NEW t \in Tasks, CreateOnPanel(t) PROVE StepTyped(t)
<1>1. /\ Working(t) /\ Shape(task[t]) /\ task[t] \in Jobs /\ task[t].op # None /\ task[t].pc = "panel"
      /\ Goto(t, "commit") /\ UNCHANGED <<tables, history>>
  BY AtWork DEF CreateOnPanel, At, Working
<1>2. TablesTyped' /\ HistoryTyped' /\ apart' = apart
  BY <1>1 DEF Inv, TablesTyped, HistoryTyped, tables, history
<1>3. Shape([task[t] EXCEPT !.pc = "commit"])
  BY <1>1, WentShape DEF Shape, SellerOps, Steps
<1>4. \E j : Goes(t, j)
  BY <1>1, <1>2, <1>3, Went DEF Steps
<1> QED
  BY <1>2, <1>4 DEF StepTyped

LEMMA FailsTyped == ASSUME Inv, NEW t \in Tasks, CreateFails(t) PROVE StepTyped(t)
<1>1. /\ task[t].panel \in Panels /\ End(t)
      /\ UNCHANGED <<panels, reseller, assigned, history>>
  BY AtWork DEF CreateFails, At, Shape
<1>2. PICK n \in {services[task[t].panel] - 1, services[task[t].panel]} \cap Nat :
           services' = [services EXCEPT ![task[t].panel] = n]
  BY DEF CreateFails
<1>3. services[task[t].panel] \in 0..MaxServices /\ MaxServices \in Nat
  BY <1>1, PanelAssumptions DEF Inv, TablesTyped
<1>4. n \in 0..MaxServices
  BY <1>2, <1>3
<1>5. TablesTyped' /\ HistoryTyped' /\ apart' = apart
  BY <1>1, <1>2, <1>4 DEF Inv, TablesTyped, HistoryTyped, history
<1> QED
  BY <1>1, <1>5, Ended DEF StepTyped

LEMMA AddTyped == ASSUME Inv, NEW t \in Tasks, Add(t) PROVE StepTyped(t)
<1>1. /\ task[t].panel \in Panels /\ task[t].want \in Config /\ End(t)
      /\ UNCHANGED <<panels, reseller, services, spoiled, apart>>
  BY AtWork DEF Add, At, Shape
<1>2. [config |-> task[t].want, active |-> TRUE] \in Assignment
  BY <1>1 DEF Assignment
<1>3. /\ assigned' \in [Panels -> Assignment \cup {None}]
      /\ revoked' \subseteq Panels
  BY <1>1, <1>2 DEF Add, Inv, TablesTyped, HistoryTyped
<1> QED
  BY <1>1, <1>3, Ended DEF StepTyped, Inv, TablesTyped, HistoryTyped

LEMMA OthersTyped == ASSUME Inv, NEW t \in Tasks, RemoveOthers(t) PROVE StepTyped(t)
<1>1. /\ Working(t) /\ Shape(task[t]) /\ task[t] \in Jobs /\ task[t].op # None /\ task[t].pc = "others"
      /\ Goto(t, "remove") \/ End(t)
      /\ UNCHANGED <<tables, history>>
  BY AtWork DEF RemoveOthers, At, Working
<1>2. TablesTyped' /\ HistoryTyped' /\ apart' = apart
  BY <1>1 DEF Inv, TablesTyped, HistoryTyped, tables, history
<1>3. Shape([task[t] EXCEPT !.pc = "remove"])
  BY <1>1, WentShape DEF Shape, SellerOps, Steps
<1>4. \E j : Goes(t, j)
  BY <1>1, <1>2, <1>3, Went, Ended DEF Steps
<1> QED
  BY <1>2, <1>4 DEF StepTyped

LEMMA RemoveTyped == ASSUME Inv, NEW t \in Tasks, Remove(t) PROVE StepTyped(t)
<1> DEFINE p == task[t].panel
<1>1. /\ p \in Panels /\ End(t)
      /\ UNCHANGED <<panels, reseller, services>>
      /\ assigned' = [assigned EXCEPT ![p] = None]
      /\ revoked' \subseteq revoked \cup {p}
      /\ spoiled' \subseteq spoiled \cup {p}
      /\ apart' = (apart \/ (reseller # None /\ reseller.panel = p))
  BY AtWork DEF Remove, At, Shape
<1> HIDE DEF p
<1>2. TablesTyped' /\ HistoryTyped' /\ (apart => apart')
  BY <1>1 DEF Inv, TablesTyped, HistoryTyped
<1> QED
  BY <1>1, <1>2, Ended DEF StepTyped

LEMMA FetchTyped == ASSUME Inv, NEW t \in Tasks, DefaultFetch(t) PROVE StepTyped(t)
<1> DEFINE p == task[t].panel
           j == [task[t] EXCEPT !.pc = "copy", !.want = assigned[p].config]
<1>1. /\ Working(t) /\ Shape(task[t]) /\ task[t] \in Jobs /\ task[t].op # None /\ task[t].pc = "fetch"
      /\ p \in Panels
      /\ UNCHANGED <<tables, history>>
  BY AtWork DEF DefaultFetch, At, Working, Shape
<1>2. TablesTyped' /\ HistoryTyped' /\ apart' = apart
  BY <1>1 DEF Inv, TablesTyped, HistoryTyped, tables, history
<1>3. CASE assigned[p] # None /\ panels[p] # None
  <2>1. task' = [task EXCEPT ![t] = j]
    BY <1>3 DEF DefaultFetch
  <2>2. assigned[p].config \in Config /\ assigned[p].config # None
    BY <1>1, <1>3, AssignmentFields, PanelAssumptions DEF Inv, TablesTyped
  <2>3. /\ j \in Jobs /\ j.pc = "copy" /\ j.row = task[t].row /\ j.panel = p
        /\ j.want = assigned[p].config
        /\ j.op = task[t].op /\ j.met = task[t].met
    BY <1>1, <2>2 DEF Jobs, Steps
  <2> HIDE DEF j
  <2>4. Shape(j)
    BY <1>1, <2>2, <2>3 DEF Shape, SellerOps
  <2> QED
    BY <1>2, <2>1, <2>3, <2>4 DEF StepTyped, Goes
<1>4. CASE ~(assigned[p] # None /\ panels[p] # None)
  BY <1>2, <1>4, Ended DEF DefaultFetch, StepTyped
<1> QED
  BY <1>3, <1>4

LEMMA CopyTyped == ASSUME Inv, NEW t \in Tasks, DefaultCopy(t) PROVE StepTyped(t)
<1> DEFINE j == task[t]
<1>1. /\ j.panel \in Panels /\ j.row \in Row /\ j.want \in Config /\ j.met \in BOOLEAN /\ End(t)
      /\ UNCHANGED <<panels, assigned, services, revoked, spoiled>>
  BY AtWork DEF DefaultCopy, At, Shape
<1>2. CASE reseller # None
  <2>1. /\ reseller' = [panel |-> IF j.panel = j.row.panel THEN reseller.panel ELSE j.panel,
                        config |-> Changed(reseller.config, j.row.config, j.want)]
        /\ apart' = (apart /\ j.met)
    BY <1>2 DEF DefaultCopy
  <2>2. Changed(reseller.config, j.row.config, j.want) \in Config
    BY <1>1, <1>2, ChangedTyped, ResellerFields, RowFields
  <2>3. reseller' \in Row
    BY <1>1, <1>2, <2>1, <2>2, ResellerFields DEF Row
  <2>4. apart' \in BOOLEAN /\ (apart => apart' \/ ~task[t].met)
    BY <1>1, <2>1 DEF Inv, HistoryTyped
  <2> HIDE DEF j
  <2>5. TablesTyped' /\ HistoryTyped'
    BY <1>1, <2>3, <2>4 DEF Inv, TablesTyped, HistoryTyped
  <2> QED
    BY <1>1, <2>4, <2>5, Ended DEF StepTyped
<1>3. CASE reseller = None
  BY <1>1, <1>3, Ended DEF DefaultCopy, StepTyped, Inv, TablesTyped, HistoryTyped
<1> QED
  BY <1>2, <1>3

LEMMA DeletePanelTyped == ASSUME Inv, NEW t \in Tasks, DeletePanel(t) PROVE StepTyped(t)
<1>1. /\ task[t].panel \in Panels /\ End(t)
      /\ panels' = [panels EXCEPT ![task[t].panel] = None]
      /\ spoiled' \subseteq spoiled \cup {task[t].panel}
      /\ UNCHANGED <<reseller, assigned, services, revoked, apart>>
  BY AtWork DEF DeletePanel, At, Shape
<1> QED
  BY <1>1, Ended DEF StepTyped, Inv, TablesTyped, HistoryTyped

LEMMA DeleteTyped == ASSUME Inv, NEW t \in Tasks, Delete(t) PROVE StepTyped(t)
<1>1. /\ reseller' \in {reseller, None} /\ End(t)
      /\ UNCHANGED <<panels, assigned, services, revoked, spoiled, apart>>
  BY DEF Delete, history
<1> QED
  BY <1>1, Ended DEF StepTyped, Inv, TablesTyped, HistoryTyped

LEMMA ContinueTyped == ASSUME Inv, NEW t \in Tasks, Continue(t) PROVE StepTyped(t)
  BY InsertTyped, CommitTyped, RefreshTyped, LookupTyped, SyncTyped, RecordTyped, OnPanelTyped,
     FailsTyped, AddTyped, OthersTyped, RemoveTyped, FetchTyped, CopyTyped, DeletePanelTyped,
     DeleteTyped
     DEF Continue

LEMMA AsideTyped ==
    ASSUME Inv, Aside
    PROVE  TablesTyped' /\ UNCHANGED <<reseller, services, task, history>>
<1>1. ASSUME NEW p \in Panels, CreatePanel(p)
      PROVE  TablesTyped' /\ UNCHANGED <<reseller, services, task, history>>
  BY <1>1 DEF CreatePanel, Inv, TablesTyped
<1>2. ASSUME NEW p \in Panels, NEW active \in BOOLEAN, SwitchPanel(p, active)
      PROVE  TablesTyped' /\ UNCHANGED <<reseller, services, task, history>>
  BY <1>2 DEF SwitchPanel, Inv, TablesTyped
<1>3. ASSUME NEW p \in Panels, NEW active \in BOOLEAN, Switch(p, active)
      PROVE  TablesTyped' /\ UNCHANGED <<reseller, services, task, history>>
  <2>1. assigned[p] \in Assignment /\ assigned \in [Panels -> Assignment \cup {None}]
    BY <1>3 DEF Switch, Inv, TablesTyped
  <2>2. assigned' = [assigned EXCEPT ![p] = [assigned[p] EXCEPT !.active = active]]
    BY <1>3, <2>1 DEF Switch
  <2>3. [assigned[p] EXCEPT !.active = active] \in Assignment
    BY <2>1 DEF Assignment
  <2> QED
    BY <1>3, <2>1, <2>2, <2>3 DEF Switch, Inv, TablesTyped
<1> QED
  BY <1>1, <1>2, <1>3 DEF Aside

LEMMA BeginTyped == ASSUME Inv, NEW t \in Tasks, Begin(t) PROVE Inv'
<1>1. TablesTyped'
  <2>1. services' \in [Panels -> 0..MaxServices]
    <3>1. CASE services' = services
      BY <3>1 DEF Inv, TablesTyped
    <3>2. ASSUME NEW p \in Panels, Drop(t, p) PROVE services' \in [Panels -> 0..MaxServices]
      BY <3>2, PanelAssumptions DEF Drop, Inv, TablesTyped
    <3> QED
      BY <3>1, <3>2, Begun
  <2> QED
    BY <2>1, Begun DEF Inv, TablesTyped
<1>2. CASE UNCHANGED <<task, history>>
  BY <1>1, <1>2 DEF Inv, HistoryTyped, TaskTyped, Met, Working, history
<1>3. CASE ~UNCHANGED <<task, history>>
  BY <1>1, <1>3, Begun, StartStep DEF Inv
<1> QED
  BY <1>2, <1>3

LEMMA CrashTyped == ASSUME Inv, Crash PROVE Inv'
<1>1. TablesTyped' /\ HistoryTyped'
  BY DEF Crash, Inv, TablesTyped, HistoryTyped, tables
<1>2. \A t \in Tasks : task'[t] = Idle
  BY DEF Crash
<1>3. TaskTyped'
  BY <1>2, IdleShape DEF Crash, TaskTyped
<1>4. Met'
  BY <1>2, IdleShape DEF Met, Working
<1> QED
  BY <1>1, <1>3, <1>4 DEF Inv

LEMMA NextInv == Inv /\ [Next]_vars => Inv'
<1> SUFFICES ASSUME Inv, [Next]_vars PROVE Inv'
  OBVIOUS
<1>1. ASSUME NEW t \in Tasks, Continue(t) PROVE Inv'
  BY <1>1, ContinueTyped, ContinueWorks, TaskStep DEF StepTyped, Inv
<1>2. CASE Aside
  BY <1>2, AsideTyped DEF Inv, HistoryTyped, TaskTyped, Met, Working, history
<1>3. CASE UNCHANGED vars
  BY <1>3 DEF Inv, TablesTyped, HistoryTyped, TaskTyped, Met, Working, vars, tables, history
<1> QED
  BY <1>1, <1>2, <1>3, BeginTyped, CrashTyped, StepKinds

(* The tables and what the handlers have read stay of their types: every   *)
(* reseller, assignment and number of services is one the code can hold.   *)
THEOREM TypeCorrect == Spec => []TypeOK
<1>1. Inv => TypeOK
  BY DEF Inv, TablesTyped, HistoryTyped, TaskTyped, TypeOK
<1> QED
  BY <1>1, InitInv, NextInv, PTL DEF Spec

(***************************************************************************)
(* What nobody spoiled is sound.                                           *)
(***************************************************************************)
(* What is there of panel p, and of its assignment, stays there.           *)
Kept(p) ==
    /\ panels[p] # None => panels'[p] # None
    /\ reseller # None /\ assigned[p] # None => reseller' # None /\ assigned'[p] # None

LEMMA IdleRelies ==
    ASSUME NEW t \in Tasks, NEW p \in Panels, task'[t] = Idle
    PROVE  Relies(task[t], p)'
  BY IdleShape DEF Relies, Brings

LEMMA EndsIdle ==
    ASSUME Inv, NEW t \in Tasks, End(t)
    PROVE  task'[t] = Idle
  BY DEF End, Inv, TaskTyped

(* The handlers that are at work with t have met it: they rely on what is  *)
(* there, and nobody takes that from a panel he does not spoil.            *)
LEMMA StaysSound ==
    ASSUME Inv, SpoilInv, NEW t \in Tasks, Working(t), NEW j, Goes(t, j),
           NEW p \in Panels \ spoiled, Kept(p) \/ ~task[t].met,
           ~Dangling(p)', Relies(task[t], p)'
    PROVE  Sound(p)'
<1>1. \A u \in Tasks : u # t => task'[u] = task[u]
  BY DEF Goes, Inv, TaskTyped
<1>2. ASSUME NEW u \in Tasks, u # t PROVE Relies(task[u], p)'
  <2>1. CASE task[u] = Idle
    BY <1>1, <1>2, <2>1, IdleRelies
  <2>2. CASE task[u] # Idle
    <3>1. task[t].met /\ task[u].met
      BY <1>2, <2>2, AtWork DEF Inv, Met
    <3>2. Relies(task[u], p)
      BY DEF SpoilInv, Sound
    <3> QED
      BY <1>1, <1>2, <3>1, <3>2 DEF Relies, Brings, Kept
  <2> QED
    BY <2>1, <2>2
<1> QED
  BY <1>2 DEF Sound

(* A step after which t rests, or goes on relying on nothing new, and      *)
(* which leaves the panels, the row and the assignments as they are.       *)
LEMMA QuietStep ==
    ASSUME Inv, SpoilInv, NEW t \in Tasks, Continue(t),
           UNCHANGED <<panels, reseller, assigned, services, spoiled>>,
           \A p \in Panels \ spoiled : Relies(task[t], p)'
    PROVE  SpoilInv'
<1>1. PICK j : Goes(t, j)
  BY ContinueTyped DEF StepTyped
<1>2. ASSUME NEW p \in Panels \ spoiled PROVE Sound(p)'
  <2>1. ~Dangling(p)'
    BY DEF SpoilInv, Sound, Dangling
  <2>2. Kept(p)
    BY DEF Kept
  <2> QED
    BY <1>1, <2>1, <2>2, StaysSound, ContinueWorks
<1> QED
  BY <1>2 DEF SpoilInv

(* A step that ends in rest. *)
LEMMA EndStep ==
    ASSUME Inv, SpoilInv, NEW t \in Tasks, Continue(t), End(t), spoiled \subseteq spoiled',
           \A p \in Panels \ spoiled' : (Kept(p) \/ ~task[t].met) /\ ~Dangling(p)'
    PROVE  SpoilInv'
<1>1. PICK j : Goes(t, j)
  BY ContinueTyped DEF StepTyped
<1>2. ASSUME NEW p \in Panels \ spoiled' PROVE Sound(p)'
  BY <1>1, <1>2, StaysSound, ContinueWorks, EndsIdle, IdleRelies
<1> QED
  BY <1>2 DEF SpoilInv

LEMMA InsertSound == ASSUME Inv, SpoilInv, NEW t \in Tasks, InsertRow(t) PROVE SpoilInv'
<1>1. Continue(t)
  BY DEF Continue
<1>2. /\ task[t].panel \in Panels /\ task[t].pc = "insert" /\ task[t].op # None
      /\ UNCHANGED <<panels, assigned, services, spoiled>>
  BY AtWork DEF InsertRow, At, Shape
<1>3. CASE reseller = None
  <2>1. /\ reseller' = [panel |-> task[t].panel, config |-> task[t].want]
        /\ reseller' # None /\ reseller'.panel = task[t].panel
        /\ task'[t] = [task[t] EXCEPT !.pc = "refresh"]
    <3>1. StepTyped(t) /\ reseller' = [panel |-> task[t].panel, config |-> task[t].want]
          /\ Goto(t, "refresh")
      BY <1>3, InsertTyped DEF InsertRow
    <3>2. reseller' # None
      BY <1>2, <3>1, AtWork, PanelAssumptions DEF Row, Shape
    <3> QED
      BY <3>1, <3>2 DEF Goto, Inv, TaskTyped
  <2>2. task'[t].pc = "refresh"
    BY <2>1, AtWork DEF Jobs
  <2>3. PICK j : Goes(t, j)
    BY <1>1, ContinueTyped DEF StepTyped
  <2>4. ASSUME NEW p \in Panels \ spoiled PROVE Sound(p)'
    <3>1. ~Dangling(p) /\ Relies(task[t], p)
      BY DEF SpoilInv, Sound
    <3>2. ~Dangling(p)'
      BY <1>2, <1>3, <2>1, <3>1 DEF Dangling, Relies, Brings
    <3>3. Kept(p)
      BY <1>2, <1>3 DEF Kept
    <3>4. Relies(task[t], p)'
      BY <2>2 DEF Relies, Brings
    <3> QED
      BY <1>1, <2>3, <3>2, <3>3, <3>4, StaysSound, ContinueWorks
  <2> QED
    BY <1>2, <2>4 DEF SpoilInv
<1>4. CASE reseller # None
  BY <1>1, <1>2, <1>4, QuietStep, EndsIdle, IdleRelies DEF InsertRow
<1> QED
  BY <1>3, <1>4

LEMMA CommitSound == ASSUME Inv, SpoilInv, NEW t \in Tasks, CommitRow(t) PROVE SpoilInv'
<1>1. Continue(t)
  BY DEF Continue
<1>2. UNCHANGED <<panels, assigned, services, spoiled>>
  BY DEF CommitRow, history
<1>3. CASE reseller # None
  <2>1. /\ reseller' \in Row /\ reseller' # None /\ reseller'.panel = reseller.panel
        /\ task'[t] = [task[t] EXCEPT !.pc = "refresh"]
    <3>1. StepTyped(t) /\ Goto(t, "refresh")
          /\ reseller' = [reseller EXCEPT !.config =
                              Changed(reseller.config, task[t].row.config, task[t].want)]
      BY <1>3, CommitTyped DEF CommitRow
    <3>2. reseller \in Row
      BY <1>3, ResellerFields
    <3>3. reseller'.panel = reseller.panel /\ DOMAIN reseller' = DOMAIN reseller
      BY <3>1, <3>2 DEF Row
    <3>4. reseller' # None
      <4>1. Changed(reseller.config, task[t].row.config, task[t].want) \in Config
        BY <1>3, ChangedTyped, ResellerFields, RowFields, AtWork DEF CommitRow, At, Shape
      <4>2. reseller' \in Row
        BY <3>1, <3>2, <4>1 DEF Row
      <4> QED
        BY <4>2, PanelAssumptions
    <3> QED
      BY <3>1, <3>3, <3>4 DEF Goto, Inv, TaskTyped, StepTyped, TablesTyped
  <2>2. task'[t].pc = "refresh"
    BY <2>1, AtWork DEF Jobs
  <2>3. PICK j : Goes(t, j)
    BY <1>1, ContinueTyped DEF StepTyped
  <2>4. ASSUME NEW p \in Panels \ spoiled PROVE Sound(p)'
    <3>1. ~Dangling(p)
      BY DEF SpoilInv, Sound
    <3>2. ~Dangling(p)'
      BY <1>2, <1>3, <2>1, <3>1 DEF Dangling
    <3>3. Kept(p)
      BY <1>2, <2>1 DEF Kept
    <3>4. Relies(task[t], p)'
      BY <2>2 DEF Relies, Brings
    <3> QED
      BY <1>1, <2>3, <3>2, <3>3, <3>4, StaysSound, ContinueWorks
  <2> QED
    BY <1>2, <2>4 DEF SpoilInv
<1>4. CASE reseller = None
  BY <1>1, <1>2, <1>4, QuietStep, EndsIdle, IdleRelies DEF CommitRow
<1> QED
  BY <1>3, <1>4

LEMMA RefreshSound == ASSUME Inv, SpoilInv, NEW t \in Tasks, Refresh(t) PROVE SpoilInv'
<1>1. Continue(t) /\ UNCHANGED <<panels, reseller, assigned, services, spoiled>>
  BY DEF Continue, Refresh, tables, history
<1>2. CASE reseller # None
  <2>1. task'[t] = [task[t] EXCEPT !.pc = "lookup", !.row = reseller, !.want = None]
    BY <1>2 DEF Refresh, Inv, TaskTyped
  <2>2. task'[t].pc = "lookup" /\ task'[t].row = reseller
    BY <2>1, AtWork DEF Jobs
  <2>3. ASSUME NEW p \in Panels \ spoiled PROVE Relies(task[t], p)'
    <3>1. ~Dangling(p)
      BY DEF SpoilInv, Sound
    <3> QED
      BY <1>1, <1>2, <2>2, <3>1 DEF Relies, Brings, Dangling
  <2> QED
    BY <1>1, <2>3, QuietStep
<1>3. CASE reseller = None
  BY <1>1, <1>3, QuietStep, EndsIdle, IdleRelies DEF Refresh
<1> QED
  BY <1>2, <1>3

LEMMA LookupSound == ASSUME Inv, SpoilInv, NEW t \in Tasks, Lookup(t) PROVE SpoilInv'
<1>1. Continue(t) /\ UNCHANGED <<panels, reseller, assigned, services, spoiled>>
  BY DEF Continue, Lookup, tables, history
<1>2. task'[t].pc = "sync" /\ task'[t].row = task[t].row /\ task[t].pc = "lookup"
  BY AtWork DEF Lookup, At, Inv, TaskTyped, Jobs
<1>3. ASSUME NEW p \in Panels \ spoiled PROVE Relies(task[t], p)'
  <2>1. Relies(task[t], p)
    BY DEF SpoilInv, Sound
  <2> QED
    BY <1>1, <1>2, <2>1 DEF Relies, Brings
<1> QED
  BY <1>1, <1>3, QuietStep

LEMMA SyncSound == ASSUME Inv, SpoilInv, NEW t \in Tasks, Sync(t) PROVE SpoilInv'
<1>1. Continue(t)
  BY DEF Continue
<1>2. /\ task[t].pc = "sync" /\ task[t].row.panel \in Panels /\ End(t)
      /\ UNCHANGED <<panels, reseller, services, spoiled>>
  BY AtWork, RowFields DEF Sync, At, Shape
<1>3. \A p \in Panels : /\ assigned[p] # None => assigned'[p] # None
                        /\ assigned'[p] # None => assigned[p] # None \/ p = task[t].row.panel
  <2> DEFINE q == task[t].row.panel
  <2>1. assigned' \in [Panels -> Assignment \cup {None}] /\ assigned \in [Panels -> Assignment \cup {None}]
    BY SyncTyped DEF StepTyped, Inv, TablesTyped
  <2>2. \A p \in Panels : p # q => assigned'[p] = assigned[p]
    BY <2>1 DEF Sync
  <2>3. CASE task[t].held # None /\ assigned[q] # None
    <3> DEFINE c == Changed(assigned[q].config, task[t].held.config, task[t].row.config)
    <3>1. assigned'[q] = [assigned[q] EXCEPT !.config = c]
      BY <1>2, <2>1, <2>3 DEF Sync
    <3>2. assigned[q] \in Assignment /\ task[t].held \in Assignment /\ task[t].row \in Row
      BY <1>2, <2>1, <2>3, AtWork DEF Shape
    <3>3. c \in Config
      BY <3>2, AssignmentFields, RowFields, ChangedTyped
    <3>4. assigned'[q] \in Assignment
      BY <3>1, <3>2, <3>3 DEF Assignment
    <3> QED
      BY <2>2, <3>4, PanelAssumptions
  <2>4. CASE ~(task[t].held # None /\ assigned[q] # None)
    <3>1. assigned[q] # None => assigned' = assigned
      BY <2>4 DEF Sync
    <3> QED
      BY <2>2, <3>1
  <2> QED
    BY <2>3, <2>4
<1>4. ASSUME NEW p \in Panels \ spoiled' PROVE (Kept(p) \/ ~task[t].met) /\ ~Dangling(p)'
  <2>1. ~Dangling(p) /\ Relies(task[t], p)
    BY <1>2 DEF SpoilInv, Sound
  <2>2. Kept(p)
    BY <1>2, <1>3 DEF Kept
  <2> QED
    BY <1>2, <1>3, <2>1, <2>2 DEF Dangling, Relies, Brings
<1> QED
  BY <1>1, <1>2, <1>4, EndStep

LEMMA RecordSound == ASSUME Inv, SpoilInv, NEW t \in Tasks, CreateRecord(t) PROVE SpoilInv'
<1>1. /\ task[t].panel \in Panels /\ task[t].pc = "record"
      /\ services' = [services EXCEPT ![task[t].panel] = @ + 1]
      /\ Goto(t, "panel")
      /\ UNCHANGED <<panels, reseller, assigned, spoiled>>
  BY AtWork DEF CreateRecord, At, Shape, history
<1>2. task'[t].pc = "panel"
  BY <1>1, AtWork DEF Goto, Inv, TaskTyped, Jobs
<1>3. PICK j : Goes(t, j)
  BY RecordTyped DEF StepTyped
<1>4. ASSUME NEW p \in Panels \ spoiled PROVE Sound(p)'
  <2>1. ~Dangling(p) /\ Relies(task[t], p) /\ services \in [Panels -> 0..MaxServices]
    BY DEF SpoilInv, Sound, Inv, TablesTyped
  <2>2. ~Dangling(p)'
    BY <1>1, <2>1 DEF Dangling, Relies
  <2>3. Kept(p)
    BY <1>1 DEF Kept
  <2>4. Relies(task[t], p)'
    BY <1>2 DEF Relies, Brings
  <2>5. Working(t)
    BY <1>1 DEF Working
  <2> QED
    BY <1>3, <2>2, <2>3, <2>4, <2>5, StaysSound
<1> QED
  BY <1>1, <1>4 DEF SpoilInv

LEMMA OnPanelSound == ASSUME Inv, SpoilInv, NEW t \in Tasks, CreateOnPanel(t) PROVE SpoilInv'
<1>1. Continue(t) /\ UNCHANGED <<panels, reseller, assigned, services, spoiled>>
  BY DEF Continue, CreateOnPanel, tables, history
<1>2. task'[t].pc = "commit"
  BY AtWork DEF CreateOnPanel, Goto, Inv, TaskTyped, Jobs
<1>3. \A p \in Panels \ spoiled : Relies(task[t], p)'
  BY <1>2 DEF Relies, Brings
<1> QED
  BY <1>1, <1>3, QuietStep

LEMMA FailsSound == ASSUME Inv, SpoilInv, NEW t \in Tasks, CreateFails(t) PROVE SpoilInv'
<1>1. /\ Continue(t) /\ End(t) /\ task[t].panel \in Panels
      /\ UNCHANGED <<panels, reseller, assigned, spoiled>>
  BY AtWork DEF Continue, CreateFails, history, At, Shape
<1>2. services \in [Panels -> 0..MaxServices] /\ MaxServices \in Nat
  BY PanelAssumptions DEF Inv, TablesTyped
<1>3. PICK n \in {services[task[t].panel] - 1, services[task[t].panel]} \cap Nat :
           services' = [services EXCEPT ![task[t].panel] = n]
  BY DEF CreateFails
<1>4. services[task[t].panel] \in Nat /\ n \in Nat /\ n <= services[task[t].panel]
  BY <1>1, <1>2, <1>3
<1>5. \A p \in Panels : services'[p] > 0 => services[p] > 0
  BY <1>1, <1>2, <1>3, <1>4
<1>6. ASSUME NEW p \in Panels \ spoiled' PROVE (Kept(p) \/ ~task[t].met) /\ ~Dangling(p)'
  BY <1>1, <1>5 DEF Kept, SpoilInv, Sound, Dangling
<1> QED
  BY <1>1, <1>6, EndStep

LEMMA AddSound == ASSUME Inv, SpoilInv, NEW t \in Tasks, Add(t) PROVE SpoilInv'
<1> DEFINE q == task[t].panel
<1>1. /\ Continue(t) /\ End(t) /\ q \in Panels /\ task[t].pc = "add"
      /\ UNCHANGED <<panels, reseller, services, spoiled>>
  BY AtWork DEF Continue, Add, At, Shape
<1>2. \A p \in Panels : /\ assigned[p] # None => assigned'[p] # None
                        /\ p # q => assigned'[p] = assigned[p]
  BY <1>1 DEF Add, Inv, TablesTyped
<1>3. ASSUME NEW p \in Panels \ spoiled' PROVE (Kept(p) \/ ~task[t].met) /\ ~Dangling(p)'
  <2>1. ~Dangling(p) /\ Relies(task[t], p)
    BY <1>1 DEF SpoilInv, Sound
  <2> QED
    BY <1>1, <1>2, <2>1 DEF Kept, Dangling, Relies, Brings
<1> QED
  BY <1>1, <1>3, EndStep

LEMMA OthersSound == ASSUME Inv, SpoilInv, NEW t \in Tasks, RemoveOthers(t) PROVE SpoilInv'
<1>1. /\ Continue(t) /\ UNCHANGED <<panels, reseller, assigned, services, spoiled>>
      /\ task[t].pc = "others"
  BY DEF Continue, RemoveOthers, tables, history, At
<1>2. CASE End(t)
  BY <1>1, <1>2, QuietStep, EndsIdle, IdleRelies
<1>3. CASE Goto(t, "remove")
  <2>1. /\ task'[t].pc = "remove" /\ task'[t].met = task[t].met
        /\ task'[t].panel = task[t].panel
    BY <1>3, AtWork DEF Goto, Inv, TaskTyped, Jobs
  <2>2. ASSUME NEW p \in Panels \ spoiled PROVE Relies(task[t], p)'
    <3>1. Relies(task[t], p)
      BY DEF SpoilInv, Sound
    <3> QED
      BY <1>1, <2>1, <3>1 DEF Relies, Brings
  <2> QED
    BY <1>1, <2>2, QuietStep
<1> QED
  BY <1>2, <1>3 DEF RemoveOthers

LEMMA RemoveSound == ASSUME Inv, SpoilInv, NEW t \in Tasks, Remove(t) PROVE SpoilInv'
<1> DEFINE q == task[t].panel
<1>1. /\ Continue(t) /\ End(t) /\ q \in Panels /\ task[t].pc = "remove" /\ task[t].met \in BOOLEAN
      /\ UNCHANGED <<panels, reseller, services>>
      /\ assigned' = [assigned EXCEPT ![q] = None]
      /\ spoiled' = IF task[t].met THEN spoiled \cup {q} ELSE spoiled
      /\ assigned \in [Panels -> Assignment \cup {None}]
      /\ services \in [Panels -> 0..MaxServices]
  BY AtWork DEF Continue, Remove, At, Shape, Inv, TablesTyped
<1>2. ASSUME NEW p \in Panels \ spoiled' PROVE (Kept(p) \/ ~task[t].met) /\ ~Dangling(p)'
  <2>1. ~Dangling(p) /\ Relies(task[t], p)
    BY <1>1 DEF SpoilInv, Sound
  <2>2. CASE p # q
    BY <1>1, <2>1, <2>2 DEF Kept, Dangling
  <2>3. CASE p = q
    <3>1. ~task[t].met
      BY <1>1, <2>3
    <3>2. services[p] = 0
      BY <1>1, <2>1, <2>3, <3>1 DEF Relies
    <3>3. assigned'[p] = None /\ services'[p] = 0
      BY <1>1, <2>3, <3>2
    <3> QED
      BY <1>1, <2>1, <3>1, <3>3 DEF Dangling
  <2> QED
    BY <2>2, <2>3
<1>3. spoiled \subseteq spoiled'
  BY <1>1
<1> QED
  BY <1>1, <1>2, <1>3, EndStep

LEMMA FetchSound == ASSUME Inv, SpoilInv, NEW t \in Tasks, DefaultFetch(t) PROVE SpoilInv'
<1>1. Continue(t) /\ UNCHANGED <<panels, reseller, assigned, services, spoiled>>
  BY DEF Continue, DefaultFetch, tables, history
<1>2. CASE assigned[task[t].panel] # None /\ panels[task[t].panel] # None
  <2>1. task'[t] = [task[t] EXCEPT !.pc = "copy", !.want = assigned[task[t].panel].config]
    BY <1>2 DEF DefaultFetch, Inv, TaskTyped
  <2>2. task'[t].pc = "copy" /\ task'[t].panel = task[t].panel
    BY <2>1, AtWork DEF Jobs
  <2>3. \A p \in Panels \ spoiled : Relies(task[t], p)'
    BY <1>1, <1>2, <2>2 DEF Relies, Brings
  <2> QED
    BY <1>1, <2>3, QuietStep
<1>3. CASE ~(assigned[task[t].panel] # None /\ panels[task[t].panel] # None)
  BY <1>1, <1>3, QuietStep, EndsIdle, IdleRelies DEF DefaultFetch
<1> QED
  BY <1>2, <1>3

LEMMA CopySound == ASSUME Inv, SpoilInv, NEW t \in Tasks, DefaultCopy(t) PROVE SpoilInv'
<1>1. /\ Continue(t) /\ End(t) /\ task[t].panel \in Panels /\ task[t].pc = "copy"
      /\ UNCHANGED <<panels, assigned, services, spoiled>>
  BY AtWork DEF Continue, DefaultCopy, At, Shape
<1>2. CASE reseller # None
  <2>1. reseller'.panel \in {reseller.panel, task[t].panel}
    BY <1>2 DEF DefaultCopy
  <2>2. reseller' # None
    <3>1. /\ reseller' = [panel |-> IF task[t].panel = task[t].row.panel THEN reseller.panel
                                    ELSE task[t].panel,
                          config |-> Changed(reseller.config, task[t].row.config, task[t].want)]
          /\ task[t].row \in Row /\ task[t].want \in Config
      BY <1>1, <1>2, AtWork DEF DefaultCopy, Shape
    <3>2. reseller' \in Row
      BY <1>1, <1>2, <3>1, ResellerFields, RowFields, ChangedTyped DEF Row
    <3> QED
      BY <3>2, PanelAssumptions
  <2>3. ASSUME NEW p \in Panels \ spoiled' PROVE (Kept(p) \/ ~task[t].met) /\ ~Dangling(p)'
    <3>1. ~Dangling(p) /\ Relies(task[t], p)
      BY <1>1 DEF SpoilInv, Sound
    <3> QED
      BY <1>1, <1>2, <2>1, <2>2, <3>1 DEF Kept, Dangling, Relies, Brings
  <2> QED
    BY <1>1, <2>3, EndStep
<1>3. CASE reseller = None
  BY <1>1, <1>3, QuietStep, EndsIdle, IdleRelies DEF DefaultCopy
<1> QED
  BY <1>2, <1>3

LEMMA DeletePanelSound == ASSUME Inv, SpoilInv, NEW t \in Tasks, DeletePanel(t) PROVE SpoilInv'
<1> DEFINE q == task[t].panel
<1>1. /\ Continue(t) /\ End(t) /\ q \in Panels /\ task[t].pc = "delete_panel"
      /\ task[t].met \in BOOLEAN
      /\ UNCHANGED <<reseller, assigned, services>>
      /\ panels' = [panels EXCEPT ![q] = None]
      /\ spoiled' = IF task[t].met THEN spoiled \cup {q} ELSE spoiled
      /\ panels \in [Panels -> BOOLEAN \cup {None}]
  BY AtWork DEF Continue, DeletePanel, At, Shape, Inv, TablesTyped
<1>2. ASSUME NEW p \in Panels \ spoiled' PROVE (Kept(p) \/ ~task[t].met) /\ ~Dangling(p)'
  <2>1. ~Dangling(p) /\ Relies(task[t], p)
    BY <1>1 DEF SpoilInv, Sound
  <2>2. CASE p # q
    BY <1>1, <2>1, <2>2 DEF Kept, Dangling
  <2>3. CASE p = q
    <3>1. ~task[t].met
      BY <1>1, <2>3
    <3>2. assigned[p] = None /\ (reseller # None => reseller.panel # p)
      BY <1>1, <2>1, <2>3, <3>1 DEF Relies
    <3> QED
      BY <1>1, <2>1, <3>1, <3>2 DEF Dangling
  <2> QED
    BY <2>2, <2>3
<1>3. spoiled \subseteq spoiled'
  BY <1>1
<1> QED
  BY <1>1, <1>2, <1>3, EndStep

LEMMA DeleteSound == ASSUME Inv, SpoilInv, NEW t \in Tasks, Delete(t) PROVE SpoilInv'
<1>1. Continue(t) /\ End(t) /\ UNCHANGED <<panels, assigned, services, spoiled>>
  BY DEF Continue, Delete, history
<1>2. CASE \A p \in Panels : assigned[p] = None /\ services[p] = 0
  <2>1. reseller' = None
    BY <1>2 DEF Delete
  <2>2. ASSUME NEW p \in Panels \ spoiled' PROVE (Kept(p) \/ ~task[t].met) /\ ~Dangling(p)'
    BY <1>1, <1>2, <2>1 DEF Kept, Dangling
  <2> QED
    BY <1>1, <2>2, EndStep
<1>3. CASE ~\A p \in Panels : assigned[p] = None /\ services[p] = 0
  BY <1>1, <1>3, QuietStep, EndsIdle, IdleRelies DEF Delete
<1> QED
  BY <1>2, <1>3

LEMMA BeginSound == ASSUME Inv, SpoilInv, NEW t \in Tasks, Begin(t) PROVE SpoilInv'
<1>1. UNCHANGED <<panels, reseller, assigned>>
  BY Begun
<1>2. \A p \in Panels : /\ services'[p] > 0 => services[p] > 0
                        /\ services[p] = 0 => services'[p] = 0
  <2>1. services \in [Panels -> 0..MaxServices] /\ MaxServices \in Nat
    BY PanelAssumptions DEF Inv, TablesTyped
  <2>2. ASSUME NEW q \in Panels, Drop(t, q)
        PROVE  \A p \in Panels : /\ services'[p] > 0 => services[p] > 0
                                 /\ services[p] = 0 => services'[p] = 0
    BY <2>1, <2>2 DEF Drop
  <2> QED
    BY <2>2, Begun
<1>3. \A p \in Panels : ~Dangling(p) => ~Dangling(p)'
  BY <1>1, <1>2 DEF Dangling
<1>4. CASE UNCHANGED <<task, history>>
  <2>1. ASSUME NEW p \in Panels \ spoiled PROVE Sound(p)'
    BY <1>1, <1>2, <1>3, <1>4 DEF SpoilInv, Sound, Relies, Brings
  <2> QED
    BY <1>4, <2>1 DEF SpoilInv, history
<1>5. CASE ~UNCHANGED <<task, history>>
  <2>1. PICK op \in AdminOps \cup SellerOps, step \in Steps \ {"idle"},
             p \in Panels \cup {None}, want \in Config \cup {None}, held \in Assignment \cup {None} :
             /\ Start(t, op, step, p, want, held)
             /\ step \notin {"refresh", "lookup", "sync", "copy", "panel", "remove"}
             /\ op \in SellerOps => reseller # None /\ step \in {"record", "commit"}
             /\ op = "create" => assigned[p] # None /\ held = assigned[p]
             /\ step \in {"insert", "add"} => panels[p] # None
             /\ step \in {"others", "remove"} => services[p] = 0
             /\ step = "record" => op = "create"
             /\ step = "delete_panel" =>
                   assigned[p] = None /\ (reseller # None => reseller.panel # p)
    BY <1>5, Begun
  <2>2. /\ task'[t].pc = step /\ task'[t].panel = p
        /\ \A u \in Tasks \ {t} :
              \/ task[u] = Idle /\ task'[u] = Idle
              \/ task[u] # Idle /\ task'[u] = [task[u] EXCEPT !.met = TRUE] /\ ~Quiet
    <3>1. /\ task'[t] = NewJob(op, step, p, want, held)
          /\ \A u \in Tasks \ {t} :
                \/ task[u] = Idle /\ task'[u] = Idle
                \/ task[u] # Idle /\ task'[u] = [task[u] EXCEPT !.met = TRUE] /\ ~Quiet
      BY <2>1, Started
    <3>2. NewJob(op, step, p, want, held).pc = step /\ NewJob(op, step, p, want, held).panel = p
      BY DEF NewJob
    <3> QED
      BY <3>1, <3>2
  <2>3. \A q \in Panels : Relies(task[t], q)'
    BY <1>1, <1>2, <2>1, <2>2 DEF Relies, Brings, SellerOps
  <2>4. ASSUME NEW q \in Panels \ spoiled' PROVE Sound(q)'
    <3>1. ~Dangling(q)
      BY <2>1, <2>4 DEF Start, SpoilInv, Sound
    <3>2. ASSUME NEW u \in Tasks \ {t} PROVE Relies(task[u], q)'
      <4>1. CASE task[u] = Idle
        BY <2>2, <4>1, IdleRelies
      <4>2. CASE task[u] # Idle
        <5>1. ~Quiet /\ task'[u] = [task[u] EXCEPT !.met = TRUE]
          BY <2>2, <4>2
        <5>2. q \notin spoiled
          BY <2>1, <2>4, <5>1 DEF Start
        <5>3. Relies(task[u], q)
          BY <5>2 DEF SpoilInv, Sound
        <5>4. /\ task'[u].pc = task[u].pc /\ task'[u].panel = task[u].panel
              /\ task'[u].row = task[u].row /\ task'[u].met = TRUE
          BY <4>2, <5>1, AtWork, MetShape
        <5> QED
          BY <1>1, <5>3, <5>4 DEF Relies, Brings
      <4> QED
        BY <4>1, <4>2
    <3> QED
      BY <1>3, <2>3, <3>1, <3>2 DEF Sound
  <2> QED
    BY <2>4 DEF SpoilInv
<1> QED
  BY <1>4, <1>5

LEMMA AsideSound == ASSUME Inv, SpoilInv, Aside PROVE SpoilInv'
<1>1. UNCHANGED <<reseller, services, task, history>>
  BY AsideTyped
<1>2. /\ \A p \in Panels : panels[p] # None => panels'[p] # None
      /\ \A p \in Panels : assigned[p] = None <=> assigned'[p] = None
  <2>1. ASSUME NEW p \in Panels, CreatePanel(p)
        PROVE  assigned' = assigned /\ \A q \in Panels : panels[q] # None => panels'[q] # None
    BY <2>1, PanelAssumptions DEF CreatePanel, Inv, TablesTyped
  <2>2. ASSUME NEW p \in Panels, NEW active \in BOOLEAN, SwitchPanel(p, active)
        PROVE  assigned' = assigned /\ \A q \in Panels : panels[q] # None => panels'[q] # None
    BY <2>2, PanelAssumptions DEF SwitchPanel, Inv, TablesTyped
  <2>3. ASSUME NEW p \in Panels, NEW active \in BOOLEAN, Switch(p, active)
        PROVE  panels' = panels /\ \A q \in Panels : assigned[q] = None <=> assigned'[q] = None
    <3>1. assigned[p] \in Assignment /\ assigned \in [Panels -> Assignment \cup {None}]
      BY <2>3 DEF Switch, Inv, TablesTyped
    <3>2. assigned' = [assigned EXCEPT ![p] = [assigned[p] EXCEPT !.active = active]]
      BY <2>3, <3>1 DEF Switch
    <3>3. [assigned[p] EXCEPT !.active = active] \in Assignment
      BY <3>1 DEF Assignment
    <3> QED
      BY <2>3, <3>1, <3>2, <3>3, PanelAssumptions DEF Switch
  <2> QED
    BY <2>1, <2>2, <2>3 DEF Aside
<1>3. ASSUME NEW p \in Panels \ spoiled PROVE Sound(p)'
  <2>1. ~Dangling(p) /\ \A t \in Tasks : Relies(task[t], p)
    BY DEF SpoilInv, Sound
  <2>2. ~Dangling(p)'
    BY <1>1, <1>2, <2>1 DEF Dangling
  <2>3. ASSUME NEW t \in Tasks PROVE Relies(task[t], p)'
    BY <1>1, <1>2, <2>1 DEF Relies, Brings
  <2> QED
    BY <2>2, <2>3 DEF Sound
<1> QED
  BY <1>1, <1>3 DEF SpoilInv, history

LEMMA CrashSound == ASSUME Inv, SpoilInv, Crash PROVE SpoilInv'
<1>1. UNCHANGED <<panels, reseller, assigned, services, spoiled>> /\ \A t \in Tasks : task'[t] = Idle
  BY DEF Crash, tables
<1>2. ASSUME NEW p \in Panels \ spoiled PROVE Sound(p)'
  BY <1>1, IdleRelies DEF SpoilInv, Sound, Dangling
<1> QED
  BY <1>1, <1>2 DEF SpoilInv

(* No service lies on a panel its reseller has not, and no assignment and  *)
(* no default panel refers to one that does not exist, whichever handlers  *)
(* cross, except on the panels that a removal took away after it had met   *)
(* another handler.                                                        *)
THEOREM NothingDangles == Spec => []NoDangling
<1>1. Init => SpoilInv
  <2> SUFFICES ASSUME Init PROVE SpoilInv
    OBVIOUS
  <2>1. \A p \in Panels : ~Dangling(p)
    BY DEF Init, Dangling
  <2>2. \A t \in Tasks : task[t] = Idle
    BY DEF Init
  <2> QED
    BY <2>1, <2>2, IdleShape DEF SpoilInv, Sound, Relies, Brings
<1>2. Inv /\ SpoilInv /\ [Next]_vars => SpoilInv'
  <2> SUFFICES ASSUME Inv, SpoilInv, [Next]_vars PROVE SpoilInv'
    OBVIOUS
  <2>1. ASSUME NEW t \in Tasks, Continue(t) PROVE SpoilInv'
    BY <2>1, InsertSound, CommitSound, RefreshSound, LookupSound, SyncSound, RecordSound,
       OnPanelSound, FailsSound, AddSound, OthersSound, RemoveSound, FetchSound, CopySound,
       DeletePanelSound, DeleteSound
       DEF Continue
  <2>2. CASE UNCHANGED vars
    BY <2>2 DEF SpoilInv, Sound, Dangling, Relies, Brings, vars, tables, history
  <2> QED
    BY <2>1, <2>2, BeginSound, AsideSound, CrashSound, StepKinds
<1>3. SpoilInv => NoDangling
  BY DEF SpoilInv, Sound, NoDangling
<1> QED
  BY <1>1, <1>2, <1>3, InitInv, NextInv, PTL DEF Spec

(***************************************************************************)
(* What was revoked stays away.                                            *)
(***************************************************************************)
(* While the row and the other handlers stay as they are, a step of t can  *)
(* bring back only the panel that it copies to or reads as the default.    *)
LEMMA StaysGone ==
    ASSUME Inv, RevokedInv, NEW t \in Tasks, Working(t), NEW j, Goes(t, j),
           NEW p \in revoked, assigned'[p] = None,
           reseller' # None => reseller'.panel # p,
           task'[t].pc \in {"lookup", "sync"} => task'[t].row.panel # p,
           task'[t].pc = "copy" => task'[t].panel # p
    PROVE  Gone(p)'
<1>1. \A u \in Tasks : u # t => task'[u] = task[u]
  BY DEF Goes, Inv, TaskTyped
<1>2. ~Reviving(p)
  BY DEF RevokedInv, Gone
<1> QED
  BY <1>1, <1>2 DEF Gone, Reviving, At

LEMMA ContinueGone == ASSUME Inv, RevokedInv, NEW t \in Tasks, Continue(t) PROVE RevokedInv'
<1>1. Working(t) /\ task[t] \in Jobs /\ StepTyped(t)
  BY ContinueWorks, ContinueTyped, AtWork
<1>2. PICK j : Goes(t, j)
  BY <1>1 DEF StepTyped
<1>3. /\ Shape(task[t]) /\ revoked \subseteq Panels /\ task \in [Tasks -> Jobs]
      /\ assigned \in [Panels -> Assignment \cup {None}]
  BY AtWork DEF Inv, HistoryTyped, TaskTyped, TablesTyped
<1>4. ASSUME NEW p \in revoked
      PROVE  /\ assigned[p] = None /\ (reseller # None => reseller.panel # p)
             /\ task[t].pc \in {"lookup", "sync"} => task[t].row.panel # p
             /\ task[t].pc = "copy" => task[t].panel # p
  BY DEF RevokedInv, Gone, Reviving, At
<1>5. ASSUME End(t), NEW p \in revoked, assigned'[p] = None, reseller' # None => reseller'.panel # p
      PROVE  Gone(p)'
  BY <1>1, <1>2, <1>5, StaysGone, EndsIdle, IdleShape
<1>6. ASSUME InsertRow(t) PROVE RevokedInv'
  <2>1. CASE reseller = None
    <3>1. /\ reseller'.panel = task[t].panel /\ revoked' = revoked \ {task[t].panel}
          /\ assigned' = assigned /\ task'[t] = [task[t] EXCEPT !.pc = "refresh"]
      BY <1>3, <1>6, <2>1 DEF InsertRow, Goto
    <3>2. task'[t].pc = "refresh"
      BY <1>1, <3>1 DEF Jobs
    <3>3. ASSUME NEW p \in revoked' PROVE Gone(p)'
      BY <1>1, <1>2, <1>4, <3>1, <3>2, StaysGone
    <3> QED
      BY <3>3 DEF RevokedInv
  <2>2. CASE reseller # None
    BY <1>4, <1>5, <1>6, <2>2 DEF InsertRow, RevokedInv
  <2> QED
    BY <2>1, <2>2
<1>7. ASSUME CommitRow(t) PROVE RevokedInv'
  <2>1. CASE reseller # None
    <3>1. /\ reseller'.panel = reseller.panel /\ revoked' = revoked
          /\ assigned' = assigned /\ task'[t] = [task[t] EXCEPT !.pc = "refresh"]
      BY <1>3, <1>7, <2>1, ResellerFields DEF CommitRow, Goto, history, Row
    <3>2. task'[t].pc = "refresh"
      BY <1>1, <3>1 DEF Jobs
    <3>3. ASSUME NEW p \in revoked' PROVE Gone(p)'
      BY <1>1, <1>2, <1>4, <2>1, <3>1, <3>2, StaysGone
    <3> QED
      BY <3>3 DEF RevokedInv
  <2>2. CASE reseller = None
    BY <1>4, <1>5, <1>7, <2>2 DEF CommitRow, RevokedInv, history
  <2> QED
    BY <2>1, <2>2
<1>8. ASSUME Refresh(t) PROVE RevokedInv'
  <2>1. UNCHANGED <<reseller, assigned, revoked>>
    BY <1>8 DEF Refresh, tables, history
  <2>2. CASE reseller # None
    <3>1. task'[t] = [task[t] EXCEPT !.pc = "lookup", !.row = reseller, !.want = None]
      BY <1>3, <1>8, <2>2 DEF Refresh
    <3>2. task'[t].pc = "lookup" /\ task'[t].row = reseller
      BY <1>1, <3>1 DEF Jobs
    <3>3. ASSUME NEW p \in revoked PROVE Gone(p)'
      BY <1>1, <1>2, <1>4, <2>1, <2>2, <3>2, StaysGone
    <3> QED
      BY <2>1, <3>3 DEF RevokedInv
  <2>3. CASE reseller = None
    BY <1>4, <1>5, <1>8, <2>1, <2>3 DEF Refresh, RevokedInv
  <2> QED
    BY <2>2, <2>3
<1>9. ASSUME Lookup(t) PROVE RevokedInv'
  <2>1. UNCHANGED <<reseller, assigned, revoked>>
    BY <1>9 DEF Lookup, tables, history
  <2>2. task'[t].pc = "sync" /\ task'[t].row = task[t].row /\ task[t].pc = "lookup"
    BY <1>1, <1>3, <1>9 DEF Lookup, At, Jobs
  <2>3. ASSUME NEW p \in revoked PROVE Gone(p)'
    BY <1>1, <1>2, <1>4, <2>1, <2>2, StaysGone
  <2> QED
    BY <2>1, <2>3 DEF RevokedInv
<1>10. ASSUME Sync(t) PROVE RevokedInv'
  <2>1. /\ End(t) /\ UNCHANGED <<reseller, revoked>> /\ task[t].pc = "sync"
    BY <1>10 DEF Sync, At
  <2>2. ASSUME NEW p \in revoked PROVE assigned'[p] = None
    BY <1>3, <1>4, <1>10, <2>1 DEF Sync
  <2> QED
    BY <1>4, <1>5, <2>1, <2>2 DEF RevokedInv
<1>11. ASSUME CreateRecord(t) PROVE RevokedInv'
  <2>1. /\ UNCHANGED <<reseller, assigned, revoked>>
        /\ task'[t].pc = "panel"
    BY <1>1, <1>3, <1>11 DEF CreateRecord, Goto, history, Jobs
  <2>2. ASSUME NEW p \in revoked PROVE Gone(p)'
    BY <1>1, <1>2, <1>4, <2>1, StaysGone
  <2> QED
    BY <2>1, <2>2 DEF RevokedInv
<1>12. ASSUME CreateOnPanel(t) PROVE RevokedInv'
  <2>1. /\ UNCHANGED <<reseller, assigned, revoked>>
        /\ task'[t].pc = "commit"
    BY <1>1, <1>3, <1>12 DEF CreateOnPanel, Goto, tables, history, Jobs
  <2>2. ASSUME NEW p \in revoked PROVE Gone(p)'
    BY <1>1, <1>2, <1>4, <2>1, StaysGone
  <2> QED
    BY <2>1, <2>2 DEF RevokedInv
<1>13. ASSUME CreateFails(t) PROVE RevokedInv'
  BY <1>4, <1>5, <1>13 DEF CreateFails, RevokedInv, history
<1>14. ASSUME Add(t) PROVE RevokedInv'
  <2>1. /\ End(t) /\ reseller' = reseller /\ revoked' \subseteq revoked /\ task[t].panel \in Panels
    BY <1>3, <1>14, AtWork DEF Add, At, Shape
  <2>2. ASSUME NEW p \in revoked' PROVE assigned'[p] = None
    BY <1>3, <1>4, <1>14, <2>1 DEF Add
  <2> QED
    BY <1>4, <1>5, <2>1, <2>2 DEF RevokedInv
<1>15. ASSUME RemoveOthers(t) PROVE RevokedInv'
  <2>1. UNCHANGED <<reseller, assigned, revoked>>
    BY <1>15 DEF RemoveOthers, tables, history
  <2>2. CASE Goto(t, "remove")
    <3>1. task'[t].pc = "remove"
      BY <1>1, <1>3, <2>2 DEF Goto, Jobs
    <3>2. ASSUME NEW p \in revoked PROVE Gone(p)'
      BY <1>1, <1>2, <1>4, <2>1, <3>1, StaysGone
    <3> QED
      BY <2>1, <3>2 DEF RevokedInv
  <2>3. CASE End(t)
    BY <1>4, <1>5, <2>1, <2>3 DEF RevokedInv
  <2> QED
    BY <1>15, <2>2, <2>3 DEF RemoveOthers
<1>16. ASSUME Remove(t) PROVE RevokedInv'
  <2>0. PICK q \in Panels : q = task[t].panel
    BY <1>16, AtWork DEF Remove, At, Shape
  <2>1. /\ End(t) /\ reseller' = reseller
        /\ assigned' = [assigned EXCEPT ![q] = None]
        /\ revoked' = IF Reviving(q) THEN revoked ELSE revoked \cup {q}
    BY <1>16, <2>0 DEF Remove
  <2>2. ASSUME NEW p \in revoked PROVE Gone(p)'
    <3>1. assigned'[p] = None
      BY <1>3, <1>4, <2>1
    <3> QED
      BY <1>4, <1>5, <2>1, <3>1
  <2>3. CASE Reviving(q)
    BY <2>1, <2>2, <2>3 DEF RevokedInv
  <2>4. CASE ~Reviving(q)
    <3>1. assigned'[q] = None
      BY <1>3, <2>1
    <3>2. \A u \in Tasks : task'[u] = task[u] \/ task'[u] = Idle
      BY <1>3, <2>1 DEF End
    <3>3. ~Reviving(q)'
      BY <2>1, <2>4, <3>2, IdleShape DEF Reviving, At
    <3>4. Gone(q)'
      BY <3>1, <3>3 DEF Gone
    <3> QED
      BY <2>1, <2>2, <2>4, <3>4 DEF RevokedInv
  <2> QED
    BY <2>3, <2>4
<1>17. ASSUME DefaultFetch(t) PROVE RevokedInv'
  <2>1. UNCHANGED <<reseller, assigned, revoked>>
    BY <1>17 DEF DefaultFetch, tables, history
  <2>2. CASE assigned[task[t].panel] # None /\ panels[task[t].panel] # None
    <3>1. task'[t] = [task[t] EXCEPT !.pc = "copy", !.want = assigned[task[t].panel].config]
      BY <1>3, <1>17, <2>2 DEF DefaultFetch
    <3>2. task'[t].pc = "copy" /\ task'[t].panel = task[t].panel
      BY <1>1, <3>1 DEF Jobs
    <3>3. ASSUME NEW p \in revoked PROVE Gone(p)'
      BY <1>1, <1>2, <1>4, <2>1, <2>2, <3>2, StaysGone
    <3> QED
      BY <2>1, <3>3 DEF RevokedInv
  <2>3. CASE ~(assigned[task[t].panel] # None /\ panels[task[t].panel] # None)
    BY <1>4, <1>5, <1>17, <2>1, <2>3 DEF DefaultFetch, RevokedInv
  <2> QED
    BY <2>2, <2>3
<1>18. ASSUME DefaultCopy(t) PROVE RevokedInv'
  <2>1. /\ End(t) /\ UNCHANGED <<assigned, revoked>> /\ task[t].pc = "copy"
    BY <1>18 DEF DefaultCopy, At
  <2>2. ASSUME NEW p \in revoked, reseller' # None PROVE reseller'.panel # p
    BY <1>4, <1>18, <2>1, <2>2 DEF DefaultCopy
  <2> QED
    BY <1>4, <1>5, <2>1, <2>2 DEF RevokedInv
<1>19. ASSUME DeletePanel(t) PROVE RevokedInv'
  BY <1>4, <1>5, <1>19 DEF DeletePanel, RevokedInv
<1>20. ASSUME Delete(t) PROVE RevokedInv'
  <2>1. End(t) /\ UNCHANGED <<assigned, revoked>> /\ reseller' \in {reseller, None}
    BY <1>20 DEF Delete, history
  <2> QED
    BY <1>4, <1>5, <2>1 DEF RevokedInv
<1> QED
  BY <1>6, <1>7, <1>8, <1>9, <1>10, <1>11, <1>12, <1>13, <1>14, <1>15, <1>16, <1>17, <1>18, <1>19,
     <1>20
     DEF Continue

LEMMA BeginGone == ASSUME Inv, RevokedInv, NEW t \in Tasks, Begin(t) PROVE RevokedInv'
<1>1. UNCHANGED <<reseller, assigned>>
  BY Begun
<1>2. CASE UNCHANGED <<task, history>>
  BY <1>1, <1>2 DEF RevokedInv, Gone, Reviving, At, history
<1>3. CASE ~UNCHANGED <<task, history>>
  <2>1. PICK op \in AdminOps \cup SellerOps, step \in Steps \ {"idle"},
             p \in Panels \cup {None}, want \in Config \cup {None}, held \in Assignment \cup {None} :
             Start(t, op, step, p, want, held) /\ step \notin {"refresh", "lookup", "sync", "copy"}
    BY <1>3, Begun
  <2>2. /\ task'[t] = NewJob(op, step, p, want, held)
        /\ \A u \in Tasks \ {t} :
              \/ task[u] = Idle /\ task'[u] = Idle
              \/ task[u] # Idle /\ task'[u] = [task[u] EXCEPT !.met = TRUE] /\ ~Quiet
    BY <2>1, Started
  <2>3. task'[t].pc = step
    BY <2>2 DEF NewJob
  <2>4. \A u \in Tasks \ {t} : /\ task'[u].pc = task[u].pc /\ task'[u].panel = task[u].panel
                               /\ task'[u].row = task[u].row
    <3> SUFFICES ASSUME NEW u \in Tasks \ {t}
                 PROVE  /\ task'[u].pc = task[u].pc /\ task'[u].panel = task[u].panel
                        /\ task'[u].row = task[u].row
      OBVIOUS
    <3>1. CASE task[u] = Idle
      BY <2>2, <3>1, IdleShape
    <3>2. CASE task[u] # Idle
      <4>1. task'[u] = [task[u] EXCEPT !.met = TRUE] /\ Shape(task[u])
        BY <2>2, <3>2, AtWork
      <4> QED
        BY <3>2, <4>1, MetShape
    <3> QED
      BY <3>1, <3>2
  <2>5. revoked' = revoked
    BY <2>1 DEF Start
  <2> QED
    BY <1>1, <2>1, <2>3, <2>4, <2>5 DEF RevokedInv, Gone, Reviving, At
<1> QED
  BY <1>2, <1>3

LEMMA AsideGone == ASSUME Inv, RevokedInv, Aside PROVE RevokedInv'
<1>1. UNCHANGED <<reseller, task, revoked>>
  BY AsideTyped DEF history
<1>2. \A p \in Panels : assigned[p] = None => assigned'[p] = None
  <2>1. ASSUME NEW p \in Panels, NEW active \in BOOLEAN, Switch(p, active)
        PROVE  \A q \in Panels : assigned[q] = None => assigned'[q] = None
    BY <2>1 DEF Switch, Inv, TablesTyped
  <2> QED
    BY <2>1 DEF Aside, CreatePanel, SwitchPanel
<1> QED
  BY <1>1, <1>2 DEF RevokedInv, Gone, Reviving, At, Inv, HistoryTyped

(* A panel that was taken away for good stays away until the admin gives   *)
(* it back, whichever handlers cross the removal.                          *)
THEOREM RemovedStayRemoved == Spec => []RemovedStays
<1>1. Init => RevokedInv
  BY DEF Init, RevokedInv
<1>2. Inv /\ RevokedInv /\ [Next]_vars => RevokedInv'
  <2> SUFFICES ASSUME Inv, RevokedInv, [Next]_vars PROVE RevokedInv'
    OBVIOUS
  <2>1. CASE Crash
    <3>1. UNCHANGED <<reseller, assigned, revoked>> /\ \A t \in Tasks : task'[t] = Idle
      BY <2>1 DEF Crash, tables
    <3> QED
      BY <3>1, IdleShape DEF RevokedInv, Gone, Reviving, At
  <2>2. CASE UNCHANGED vars
    BY <2>2 DEF RevokedInv, Gone, Reviving, At, vars, tables, history
  <2> QED
    BY <2>1, <2>2, ContinueGone, BeginGone, AsideGone, StepKinds
<1>3. RevokedInv => RemovedStays
  BY DEF RevokedInv, Gone, RemovedStays
<1> QED
  BY <1>1, <1>2, <1>3, InitInv, NextInv, PTL DEF Spec

(***************************************************************************)
(* Tables that nothing parted agree.                                       *)
(***************************************************************************)
Agree ==
    reseller # None => /\ assigned[reseller.panel] # None
                       /\ assigned[reseller.panel].config = reseller.config

(* The row stays, and so do the columns of its panel's assignment.         *)
Steady ==
    /\ reseller' = reseller
    /\ reseller # None /\ assigned[reseller.panel] # None =>
          /\ assigned'[reseller.panel] # None
          /\ assigned'[reseller.panel].config = assigned[reseller.panel].config

LEMMA IdleFresh ==
    ASSUME NEW t \in Tasks, task'[t] = Idle
    PROVE  Fresh(task[t])'
  BY IdleShape DEF Fresh, SellerOps

LEMMA NoEditorAgree ==
    ASSUME AgreeInv, ~apart, NoEditor
    PROVE  Agree
  BY DEF AgreeInv, RowsAgree, NoEditor, HalfEdited, Agree

(* Handlers that edit none of the columns, and one that is alone: what     *)
(* they must do for the invariant.                                         *)
LEMMA AgreeStep ==
    ASSUME Inv, AgreeInv, NEW t \in Tasks, Continue(t),
           ~task[t].met /\ task'[t] # Idle => Fresh(task[t])',
           ~apart /\ NoEditor /\ ~apart' => Steady /\ (task'[t].op \in SellerOps => Follows(task[t])'),
           ~task[t].met /\ (apart \/ ~NoEditor) /\ ~apart' => RowsAgree'
    PROVE  AgreeInv'
<1>1. PICK j : Goes(t, j)
  BY ContinueTyped DEF StepTyped
<1>2. /\ Working(t) /\ task'[t] = j /\ \A u \in Tasks : u # t => task'[u] = task[u]
      /\ task'[t].met => task[t].met
  BY <1>1, ContinueWorks, IdleShape DEF Goes, Inv, TaskTyped
<1>3. ASSUME NEW u \in Tasks, ~task'[u].met PROVE Fresh(task[u])'
  <2>1. CASE task'[u] = Idle
    BY <2>1, IdleFresh
  <2>2. CASE task'[u] # Idle
    <3>1. u = t
      BY <1>2, <1>3, <2>2, AtWork DEF Inv, Met
    <3>2. ~task[t].met
      BY <1>1, <1>2, <1>3, <2>2, <3>1 DEF Goes
    <3> QED
      BY <2>2, <3>1, <3>2
  <2> QED
    BY <2>1, <2>2
<1>4. CASE apart'
  BY <1>3, <1>4 DEF AgreeInv, RowsAgree
<1>5. CASE ~apart' /\ ~apart /\ NoEditor
  <2>1. Steady /\ (task'[t].op \in SellerOps => Follows(task[t])')
    BY <1>5
  <2>2. Agree /\ \A u \in Tasks : task[u].op \in SellerOps => Follows(task[u])
    BY <1>5, NoEditorAgree DEF AgreeInv
  <2>3. RowsAgree'
    BY <2>1, <2>2 DEF Agree, Steady, RowsAgree
  <2>4. ASSUME NEW u \in Tasks, task'[u].op \in SellerOps PROVE Follows(task[u])'
    <3>1. CASE u = t
      BY <2>1, <2>4, <3>1
    <3>2. CASE u # t
      <4>1. task'[u] = task[u] /\ Follows(task[u])
        BY <1>2, <2>2, <2>4, <3>2
      <4> QED
        BY <2>1, <4>1 DEF Follows, Steady
    <3> QED
      BY <3>1, <3>2
  <2> QED
    BY <1>3, <2>3, <2>4 DEF AgreeInv
<1>6. CASE ~apart' /\ (apart \/ ~NoEditor)
  <2>1. ~task[t].met
    <3>1. SUFFICES ASSUME task[t].met PROVE FALSE
      OBVIOUS
    <3>2. ~apart
      BY <1>1, <1>6, <3>1 DEF Goes
    <3>3. PICK u \in Tasks : task[u].op \in Editors
      BY <1>6, <3>2 DEF NoEditor
    <3>4. Working(u)
      BY <3>3, AtWork, IdleShape DEF Editors, AdminOps
    <3>5. task[u].met
      BY <1>2, <3>1, <3>4 DEF Inv, Met
    <3> QED
      BY <3>2, <3>3, <3>5 DEF Inv, Met
  <2>2. RowsAgree'
    BY <1>6, <2>1
  <2>3. \A u \in Tasks \ {t} : task'[u] = Idle
    BY <1>2, <2>1, AtWork DEF Inv, Met
  <2>4. ASSUME NoEditor', NEW u \in Tasks, task'[u].op \in SellerOps PROVE Follows(task[u])'
    <3>1. u = t /\ task'[t] # Idle
      BY <2>3, <2>4, IdleShape
    <3>2. task'[t].op = task[t].op /\ ~apart
      BY <1>1, <1>2, <1>6, <3>1 DEF Goes
    <3>3. \A w \in Tasks \ {t} : task[w] = Idle
      BY <1>2, <2>3
    <3>4. NoEditor
      BY <2>4, <3>2, <3>3, IdleShape DEF NoEditor, Editors, AdminOps
    <3> QED
      BY <1>6, <3>2, <3>4
  <2> QED
    BY <1>3, <2>2, <2>4 DEF AgreeInv
<1> QED
  BY <1>4, <1>5, <1>6

(* What handler t relies on. *)
LEMMA Relied ==
    ASSUME Inv, AgreeInv, NEW t \in Tasks
    PROVE  /\ ~task[t].met => Fresh(task[t])
           /\ ~apart /\ NoEditor /\ task[t].op \in SellerOps => Follows(task[t]) /\ Agree
           /\ task[t].op \in Editors => ~NoEditor
           /\ task[t].op \notin Editors /\ ~task[t].met /\ Working(t) => NoEditor
<1>1. ASSUME task[t].op \notin Editors, ~task[t].met, Working(t) PROVE NoEditor
  <2>1. ASSUME NEW u \in Tasks, task[u].op \in Editors PROVE FALSE
    <3>1. Working(u)
      BY <2>1, AtWork, IdleShape DEF Editors, AdminOps
    <3> QED
      BY <1>1, <2>1, <3>1 DEF Inv, Met
  <2> QED
    BY <2>1 DEF NoEditor
<1> QED
  BY <1>1, NoEditorAgree DEF AgreeInv, NoEditor

(* The steps, one lemma per action.                                        *)
LEMMA InsertAgree == ASSUME Inv, AgreeInv, NEW t \in Tasks, InsertRow(t) PROVE AgreeInv'
<1>1. /\ Continue(t) /\ Shape(task[t]) /\ task[t].pc = "insert" /\ task[t].op = "new"
      /\ task \in [Tasks -> Jobs] /\ task[t] \in Jobs
      /\ UNCHANGED <<assigned, apart>>
  BY AtWork DEF Continue, InsertRow, At, Shape, Inv, TaskTyped
<1>2. ~NoEditor
  BY <1>1 DEF NoEditor, Editors
<1>3. CASE reseller = None
  <2>1. task'[t] = [task[t] EXCEPT !.pc = "refresh"]
    BY <1>1, <1>3 DEF InsertRow, Goto
  <2>2. task'[t].pc = "refresh" /\ task'[t].op = "new"
    BY <1>1, <2>1 DEF Jobs
  <2>3. Fresh(task[t])'
    BY <2>2 DEF Fresh
  <2>4. RowsAgree'
    BY <2>2 DEF RowsAgree, HalfEdited, Editors
  <2> QED
    BY <1>1, <1>2, <2>3, <2>4, AgreeStep
<1>4. CASE reseller # None
  <2>1. reseller' = reseller /\ End(t) /\ task'[t] = Idle
    BY <1>4, EndsIdle DEF InsertRow
  <2>2. ASSUME ~task[t].met, ~apart' PROVE RowsAgree'
    <3>1. \A u \in Tasks : ~HalfEdited(u)
      <4> SUFFICES ASSUME NEW u \in Tasks, HalfEdited(u) PROVE FALSE
        OBVIOUS
      <4>1. u # t /\ Working(u)
        BY <1>1 DEF HalfEdited, Working
      <4> QED
        BY <1>1, <2>2, <4>1 DEF Inv, Met, Working
    <3> QED
      BY <1>1, <2>1, <2>2, <3>1 DEF AgreeInv, RowsAgree
  <2> QED
    BY <1>1, <1>2, <2>1, <2>2, AgreeStep
<1> QED
  BY <1>3, <1>4

LEMMA CommitAgree == ASSUME Inv, AgreeInv, NEW t \in Tasks, CommitRow(t) PROVE AgreeInv'
<1>1. /\ Continue(t) /\ Working(t) /\ Shape(task[t]) /\ task[t].pc = "commit"
      /\ task[t].op \in {"new", "edit"} \cup SellerOps
      /\ task[t].row \in Row /\ task[t].want \in Config
      /\ task \in [Tasks -> Jobs] /\ task[t] \in Jobs
      /\ UNCHANGED <<assigned, apart>>
  BY AtWork DEF Continue, CommitRow, At, Shape, Inv, TaskTyped, history, Working
<1>2. CASE reseller # None
  <2>1. /\ task'[t] = [task[t] EXCEPT !.pc = "refresh"]
        /\ reseller' = [reseller EXCEPT !.config =
                            Changed(reseller.config, task[t].row.config, task[t].want)]
    BY <1>1, <1>2 DEF CommitRow, Goto
  <2>2. /\ task'[t].pc = "refresh" /\ task'[t].op = task[t].op /\ task'[t].row = task[t].row
        /\ task'[t].panel = task[t].panel /\ task'[t].held = task[t].held
    BY <1>1, <2>1 DEF Jobs
  <2>3. ~task[t].met => Fresh(task[t])'
    BY <1>1, <2>2, Relied DEF Fresh
  <2>4. ASSUME ~apart, NoEditor PROVE Steady /\ (task'[t].op \in SellerOps => Follows(task[t])')
    <3>1. task[t].op \in SellerOps
      BY <1>1, <2>4 DEF NoEditor, Editors
    <3>2. Follows(task[t]) /\ task[t].want = task[t].row.config
      BY <1>1, <2>4, <3>1, Relied DEF Shape
    <3>3. Changed(reseller.config, task[t].row.config, task[t].want) = reseller.config
      BY <1>1, <1>2, <3>2, ResellerFields, RowFields, ChangedTyped
    <3>4. reseller' = reseller
      BY <1>2, <2>1, <3>3, ResellerFields DEF Row
    <3>5. Steady
      BY <1>1, <3>4 DEF Steady
    <3>6. Follows(task[t])'
      BY <1>1, <2>2, <3>2, <3>4 DEF Follows
    <3> QED
      BY <3>5, <3>6
  <2>5. ASSUME ~task[t].met, apart \/ ~NoEditor, ~apart' PROVE RowsAgree'
    <3>1. task[t].op \in Editors
      BY <1>1, <2>5, Relied
    <3> QED
      BY <2>2, <3>1 DEF RowsAgree, HalfEdited
  <2> QED
    BY <1>1, <2>3, <2>4, <2>5, AgreeStep
<1>3. CASE reseller = None
  <2>1. reseller' = reseller /\ task'[t] = Idle
    BY <1>3, EndsIdle DEF CommitRow
  <2>2. Steady /\ RowsAgree'
    BY <1>3, <2>1 DEF Steady, RowsAgree
  <2> QED
    BY <1>1, <2>1, <2>2, AgreeStep, IdleShape
<1> QED
  BY <1>2, <1>3

LEMMA RefreshAgree == ASSUME Inv, AgreeInv, NEW t \in Tasks, Refresh(t) PROVE AgreeInv'
<1>1. /\ Continue(t) /\ Working(t) /\ Shape(task[t]) /\ task[t].pc = "refresh"
      /\ task \in [Tasks -> Jobs] /\ task[t] \in Jobs
      /\ UNCHANGED <<reseller, assigned, apart>>
  BY AtWork DEF Continue, Refresh, At, Inv, TaskTyped, tables, history, Working
<1>2. Steady
  BY <1>1 DEF Steady
<1>3. CASE reseller # None
  <2>1. task'[t] = [task[t] EXCEPT !.pc = "lookup", !.row = reseller, !.want = None]
    BY <1>1, <1>3 DEF Refresh
  <2>2. /\ task'[t].pc = "lookup" /\ task'[t].op = task[t].op /\ task'[t].row = reseller
        /\ task'[t].panel = task[t].panel /\ task'[t].held = task[t].held
    BY <1>1, <2>1 DEF Jobs
  <2>3. ~task[t].met => Fresh(task[t])'
    BY <1>1, <1>3, <2>2, Relied DEF Fresh
  <2>4. ASSUME ~apart, NoEditor, task'[t].op \in SellerOps PROVE Follows(task[t])'
    <3>1. Follows(task[t])
      BY <2>2, <2>4, Relied
    <3> QED
      BY <1>1, <2>2, <3>1 DEF Follows
  <2>5. ASSUME ~task[t].met, apart \/ ~NoEditor, ~apart' PROVE RowsAgree'
    <3>1. task[t].op \in Editors
      BY <1>1, <2>5, Relied
    <3> QED
      BY <2>2, <3>1 DEF RowsAgree, HalfEdited
  <2> QED
    BY <1>1, <1>2, <2>3, <2>4, <2>5, AgreeStep
<1>4. CASE reseller = None
  <2>1. task'[t] = Idle
    BY <1>4, EndsIdle DEF Refresh
  <2>2. RowsAgree'
    BY <1>1, <1>4 DEF RowsAgree
  <2> QED
    BY <1>1, <1>2, <2>1, <2>2, AgreeStep, IdleShape
<1> QED
  BY <1>3, <1>4

LEMMA LookupAgree == ASSUME Inv, AgreeInv, NEW t \in Tasks, Lookup(t) PROVE AgreeInv'
<1>1. /\ Continue(t) /\ Working(t) /\ Shape(task[t]) /\ task[t].pc = "lookup"
      /\ task \in [Tasks -> Jobs] /\ task[t] \in Jobs
      /\ task[t].row \in Row
      /\ UNCHANGED <<reseller, assigned, apart>>
  BY AtWork DEF Continue, Lookup, At, Shape, Inv, TaskTyped, tables, history, Working
<1>2. Steady
  BY <1>1 DEF Steady
<1>3. task'[t] = [task[t] EXCEPT !.pc = "sync",
                                 !.held = IF HasDefault(task[t]) THEN task[t].held
                                          ELSE assigned[task[t].row.panel]]
  BY <1>1 DEF Lookup
<1>4. /\ task'[t].pc = "sync" /\ task'[t].op = task[t].op /\ task'[t].row = task[t].row
      /\ task'[t].panel = task[t].panel
      /\ task'[t].held = IF HasDefault(task[t]) THEN task[t].held ELSE assigned[task[t].row.panel]
  BY <1>1, <1>3 DEF Jobs
<1>5. ~task[t].met => Fresh(task[t])'
  BY <1>1, <1>4, Relied DEF Fresh, HasDefault, Shape
<1>6. ASSUME ~apart, NoEditor, task'[t].op \in SellerOps PROVE Follows(task[t])'
  <2>1. Follows(task[t]) /\ Agree
    BY <1>4, <1>6, Relied
  <2> QED
    BY <1>1, <1>4, <2>1 DEF Follows, Agree, HasDefault, Shape
<1>7. ASSUME ~task[t].met, apart \/ ~NoEditor, ~apart' PROVE RowsAgree'
  <2>1. task[t].op \in Editors
    BY <1>1, <1>7, Relied
  <2> QED
    BY <1>4, <2>1 DEF RowsAgree, HalfEdited
<1> QED
  BY <1>1, <1>2, <1>5, <1>6, <1>7, AgreeStep

(* What the copy writes. *)
LEMMA SyncWrites ==
    ASSUME Inv, NEW t \in Tasks, Sync(t)
    PROVE  LET j == task[t]
               q == j.row.panel
           IN  /\ \A p \in Panels : p # q => assigned'[p] = assigned[p]
               /\ j.held = None /\ assigned[q] = None =>
                     assigned'[q] # None /\ assigned'[q].config = j.row.config
               /\ j.held # None /\ assigned[q] # None =>
                     /\ assigned'[q] # None
                     /\ assigned'[q].config = Changed(assigned[q].config, j.held.config, j.row.config)
<1> DEFINE j == task[t]
           q == j.row.panel
<1>1. /\ j.pc = "sync" /\ j.row \in Row /\ j.held \in Assignment \cup {None}
      /\ assigned \in [Panels -> Assignment \cup {None}]
      /\ q \in Panels /\ j.row.config \in Config
  BY AtWork, RowFields DEF Sync, At, Shape, Inv, TablesTyped
<1>2. \A p \in Panels : p # q => assigned'[p] = assigned[p]
  BY <1>1 DEF Sync
<1>3. ASSUME j.held = None, assigned[q] = None
      PROVE  assigned'[q] # None /\ assigned'[q].config = j.row.config
  <2>1. assigned' = [assigned EXCEPT ![q] = [config |-> j.row.config, active |-> TRUE]]
    BY <1>3 DEF Sync
  <2>2. [config |-> j.row.config, active |-> TRUE] \in Assignment
    BY <1>1 DEF Assignment
  <2> QED
    BY <1>1, <2>1, <2>2, AssignmentFields
<1>4. ASSUME j.held # None, assigned[q] # None
      PROVE  /\ assigned'[q] # None
             /\ assigned'[q].config = Changed(assigned[q].config, j.held.config, j.row.config)
  <2> DEFINE c == Changed(assigned[q].config, j.held.config, j.row.config)
  <2>1. assigned'[q] = [assigned[q] EXCEPT !.config = c]
    BY <1>1, <1>4 DEF Sync
  <2>2. assigned[q] \in Assignment /\ j.held \in Assignment
    BY <1>1, <1>4
  <2>3. c \in Config
    BY <1>1, <2>2, AssignmentFields, ChangedTyped
  <2> HIDE DEF c
  <2>4. assigned'[q] \in Assignment /\ assigned'[q].config = c
    BY <2>1, <2>2, <2>3 DEF Assignment
  <2> QED
    BY <2>4, AssignmentFields DEF c
<1> QED
  BY <1>2, <1>3, <1>4

LEMMA SyncAgree == ASSUME Inv, AgreeInv, NEW t \in Tasks, Sync(t) PROVE AgreeInv'
<1> DEFINE q == task[t].row.panel
<1>1. /\ Continue(t) /\ Working(t) /\ task[t].pc = "sync"
      /\ task[t].row \in Row /\ q \in Panels /\ task[t].row.config \in Config
      /\ task[t].held \in Assignment \cup {None}
      /\ assigned \in [Panels -> Assignment \cup {None}]
      /\ task[t].op \in {"new", "edit"} \cup SellerOps
      /\ reseller' = reseller /\ apart' = (apart /\ task[t].met) /\ task'[t] = Idle
  BY AtWork, RowFields, EndsIdle DEF Continue, Sync, At, Shape, Inv, TablesTyped, Working
<1>2. ASSUME ~apart, NoEditor PROVE Steady
  <2>1. task[t].op \in SellerOps
    BY <1>1, <1>2 DEF NoEditor, Editors
  <2>2. Follows(task[t]) /\ Agree
    BY <1>2, <2>1, Relied
  <2>3. /\ task[t].row = reseller /\ reseller # None /\ assigned[q] # None /\ task[t].held # None
        /\ assigned[q].config = reseller.config /\ task[t].held.config = reseller.config
    BY <1>1, <2>2 DEF Follows, Agree
  <2>4. /\ assigned'[q] # None
        /\ assigned'[q].config = Changed(assigned[q].config, task[t].held.config, task[t].row.config)
    BY <2>3, SyncWrites
  <2>5. assigned'[q].config = assigned[q].config
    BY <1>1, <2>3, <2>4, ChangedTyped
  <2> QED
    BY <1>1, <2>3, <2>4, <2>5 DEF Steady
<1>3. ASSUME ~task[t].met PROVE RowsAgree'
  <2>1. /\ reseller # None /\ task[t].row = reseller
        /\ task[t].held = None <=> assigned[q] = None
        /\ task[t].held # None => task[t].held.config = assigned[q].config
    BY <1>1, <1>3, Relied DEF Fresh
  <2>2. assigned'[q] # None /\ assigned'[q].config = task[t].row.config
    <3>1. CASE task[t].held = None
      BY <2>1, <3>1, SyncWrites
    <3>2. CASE task[t].held # None
      <4>1. assigned[q] \in Assignment /\ task[t].held \in Assignment
        BY <1>1, <2>1, <3>2
      <4> QED
        BY <1>1, <2>1, <3>2, <4>1, SyncWrites, AssignmentFields, ChangedTyped
    <3> QED
      BY <3>1, <3>2
  <2> QED
    BY <1>1, <2>1, <2>2 DEF RowsAgree
<1> QED
  BY <1>1, <1>2, <1>3, AgreeStep, IdleShape

(* Steps of a handler that is not an editor. *)
LEMMA OtherAgree ==
    ASSUME Inv, AgreeInv, NEW t \in Tasks, Continue(t), task[t].op \notin Editors,
           apart => apart',
           ~task[t].met /\ task'[t] # Idle => Fresh(task[t])',
           ~apart /\ NoEditor /\ ~apart' => Steady /\ (task'[t].op \in SellerOps => Follows(task[t])')
    PROVE  AgreeInv'
  BY AgreeStep, Relied, ContinueWorks

LEMMA CreateAgree ==
    ASSUME Inv, AgreeInv, NEW t \in Tasks, CreateRecord(t) \/ CreateOnPanel(t) PROVE AgreeInv'
<1>1. /\ Continue(t) /\ Shape(task[t]) /\ task[t].pc \in {"record", "panel"} /\ task[t].op = "create"
      /\ task \in [Tasks -> Jobs] /\ task[t] \in Jobs
      /\ UNCHANGED <<reseller, assigned, apart>>
      /\ Goto(t, "panel") \/ Goto(t, "commit")
  BY AtWork DEF Continue, CreateRecord, CreateOnPanel, At, Shape, Inv, TaskTyped, tables, history
<1>2. /\ task'[t].pc \in {"panel", "commit"} /\ task'[t].op = task[t].op
      /\ task'[t].row = task[t].row /\ task'[t].panel = task[t].panel
      /\ task'[t].held = task[t].held
  <2>1. ASSUME NEW step, Goto(t, step)
        PROVE  /\ task'[t].pc = step /\ task'[t].op = task[t].op
               /\ task'[t].row = task[t].row /\ task'[t].panel = task[t].panel
               /\ task'[t].held = task[t].held
    BY <1>1, <2>1 DEF Goto, Jobs
  <2> QED
    BY <1>1, <2>1
<1>3. Steady
  BY <1>1 DEF Steady
<1>4. ~task[t].met => Fresh(task[t])'
  BY <1>1, <1>2, Relied DEF Fresh
<1>5. ASSUME ~apart, NoEditor PROVE Follows(task[t])'
  <2>1. Follows(task[t])
    BY <1>1, <1>5, Relied DEF SellerOps
  <2> QED
    BY <1>1, <1>2, <2>1 DEF Follows
<1> QED
  BY <1>1, <1>3, <1>4, <1>5, OtherAgree DEF Editors

LEMMA RestAgree ==
    ASSUME Inv, AgreeInv, NEW t \in Tasks,
           CreateFails(t) \/ Add(t) \/ RemoveOthers(t) \/ Remove(t) \/ DeletePanel(t) \/ Delete(t)
    PROVE  AgreeInv'
<1>1. /\ Continue(t) /\ Shape(task[t]) /\ task \in [Tasks -> Jobs] /\ task[t] \in Jobs
      /\ assigned \in [Panels -> Assignment \cup {None}]
      /\ reseller # None => reseller.panel \in Panels
  BY AtWork, ResellerFields DEF Continue, Inv, TaskTyped, TablesTyped
<1>2. task[t].op \notin Editors
  BY <1>1 DEF CreateFails, Add, RemoveOthers, Remove, DeletePanel, Delete, At, Shape, Editors
<1>3. apart => apart'
  BY DEF CreateFails, Add, RemoveOthers, Remove, DeletePanel, Delete, history
<1>4. task'[t] = Idle \/ (task'[t].op = "remove" /\ task'[t].pc = "remove")
  <2>1. CASE End(t)
    BY <2>1, EndsIdle
  <2>2. CASE RemoveOthers(t) /\ Goto(t, "remove")
    BY <1>1, <2>2 DEF RemoveOthers, At, Shape, Goto, Jobs
  <2> QED
    BY <2>1, <2>2 DEF CreateFails, Add, RemoveOthers, Remove, DeletePanel, Delete
<1>5. task'[t] # Idle => Fresh(task[t])'
  BY <1>4 DEF Fresh
<1>6. task'[t].op \notin SellerOps
  BY <1>4, IdleShape DEF SellerOps
<1>7. ASSUME ~apart, NoEditor, ~apart' PROVE Steady
  <2>1. Agree
    BY <1>7, NoEditorAgree
  <2>2. CASE CreateFails(t) \/ RemoveOthers(t) \/ DeletePanel(t)
    BY <2>2 DEF CreateFails, RemoveOthers, DeletePanel, tables, Steady
  <2>3. CASE Add(t)
    BY <1>1, <2>1, <2>3 DEF Add, Agree, Steady
  <2>4. CASE Remove(t)
    BY <1>1, <1>7, <2>4 DEF Remove, Steady
  <2>5. CASE Delete(t)
    BY <1>1, <2>1, <2>5 DEF Delete, Agree, Steady
  <2> QED
    BY <2>2, <2>3, <2>4, <2>5
<1> QED
  BY <1>1, <1>2, <1>3, <1>5, <1>6, <1>7, OtherAgree

LEMMA FetchAgree == ASSUME Inv, AgreeInv, NEW t \in Tasks, DefaultFetch(t) PROVE AgreeInv'
<1>1. /\ Continue(t) /\ Shape(task[t]) /\ task[t].pc = "fetch" /\ task[t].op = "default"
      /\ task \in [Tasks -> Jobs] /\ task[t] \in Jobs
      /\ UNCHANGED <<reseller, assigned, apart>>
  BY AtWork DEF Continue, DefaultFetch, At, Shape, Inv, TaskTyped, tables, history
<1>2. ~NoEditor
  BY <1>1 DEF NoEditor, Editors
<1>3. ASSUME ~task[t].met, ~apart' PROVE RowsAgree'
  <2>1. \A u \in Tasks : ~HalfEdited(u)
    <3> SUFFICES ASSUME NEW u \in Tasks, HalfEdited(u) PROVE FALSE
      OBVIOUS
    <3>1. u # t /\ Working(u)
      BY <1>1 DEF HalfEdited, Working
    <3> QED
      BY <1>1, <1>3, <3>1 DEF Inv, Met, Working
  <2> QED
    BY <1>1, <1>3, <2>1 DEF AgreeInv, RowsAgree
<1>4. CASE assigned[task[t].panel] # None /\ panels[task[t].panel] # None
  <2>1. task'[t] = [task[t] EXCEPT !.pc = "copy", !.want = assigned[task[t].panel].config]
    BY <1>1, <1>4 DEF DefaultFetch
  <2>2. /\ task'[t].pc = "copy" /\ task'[t].op = "default" /\ task'[t].panel = task[t].panel
        /\ task'[t].row = task[t].row /\ task'[t].want = assigned[task[t].panel].config
    BY <1>1, <2>1 DEF Jobs
  <2>3. ~task[t].met => Fresh(task[t])'
    BY <1>1, <1>4, <2>2, Relied DEF Fresh
  <2> QED
    BY <1>1, <1>2, <1>3, <2>3, AgreeStep
<1>5. CASE ~(assigned[task[t].panel] # None /\ panels[task[t].panel] # None)
  <2>1. task'[t] = Idle
    BY <1>5, EndsIdle DEF DefaultFetch
  <2> QED
    BY <1>1, <1>2, <1>3, <2>1, AgreeStep
<1> QED
  BY <1>4, <1>5

LEMMA CopyAgree == ASSUME Inv, AgreeInv, NEW t \in Tasks, DefaultCopy(t) PROVE AgreeInv'
<1>1. /\ Continue(t) /\ task[t].pc = "copy" /\ task[t].op = "default"
      /\ task[t].row \in Row /\ task[t].want \in Config
      /\ assigned' = assigned /\ task'[t] = Idle
  BY AtWork, EndsIdle DEF Continue, DefaultCopy, At, Shape
<1>2. ~NoEditor
  BY <1>1 DEF NoEditor, Editors
<1>3. ASSUME ~task[t].met PROVE RowsAgree'
  <2>1. /\ reseller # None /\ task[t].row = reseller
        /\ assigned[task[t].panel] # None /\ task[t].want = assigned[task[t].panel].config
    BY <1>1, <1>3, Relied DEF Fresh
  <2>2. /\ reseller'.panel = task[t].panel
        /\ reseller'.config = Changed(reseller.config, reseller.config, task[t].want)
    BY <2>1 DEF DefaultCopy
  <2>3. reseller'.config = task[t].want
    BY <1>1, <2>1, <2>2, ResellerFields, ChangedTyped
  <2> QED
    BY <1>1, <2>1, <2>2, <2>3 DEF RowsAgree
<1> QED
  BY <1>1, <1>2, <1>3, AgreeStep

LEMMA BeginAgree == ASSUME Inv, AgreeInv, NEW t \in Tasks, Begin(t) PROVE AgreeInv'
<1>1. UNCHANGED <<reseller, assigned>>
  BY Begun
<1>2. CASE UNCHANGED <<task, history>>
  BY <1>1, <1>2 DEF AgreeInv, RowsAgree, HalfEdited, Fresh, Follows, NoEditor, history
<1>3. CASE ~UNCHANGED <<task, history>>
  <2>1. PICK op \in AdminOps \cup SellerOps, step \in Steps \ {"idle"},
             p \in Panels \cup {None}, want \in Config \cup {None}, held \in Assignment \cup {None} :
             /\ Start(t, op, step, p, want, held)
             /\ step \notin {"refresh", "lookup", "sync", "copy", "panel", "remove"}
             /\ op \in SellerOps => reseller # None /\ step \in {"record", "commit"}
             /\ op = "create" => assigned[p] # None /\ held = assigned[p]
             /\ step = "fetch" => reseller # None
    BY <1>3, Begun
  <2>2. /\ task[t] = Idle /\ task'[t] = NewJob(op, step, p, want, held)
        /\ \A u \in Tasks \ {t} :
              \/ task[u] = Idle /\ task'[u] = Idle
              \/ task[u] # Idle /\ task'[u] = [task[u] EXCEPT !.met = TRUE] /\ ~Quiet
    BY <2>1, Started
  <2>3. /\ task'[t].pc = step /\ task'[t].op = op /\ task'[t].panel = p
        /\ task'[t].row = reseller /\ task'[t].held = held
    BY <2>2 DEF NewJob
  <2>4. ASSUME NEW u \in Tasks \ {t}
        PROVE  /\ task'[u].pc = task[u].pc /\ task'[u].op = task[u].op
               /\ task'[u].panel = task[u].panel /\ task'[u].row = task[u].row
               /\ task'[u].want = task[u].want /\ task'[u].held = task[u].held
               /\ task'[u] = Idle \/ task'[u].met
    <3>1. CASE task[u] = Idle
      BY <2>2, <3>1, IdleShape
    <3>2. CASE task[u] # Idle
      <4>1. task'[u] = [task[u] EXCEPT !.met = TRUE] /\ Shape(task[u])
        BY <2>2, <3>2, AtWork
      <4> QED
        BY <3>2, <4>1, MetShape
    <3> QED
      BY <3>1, <3>2
  <2>5. apart => apart'
    BY <2>1 DEF Start
  <2>6. ASSUME NEW u \in Tasks, ~task'[u].met PROVE Fresh(task[u])'
    <3>1. CASE u = t
      BY <1>1, <2>1, <2>3, <3>1 DEF Fresh, SellerOps
    <3>2. CASE u # t
      BY <2>4, <2>6, <3>2, IdleFresh
    <3> QED
      BY <3>1, <3>2
  <2>7. \A u \in Tasks : HalfEdited(u)' => HalfEdited(u)
    BY <2>1, <2>3, <2>4 DEF HalfEdited
  <2>8. \A u \in Tasks : HalfEdited(u) => HalfEdited(u)'
    <3>1. ~HalfEdited(t)
      BY <2>2, IdleShape DEF HalfEdited
    <3> QED
      BY <2>4, <3>1 DEF HalfEdited
  <2>9. RowsAgree'
    BY <1>1, <2>5, <2>8 DEF AgreeInv, RowsAgree
  <2>10. ASSUME ~apart', NoEditor', NEW u \in Tasks, task'[u].op \in SellerOps
         PROVE  Follows(task[u])'
    <3>1. ~apart /\ NoEditor
      BY <2>2, <2>4, <2>5, <2>10, IdleShape DEF NoEditor, Editors, AdminOps
    <3>2. CASE u # t
      <4>1. task[u].op \in SellerOps
        BY <2>4, <2>10, <3>2
      <4>2. Follows(task[u])
        BY <3>1, <4>1, Relied
      <4> QED
        BY <1>1, <2>4, <3>2, <4>2 DEF Follows
    <3>3. CASE u = t
      BY <1>1, <2>1, <2>3, <2>10, <3>1, <3>3, NoEditorAgree DEF Follows, Agree
    <3> QED
      BY <3>2, <3>3
  <2> QED
    BY <2>6, <2>9, <2>10 DEF AgreeInv
<1> QED
  BY <1>2, <1>3

LEMMA AsideAgree == ASSUME Inv, AgreeInv, Aside PROVE AgreeInv'
<1>1. UNCHANGED <<reseller, task, apart>>
  BY AsideTyped DEF history
<1>2. \A p \in Panels : /\ assigned[p] = None <=> assigned'[p] = None
                        /\ assigned[p] # None => assigned'[p].config = assigned[p].config
  <2>1. ASSUME NEW p \in Panels, NEW active \in BOOLEAN, Switch(p, active)
        PROVE  \A q \in Panels : /\ assigned[q] = None <=> assigned'[q] = None
                                 /\ assigned[q] # None => assigned'[q].config = assigned[q].config
    <3>1. assigned[p] \in Assignment /\ assigned \in [Panels -> Assignment \cup {None}]
      BY <2>1 DEF Switch, Inv, TablesTyped
    <3>2. assigned' = [assigned EXCEPT ![p] = [assigned[p] EXCEPT !.active = active]]
      BY <2>1, <3>1 DEF Switch
    <3>3. /\ [assigned[p] EXCEPT !.active = active] \in Assignment
          /\ [assigned[p] EXCEPT !.active = active].config = assigned[p].config
      BY <3>1 DEF Assignment
    <3> QED
      BY <3>1, <3>2, <3>3, AssignmentFields
  <2> QED
    BY <2>1 DEF Aside, CreatePanel, SwitchPanel
<1>3. ASSUME NEW t \in Tasks
      PROVE  task[t].panel \in Panels \cup {None} /\ (task[t].row # None => task[t].row.panel \in Panels)
  BY <1>3, AtWork, RowFields
<1>4. RowsAgree'
  BY <1>1, <1>2, ResellerFields DEF AgreeInv, RowsAgree, HalfEdited
<1>5. ASSUME NEW t \in Tasks, ~task'[t].met PROVE Fresh(task[t])'
  <2>1. Fresh(task[t]) /\ Shape(task[t])
    BY <1>1, <1>5, AtWork DEF AgreeInv
  <2>2. /\ task[t].pc = "sync" => task[t].row.panel \in Panels
        /\ task[t].op = "create" /\ task[t].pc # "sync" => task[t].panel \in Panels
        /\ task[t].pc = "copy" => task[t].panel \in Panels
    BY <1>3, <2>1 DEF Shape
  <2> QED
    BY <1>1, <1>2, <2>1, <2>2 DEF Fresh
<1>6. ASSUME ~apart', NoEditor', NEW t \in Tasks, task'[t].op \in SellerOps PROVE Follows(task[t])'
  BY <1>1, <1>6 DEF AgreeInv, NoEditor, Follows
<1> QED
  BY <1>4, <1>5, <1>6 DEF AgreeInv

LEMMA CrashAgree == ASSUME Inv, AgreeInv, Crash PROVE AgreeInv'
<1>1. /\ \A t \in Tasks : task'[t] = Idle
      /\ UNCHANGED <<reseller, assigned>>
      /\ apart' = (apart \/ \E t \in Tasks : HalfEdited(t))
  BY DEF Crash, tables
<1>2. RowsAgree'
  BY <1>1 DEF AgreeInv, RowsAgree
<1>3. \A t \in Tasks : task'[t].op \notin SellerOps
  BY <1>1, IdleShape
<1> QED
  BY <1>1, <1>2, <1>3, IdleFresh DEF AgreeInv

(* Between handlers the default panel is assigned with the columns of the  *)
(* row, whichever of the reseller's handlers cross each other and those of *)
(* the admin, until an edit of these columns meets another handler or is   *)
(* cut short, or the default panel's assignment is removed; and again once *)
(* a handler that met nobody has copied the row.                           *)
THEOREM TablesAgree == Spec => []RowsAgree
<1>1. Init => AgreeInv
  <2> SUFFICES ASSUME Init PROVE AgreeInv
    OBVIOUS
  <2>1. reseller = None /\ \A t \in Tasks : task[t] = Idle
    BY DEF Init
  <2>2. \A t \in Tasks : Fresh(task[t]) /\ task[t].op \notin SellerOps
    BY <2>1, IdleShape DEF Fresh, SellerOps
  <2> QED
    BY <2>1, <2>2 DEF AgreeInv, RowsAgree
<1>2. Inv /\ AgreeInv /\ [Next]_vars => AgreeInv'
  <2> SUFFICES ASSUME Inv, AgreeInv, [Next]_vars PROVE AgreeInv'
    OBVIOUS
  <2>1. ASSUME NEW t \in Tasks, Continue(t) PROVE AgreeInv'
    BY <2>1, InsertAgree, CommitAgree, RefreshAgree, LookupAgree, SyncAgree, CreateAgree,
       RestAgree, FetchAgree, CopyAgree
       DEF Continue
  <2>2. CASE UNCHANGED vars
    BY <2>2 DEF AgreeInv, RowsAgree, HalfEdited, Fresh, Follows, NoEditor, vars, tables, history
  <2> QED
    BY <2>1, <2>2, BeginAgree, AsideAgree, CrashAgree, StepKinds
<1>3. AgreeInv => RowsAgree
  BY DEF AgreeInv
<1> QED
  BY <1>1, <1>2, <1>3, InitInv, NextInv, PTL DEF Spec
=============================================================================
