---------------------------- MODULE GuestOrders ----------------------------
(***************************************************************************)
(* Guest sales: a guest picks a plan, pays outside the bot and sends a     *)
(* receipt; an admin approves or rejects the order; an approval has the    *)
(* hidden system reseller create the service (bot/handlers/guest.py,       *)
(* bot/handlers/admin_guest_orders.py, services/guest_sales.py).           *)
(*                                                                         *)
(* Handlers are tasks as in ResellerLedger: a step lies between two        *)
(* awaits, and a session keeps the rows it has read.  The conversation     *)
(* state of a guest lives in memory and is lost when the process ends.     *)
(*                                                                         *)
(* Abstractions.  A plan is its volume and whether it is offered.  An      *)
(* order is the index of its row: rows of guest_orders are never deleted.  *)
(* The service of order o has a name made from o (guest{tg}_{o}), so it is *)
(* the order that names it.  Steps between two reads that nothing          *)
(* separates but other reads are joined; so are the read and the write of  *)
(* the settings' handlers.  Telegram messages are left out.                *)
(***************************************************************************)
EXTENDS Integers, Sequences

CONSTANTS
    Guests,         \* telegram ids of guests
    Panels,         \* ids of the panels an admin may sell from
    Volumes,        \* volumes of plans
    Tasks,          \* handler tasks that may run at the same time
    Ops,            \* the operations the users of this instance perform
    MaxPlan,        \* bound: ids of plans
    MaxOrders,      \* bound: rows of guest_orders
    MaxPool         \* bound: cap of the system reseller

GuestOps == {"receipt", "approve", "reject", "offer", "hide", "delete", "configure", "toggle"}

ASSUME GuestAssumptions ==
    /\ Volumes \subseteq Nat \ {0}
    /\ Ops \subseteq GuestOps
    /\ MaxPlan \in Nat
    /\ MaxOrders \in Nat
    /\ MaxPool \in Nat
    /\ "none" \notin Panels

VARIABLES
    plans,          \* table plans
    orders,         \* table guest_orders
    sales,          \* the row of guest_sales_config
    pool,           \* the row of the system reseller (telegram id 0)
    records,        \* orders with a row in client_records
    clients,        \* orders whose service the panel has
    draft,          \* plan a guest is about to pay for (conversation state)
    task            \* the handler tasks and their sessions

vars == <<plans, orders, sales, pool, records, clients, draft, task>>

NoPlan == [vol |-> 0, active |-> FALSE]
PlanRow == [vol : Volumes, active : BOOLEAN] \cup {NoPlan}
OrderRow == [guest : Guests, plan : 1..MaxPlan, status : {"pending", "approved", "rejected"}]
NoPool == [panel |-> "none", quota |-> 0, lifetime |-> 0]
PoolRow == [panel : Panels \cup {"none"}, quota : Nat, lifetime : Nat]

Steps == {"submit", "clear", "ensure", "grant", "check", "probe", "insert", "panel",
          "delivery", "undo", "charge", "mark", "reject", "hide", "drop"}

(* A handler at a step, and what it works on; v, x and b are the volume,   *)
(* the panel and the flag its session has read.                            *)
Job(step, g, p, o, v, x, b) ==
    [pc |-> step, guest |-> g, plan |-> p, order |-> o, vol |-> v, panel |-> x,
     quota |-> 0, lifetime |-> 0, seen |-> b]
GuestJob(step, g, p) == Job(step, g, p, 0, 0, "none", FALSE)
PlanJob(step, p, b) == Job(step, "none", p, 0, 0, "none", b)
OrderJob(step, o, v, x, b) == Job(step, "none", 0, o, v, x, b)

(* A handler that is not running. *)
Idle == PlanJob("idle", 0, FALSE)

Task == [pc : Steps, guest : Guests \cup {"none"}, plan : 0..MaxPlan, order : 0..MaxOrders,
         vol : Nat, panel : Panels \cup {"none"}, quota : Nat, lifetime : Nat,
         seen : BOOLEAN] \cup {Idle}

TypeOK ==
    /\ plans \in [1..MaxPlan -> PlanRow]
    /\ orders \in Seq(OrderRow) /\ Len(orders) <= MaxOrders
    /\ sales \in [panel : Panels \cup {"none"}, enabled : BOOLEAN]
    /\ pool \in PoolRow
    /\ records \subseteq DOMAIN orders
    /\ clients \subseteq DOMAIN orders
    /\ draft \in [Guests -> 0..MaxPlan]
    /\ task \in [Tasks -> Task]

Init ==
    /\ plans = [p \in 1..MaxPlan |-> NoPlan]
    /\ orders = <<>>
    /\ sales = [panel |-> "none", enabled |-> FALSE]
    /\ pool = NoPool
    /\ records = {}
    /\ clients = {}
    /\ draft = [g \in Guests |-> 0]
    /\ task = [t \in Tasks |-> Idle]

-----------------------------------------------------------------------------
Pending(o) == orders[o].status = "pending"

(* Mistaken variants of a definition, each of which a run must refute, stand *)
(* before the definition they vary and are used by none.                     *)

(* mistake: only the newest order is looked at *)
NewestPending(g) ==
    orders # <<>> /\ orders[Len(orders)].guest = g /\ Pending(Len(orders))

HasPending(g) == \E o \in DOMAIN orders : orders[o].guest = g /\ Pending(o)
Remaining == IF pool.lifetime < pool.quota THEN pool.quota - pool.lifetime ELSE 0

Finish(t) == task' = [task EXCEPT ![t] = Idle]
Goto(t, step) == task' = [task EXCEPT ![t].pc = step]
Start(t, op, j) ==
    /\ task[t] = Idle
    /\ op \in Ops
    /\ task' = [task EXCEPT ![t] = j]

-----------------------------------------------------------------------------
(* The guest.                                                              *)

(* guest_plan_picked *)
PickPlan(g, p) ==
    /\ "receipt" \in Ops
    /\ sales.enabled
    /\ plans[p].active
    /\ draft' = [draft EXCEPT ![g] = p]
    /\ UNCHANGED <<plans, orders, sales, pool, records, clients, task>>

(* guest_receipt_received: get_active and get_pending_for_user.  A guest   *)
(* may send several receipts before the first is answered.                 *)
ReceiptBegin(t, g) ==
    /\ draft[g] # 0
    /\ \/ /\ plans[draft[g]].active /\ ~HasPending(g)
          /\ Len(orders) < MaxOrders
          /\ Start(t, "receipt", GuestJob("submit", g, draft[g]))
       \/ /\ ~plans[draft[g]].active \/ HasPending(g)
          /\ Start(t, "receipt", GuestJob("clear", g, 0))
    /\ UNCHANGED <<plans, orders, sales, pool, records, clients, draft>>

(* GuestOrderRepository.create *)
Submit(t) ==
    LET j == task[t] IN
    /\ j.pc = "submit"
    /\ Len(orders) < MaxOrders
    /\ orders' = Append(orders, [guest |-> j.guest, plan |-> j.plan, status |-> "pending"])
    /\ Goto(t, "clear")
    /\ UNCHANGED <<plans, sales, pool, records, clients, draft>>

(* state.clear, after the order is in the table or the receipt is refused. *)
ClearDraft(t) ==
    /\ task[t].pc = "clear"
    /\ draft' = [draft EXCEPT ![task[t].guest] = 0]
    /\ Finish(t)
    /\ UNCHANGED <<plans, orders, sales, pool, records, clients>>

-----------------------------------------------------------------------------
(* guest_order_approve.                                                    *)

(* The order is pending, its plan exists, a panel is configured.           *)
(* Bound: the cap of the system reseller stays within MaxPool.             *)
ApproveBegin(t, o) ==
    /\ Pending(o)
    /\ plans[orders[o].plan] # NoPlan
    /\ sales.panel # "none"
    /\ pool.quota + plans[orders[o].plan].vol <= MaxPool
    /\ Start(t, "approve", OrderJob("ensure", o, plans[orders[o].plan].vol, sales.panel,
                                   pool # NoPool))
    /\ UNCHANGED <<plans, orders, sales, pool, records, clients, draft>>

(* mistake: the upsert writes the cap of a new reseller over the old one *)
EnsureResets(t) ==
    LET j == task[t] IN
    /\ j.pc = "ensure"
    /\ pool' = IF pool = NoPool THEN [panel |-> j.panel, quota |-> 0, lifetime |-> 0]
                                ELSE [pool EXCEPT !.quota = 0]
    /\ task' = [task EXCEPT ![t].pc = "grant", ![t].quota = 0]
    /\ UNCHANGED <<plans, orders, sales, records, clients, draft>>

(* ensure_system_reseller.  The upsert of an existing row leaves its panel *)
(* alone; an insert that lost the race for the row ends the handler.  The  *)
(* refresh at its end gives the session the row that Grant adds to.        *)
Ensure(t) ==
    LET j == task[t] IN
    /\ j.pc = "ensure"
    /\ \/ /\ pool = NoPool
          /\ pool' = [panel |-> j.panel, quota |-> 0, lifetime |-> 0]
          /\ task' = [task EXCEPT ![t].seen = TRUE]
       \/ /\ pool # NoPool
          /\ task' = [task EXCEPT ![t].pc = "grant", ![t].quota = pool.quota]
          /\ UNCHANGED pool
       \/ /\ pool # NoPool
          /\ ~j.seen
          /\ Finish(t)
          /\ UNCHANGED pool
    /\ UNCHANGED <<plans, orders, sales, records, clients, draft>>

(* add_quota_bytes: the cached cap plus the plan's volume. *)
Grant(t) ==
    LET j == task[t] IN
    /\ j.pc = "grant"
    /\ pool' = [pool EXCEPT !.quota = j.quota + j.vol]
    /\ Goto(t, "check")
    /\ UNCHANGED <<plans, orders, sales, records, clients, draft>>

(* The refresh after the grant, xui_for_reseller_panel, validate_create    *)
(* and email_exists.  The system reseller is assigned to the panel of its  *)
(* row and to no other.  The panel's client may be out of reach.           *)
Check(t) ==
    LET j == task[t] IN
    /\ j.pc = "check"
    /\ \/ /\ j.panel = pool.panel
          /\ j.vol <= Remaining
          /\ j.order \notin records
          /\ task' = [task EXCEPT ![t].pc = "probe", ![t].lifetime = pool.lifetime]
       \/ Finish(t)
    /\ UNCHANGED <<plans, orders, sales, pool, records, clients, draft>>

(* create_service from here on; see ResellerLedger. *)
Probe(t) ==
    /\ task[t].pc = "probe"
    /\ \/ task[t].order \notin clients /\ Goto(t, "insert")
       \/ Finish(t)
    /\ UNCHANGED <<plans, orders, sales, pool, records, clients, draft>>

(* mistake: no UNIQUE constraint on the name *)
InsertAnyway(t) ==
    /\ task[t].pc = "insert"
    /\ Goto(t, "panel")
    /\ records' = records \cup {task[t].order}
    /\ UNCHANGED <<plans, orders, sales, pool, clients, draft>>

(* client_repo.add; a name taken meanwhile breaks the UNIQUE constraint. *)
Insert(t) ==
    LET o == task[t].order IN
    /\ task[t].pc = "insert"
    /\ IF o \in records THEN Finish(t) ELSE Goto(t, "panel")
    /\ records' = records \cup {o}
    /\ UNCHANGED <<plans, orders, sales, pool, clients, draft>>

CreateClient(t) ==
    LET o == task[t].order IN
    /\ task[t].pc = "panel"
    /\ \/ /\ o \notin clients
          /\ clients' = clients \cup {o}
          /\ Goto(t, "delivery") \/ Goto(t, "undo")
       \/ Goto(t, "undo") /\ UNCHANGED clients
    /\ UNCHANGED <<plans, orders, sales, pool, records, draft>>

(* set_sub_id and get_client_delivery *)
Delivery(t) ==
    /\ task[t].pc = "delivery"
    /\ Goto(t, "charge") \/ Goto(t, "undo")
    /\ UNCHANGED <<plans, orders, sales, pool, records, clients, draft>>

(* mistake: the record of the failed creation stays *)
UndoNothing(t) ==
    /\ task[t].pc = "undo"
    /\ Finish(t)
    /\ UNCHANGED <<plans, orders, sales, pool, records, clients, draft>>

(* mistake: the failed creation gives back volume it was never charged *)
UndoRefunds(t) ==
    /\ task[t].pc = "undo"
    /\ records' = records \ {task[t].order}
    /\ pool' = [pool EXCEPT !.lifetime = @ - task[t].vol]
    /\ Finish(t)
    /\ UNCHANGED <<plans, orders, sales, clients, draft>>

(* The record of the failed creation goes; the client on the panel and the *)
(* volume granted to the system reseller stay.                             *)
Undo(t) ==
    /\ task[t].pc = "undo"
    /\ records' = records \ {task[t].order}
    /\ Finish(t)
    /\ UNCHANGED <<plans, orders, sales, pool, clients, draft>>

Charge(t) ==
    LET j == task[t] IN
    /\ j.pc = "charge"
    /\ pool' = [pool EXCEPT !.lifetime = j.lifetime + j.vol]
    /\ Goto(t, "mark")
    /\ UNCHANGED <<plans, orders, sales, records, clients, draft>>

(* mark_approved: the cached row says pending, whatever is committed. *)
Mark(t) ==
    /\ task[t].pc = "mark"
    /\ orders' = [orders EXCEPT ![task[t].order].status = "approved"]
    /\ Finish(t)
    /\ UNCHANGED <<plans, sales, pool, records, clients, draft>>

-----------------------------------------------------------------------------
(* guest_order_reject: the check, then mark_rejected.                      *)
RejectBegin(t, o) ==
    /\ Pending(o)
    /\ Start(t, "reject", OrderJob("reject", o, 0, "none", FALSE))
    /\ UNCHANGED <<plans, orders, sales, pool, records, clients, draft>>

Reject(t) ==
    /\ task[t].pc = "reject"
    /\ orders' = [orders EXCEPT ![task[t].order].status = "rejected"]
    /\ Finish(t)
    /\ UNCHANGED <<plans, sales, pool, records, clients, draft>>

-----------------------------------------------------------------------------
(* The admin's plans and settings.                                         *)

(* PlanRepository.create; the id is one more than the largest in use. *)
Offer(p, v) ==
    /\ "offer" \in Ops
    /\ \A q \in p..MaxPlan : plans[q] = NoPlan
    /\ p > 1 => plans[p - 1] # NoPlan
    /\ plans' = [plans EXCEPT ![p] = [vol |-> v, active |-> TRUE]]
    /\ UNCHANGED <<orders, sales, pool, records, clients, draft, task>>

(* plan_toggle reads the row and writes the opposite; a row deleted in     *)
(* between is an error and changes nothing.                                *)
HideBegin(t, p) ==
    /\ plans[p] # NoPlan
    /\ Start(t, "hide", PlanJob("hide", p, plans[p].active))
    /\ UNCHANGED <<plans, orders, sales, pool, records, clients, draft>>

Hide(t) ==
    LET p == task[t].plan IN
    /\ task[t].pc = "hide"
    /\ plans' = IF plans[p] = NoPlan THEN plans
                ELSE [plans EXCEPT ![p].active = ~task[t].seen]
    /\ Finish(t)
    /\ UNCHANGED <<orders, sales, pool, records, clients, draft>>

(* mistake: the pending orders are not counted *)
DeleteUnchecked(t, p) ==
    /\ plans[p] # NoPlan
    /\ Start(t, "delete", PlanJob("drop", p, FALSE))
    /\ UNCHANGED <<plans, orders, sales, pool, records, clients, draft>>

(* PlanRepository.delete counts the pending orders, then deletes the row.  *)
DeleteBegin(t, p) ==
    /\ plans[p] # NoPlan
    /\ \A o \in DOMAIN orders : ~(Pending(o) /\ orders[o].plan = p)
    /\ Start(t, "delete", PlanJob("drop", p, FALSE))
    /\ UNCHANGED <<plans, orders, sales, pool, records, clients, draft>>

Drop(t) ==
    /\ task[t].pc = "drop"
    /\ plans' = [plans EXCEPT ![task[t].plan] = NoPlan]
    /\ Finish(t)
    /\ UNCHANGED <<orders, sales, pool, records, clients, draft>>

(* guest_settings_inbounds_done *)
Configure(x) ==
    /\ "configure" \in Ops
    /\ sales' = [sales EXCEPT !.panel = x]
    /\ UNCHANGED <<plans, orders, pool, records, clients, draft, task>>

(* guest_settings_toggle: sales start only when a panel is configured. *)
ToggleSales ==
    /\ "toggle" \in Ops
    /\ sales.enabled \/ sales.panel # "none"
    /\ sales' = [sales EXCEPT !.enabled = ~@]
    /\ UNCHANGED <<plans, orders, pool, records, clients, draft, task>>

-----------------------------------------------------------------------------
Begin(t) ==
    \/ \E g \in Guests : ReceiptBegin(t, g)
    \/ \E o \in DOMAIN orders : ApproveBegin(t, o) \/ RejectBegin(t, o)
    \/ \E p \in 1..MaxPlan : HideBegin(t, p) \/ DeleteBegin(t, p)

Continue(t) ==
    \/ Submit(t) \/ ClearDraft(t)
    \/ Ensure(t) \/ Grant(t) \/ Check(t) \/ Probe(t) \/ Insert(t) \/ CreateClient(t)
    \/ Delivery(t) \/ Undo(t) \/ Charge(t) \/ Mark(t)
    \/ Reject(t) \/ Hide(t) \/ Drop(t)

Settings ==
    \/ \E g \in Guests, p \in 1..MaxPlan : PickPlan(g, p)
    \/ \E p \in 1..MaxPlan, v \in Volumes : Offer(p, v)
    \/ \E x \in Panels : Configure(x)
    \/ ToggleSales

Next == Settings \/ \E t \in Tasks : Begin(t) \/ Continue(t)

Spec == Init /\ [][Next]_vars

(* The process ends: handlers and conversations are gone. *)
Crash ==
    /\ task' = [t \in Tasks |-> Idle]
    /\ draft' = [g \in Guests |-> 0]
    /\ UNCHANGED <<plans, orders, sales, pool, records, clients>>

CrashSpec == Init /\ [][Next \/ Crash]_vars

-----------------------------------------------------------------------------
(* What the sale is for.                                                   *)

(* An order that waits can be approved: its plan is there ("prevents       *)
(* deleting a plan that has a pending order", CHANGELOG.md:39).            *)
PendingPlanExists ==
    \A o \in DOMAIN orders : Pending(o) => plans[orders[o].plan] # NoPlan

(* An order is approved only when its service exists, in the table and on  *)
(* the panel, and no later step of another approval takes it away.         *)
ApprovedHasService ==
    \A o \in DOMAIN orders :
        orders[o].status = "approved" => o \in records /\ o \in clients

(* No service is given away: each belongs to an approved order or to a     *)
(* handler that is creating it.                                            *)
Creating(o) == \E t \in Tasks :
    task[t].order = o /\ task[t].pc \in {"panel", "delivery", "undo", "charge", "mark"}
ServicesAccounted == \A o \in records : orders[o].status = "approved" \/ Creating(o)

(* The system reseller has no cap of its own: what deliver_guest_order     *)
(* grants is enough for the service it then creates.                       *)
GrantSuffices ==
    \A t \in Tasks : task[t].pc = "check" => task[t].vol <= Remaining

(* ensure_system_reseller leaves the system reseller assigned to the panel *)
(* the sale is made from, so that an approval can create the service       *)
(* ("on approval the account is created automatically", CHANGELOG.md:35).  *)
DeliveryPanelAssigned ==
    \A t \in Tasks : task[t].pc = "check" => task[t].panel = pool.panel
=============================================================================
