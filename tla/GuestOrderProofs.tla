-------------------------- MODULE GuestOrderProofs --------------------------
(***************************************************************************)
(* Proofs about GuestOrders for every value of its constants, crashes      *)
(* included.                                                               *)
(***************************************************************************)
EXTENDS MCGuestModes, TLAPS

Approving == {"ensure", "grant", "check", "probe", "insert", "panel",
              "delivery", "undo", "charge", "mark"}

(* What a running handler has cached, when guest_orders has n rows. *)
JobSound(j, n) ==
    /\ j.pc \in {"submit", "clear"} => j.guest \in Guests
    /\ j.pc \in {"submit", "hide", "drop"} => j.plan \in 1..MaxPlan
    /\ j.pc \in Approving \cup {"reject"} => j.order \in 1..n
    /\ j.pc = "ensure" => j.panel \in Panels

JobsSound == \A t \in Tasks : JobSound(task[t], Len(orders))

TypeInv == TypeOK /\ JobsSound

LEMMA InitType == Init => TypeInv
<1> SUFFICES ASSUME Init PROVE TypeInv
  OBVIOUS
<1> USE GuestAssumptions DEF Init
<1>1. TypeOK
  BY DEF TypeOK, PlanRow, NoPlan, PoolRow, NoPool, Task
<1>2. Idle.pc = "idle"
  BY DEF Idle, PlanJob, Job
<1>3. JobsSound
  BY <1>2 DEF JobsSound, JobSound, Approving
<1> QED  BY <1>1, <1>3 DEF TypeInv

(* The handler's job replaced by another sound one; rows are only added to *)
(* guest_orders.                                                           *)
LEMMA JobType ==
  ASSUME TypeInv, NEW t \in Tasks, NEW j \in Task,
         Len(orders') \in Nat, Len(orders) <= Len(orders'), JobSound(j, Len(orders')),
         task' = [task EXCEPT ![t] = j]
  PROVE  task' \in [Tasks -> Task] /\ JobsSound'
<1>1. task'[t] = j /\ \A u \in Tasks \ {t} : task'[u] = task[u]
  BY DEF TypeInv, TypeOK
<1>2. Len(orders) \in Nat
  BY DEF TypeInv, TypeOK
<1>3. ASSUME NEW u \in Tasks \ {t} PROVE JobSound(task'[u], Len(orders'))
  BY <1>1, <1>2 DEF TypeInv, JobsSound, JobSound
<1>4. task' \in [Tasks -> Task]
  BY DEF TypeInv, TypeOK
<1> QED  BY <1>1, <1>3, <1>4 DEF JobsSound

LEMMA FinishType ==
  ASSUME TypeInv, NEW t \in Tasks, Len(orders') \in Nat, Len(orders) <= Len(orders'), Finish(t)
  PROVE  task' \in [Tasks -> Task] /\ JobsSound'
<1>1. Idle.pc = "idle"
  BY DEF Idle, PlanJob, Job
<1>2. Idle \in Task /\ JobSound(Idle, Len(orders'))
  BY <1>1 DEF Task, JobSound, Approving
<1> QED  BY <1>2, JobType DEF Finish

(* A handler goes on to a step that needs no more than the one before it. *)
LEMMA GotoType ==
  ASSUME TypeInv, NEW t \in Tasks, Len(orders') \in Nat, Len(orders) <= Len(orders'),
         NEW step \in Steps,
         \/ task[t].pc \in Approving /\ step \in Approving \ {"ensure"}
         \/ task[t].pc = "submit" /\ step = "clear",
         Goto(t, step)
  PROVE  task' \in [Tasks -> Task] /\ JobsSound'
<1> DEFINE j == [task[t] EXCEPT !.pc = step]
<1>1. task[t] \in Task \ {Idle} /\ JobSound(task[t], Len(orders))
  <2>1. task[t] \in Task /\ JobSound(task[t], Len(orders))
    BY DEF TypeInv, TypeOK, JobsSound
  <2>2. Idle.pc = "idle"
    BY DEF Idle, PlanJob, Job
  <2> QED  BY <2>1, <2>2 DEF Approving
<1>2. j \in Task
  BY <1>1 DEF Task
<1>3. JobSound(j, Len(orders'))
  BY <1>1 DEF JobSound, Task, Approving, TypeInv, TypeOK
<1>4. task' = [task EXCEPT ![t] = j]
  BY DEF Goto
<1> QED  BY <1>2, <1>3, <1>4, JobType

(* A handler that begins changes nothing but itself. *)
LEMMA StartType ==
  ASSUME TypeInv, NEW t \in Tasks, NEW op, NEW j \in Task, JobSound(j, Len(orders)),
         Start(t, op, j),
         UNCHANGED <<plans, orders, sales, pool, records, clients, draft>>
  PROVE  TypeInv'
<1>1. Len(orders') \in Nat /\ Len(orders) <= Len(orders') /\ orders' = orders
  BY DEF TypeInv, TypeOK
<1>2. task' \in [Tasks -> Task] /\ JobsSound'
  BY <1>1, JobType DEF Start
<1>3. TypeOK'
  BY <1>2 DEF TypeInv, TypeOK
<1> QED  BY <1>2, <1>3 DEF TypeInv

LEMMA PlanFields ==
  ASSUME TypeInv, NEW p \in 1..MaxPlan
  PROVE  plans[p].vol \in Nat /\ plans[p].active \in BOOLEAN
<1>1. plans[p] \in [vol : Volumes, active : BOOLEAN] \/ plans[p] = NoPlan
  BY DEF TypeInv, TypeOK, PlanRow
<1>2. NoPlan.active = FALSE
  BY DEF NoPlan
<1>3. plans[p].vol \in Nat
  <2>1. CASE plans[p] \in [vol : Volumes, active : BOOLEAN]
    BY <2>1, GuestAssumptions
  <2>2. CASE plans[p] = NoPlan
    BY <2>2 DEF NoPlan
  <2> QED  BY <1>1, <2>1, <2>2
<1>4. plans[p].active \in BOOLEAN
  <2>1. CASE plans[p] \in [vol : Volumes, active : BOOLEAN]
    BY <2>1
  <2>2. CASE plans[p] = NoPlan
    BY <1>2, <2>2, Zenon
  <2> QED  BY <1>1, <2>1, <2>2
<1> QED  BY <1>3, <1>4

LEMMA BeginType ==
  ASSUME TypeInv, NEW t \in Tasks, Begin(t)
  PROVE  TypeInv'
<1> USE GuestAssumptions
<1>0. DOMAIN orders = 1..Len(orders) /\ Len(orders) \in Nat /\ Len(orders) <= MaxOrders
  BY DEF TypeInv, TypeOK
<1>a. ASSUME NEW step \in {"submit", "clear"}, NEW g \in Guests, NEW p \in 0..MaxPlan,
             step = "submit" => p # 0
      PROVE  GuestJob(step, g, p) \in Task /\ JobSound(GuestJob(step, g, p), Len(orders))
  <2> DEFINE j == GuestJob(step, g, p)
  <2>1. j = [pc |-> step, guest |-> g, plan |-> p, order |-> 0, vol |-> 0, panel |-> "none",
             quota |-> 0, lifetime |-> 0, seen |-> FALSE]
    BY DEF GuestJob, Job
  <2> HIDE DEF j
  <2>2. j \in Task
    BY <2>1 DEF Task, Steps
  <2>3. j.pc = step /\ j.guest = g /\ j.plan = p
    BY <2>1
  <2>4. step = "submit" => p \in 1..MaxPlan
    BY <1>a
  <2>5. step \notin Approving \cup {"reject", "hide", "drop"}
    BY DEF Approving
  <2>6. JobSound(j, Len(orders))
    BY <2>3, <2>4, <2>5 DEF JobSound
  <2> QED  BY <2>2, <2>6 DEF j
<1>b. ASSUME NEW step \in {"hide", "drop"}, NEW p \in 1..MaxPlan, NEW b \in BOOLEAN
      PROVE  PlanJob(step, p, b) \in Task /\ JobSound(PlanJob(step, p, b), Len(orders))
  BY DEF PlanJob, Job, Task, Steps, JobSound, Approving
<1>c. ASSUME NEW step \in {"ensure", "reject"}, NEW o \in DOMAIN orders, NEW v \in Nat,
             NEW x \in Panels \cup {"none"}, step = "ensure" => x \in Panels,
             NEW b \in BOOLEAN
      PROVE  /\ OrderJob(step, o, v, x, b) \in Task
             /\ JobSound(OrderJob(step, o, v, x, b), Len(orders))
  <2> DEFINE j == OrderJob(step, o, v, x, b)
  <2>1. j = [pc |-> step, guest |-> "none", plan |-> 0, order |-> o, vol |-> v, panel |-> x,
             quota |-> 0, lifetime |-> 0, seen |-> b]
    BY DEF OrderJob, Job
  <2> HIDE DEF j
  <2>2. j \in Task
    BY <1>0, <2>1 DEF Task, Steps
  <2>3. j.pc = step /\ j.order = o /\ j.panel = x
    BY <2>1
  <2>4. step \notin {"submit", "clear", "hide", "drop"} /\ o \in 1..Len(orders)
    BY <1>0
  <2>5. JobSound(j, Len(orders))
    BY <1>c, <2>3, <2>4 DEF JobSound
  <2> QED  BY <2>2, <2>5 DEF j
<1>1. ASSUME NEW g \in Guests, ReceiptBegin(t, g) PROVE TypeInv'
  <2>1. draft[g] \in 1..MaxPlan
    BY <1>1 DEF ReceiptBegin, TypeInv, TypeOK
  <2>2. /\ \/ Start(t, "receipt", GuestJob("submit", g, draft[g]))
           \/ Start(t, "receipt", GuestJob("clear", g, 0))
        /\ UNCHANGED <<plans, orders, sales, pool, records, clients, draft>>
    BY <1>1 DEF ReceiptBegin
  <2>3. GuestJob("submit", g, draft[g]) \in Task
        /\ JobSound(GuestJob("submit", g, draft[g]), Len(orders))
    BY <2>1, <1>a
  <2>4. GuestJob("clear", g, 0) \in Task /\ JobSound(GuestJob("clear", g, 0), Len(orders))
    BY <1>a
  <2> QED  BY <2>2, <2>3, <2>4, StartType
<1>2. ASSUME NEW o \in DOMAIN orders, ApproveBegin(t, o) PROVE TypeInv'
  <2> DEFINE v == plans[orders[o].plan].vol
             j == OrderJob("ensure", o, v, sales.panel, pool # NoPool)
  <2>1. orders[o] \in OrderRow /\ sales.panel \in Panels
    BY <1>2 DEF ApproveBegin, TypeInv, TypeOK
  <2>2. v \in Nat
    BY <2>1, PlanFields DEF OrderRow
  <2>3. (pool # NoPool) \in BOOLEAN
    OBVIOUS
  <2>4. j \in Task /\ JobSound(j, Len(orders))
    BY <2>1, <2>2, <2>3, <1>c
  <2>5. Start(t, "approve", j)
        /\ UNCHANGED <<plans, orders, sales, pool, records, clients, draft>>
    BY <1>2 DEF ApproveBegin
  <2> QED  BY <2>4, <2>5, StartType
<1>3. ASSUME NEW o \in DOMAIN orders, RejectBegin(t, o) PROVE TypeInv'
  BY <1>3, <1>c, StartType DEF RejectBegin
<1>4. ASSUME NEW p \in 1..MaxPlan, HideBegin(t, p) PROVE TypeInv'
  BY <1>4, <1>b, PlanFields, StartType DEF HideBegin
<1>5. ASSUME NEW p \in 1..MaxPlan, DeleteBegin(t, p) PROVE TypeInv'
  BY <1>5, <1>b, StartType DEF DeleteBegin
<1> QED  BY <1>1, <1>2, <1>3, <1>4, <1>5 DEF Begin

-----------------------------------------------------------------------------
(* A running handler's step, by what it writes. *)

LEMMA ContinueType ==
  ASSUME TypeInv, NEW t \in Tasks, Continue(t)
  PROVE  TypeInv'
<1> USE GuestAssumptions
<1>0. /\ DOMAIN orders = 1..Len(orders) /\ Len(orders) \in Nat
      /\ \A o \in 1..Len(orders) : orders[o] \in OrderRow
      /\ task[t] \in Task /\ JobSound(task[t], Len(orders))
  BY DEF TypeInv, TypeOK, JobsSound
<1>1. CASE Submit(t)
  <2> DEFINE row == [guest |-> task[t].guest, plan |-> task[t].plan, status |-> "pending"]
  <2>1. row \in OrderRow
    BY <1>0, <1>1 DEF Submit, JobSound, OrderRow
  <2>2. orders' = Append(orders, row) /\ Len(orders) < MaxOrders
    BY <1>1 DEF Submit
  <2>3. orders' \in Seq(OrderRow) /\ Len(orders') = Len(orders) + 1
    BY <2>1, <2>2 DEF TypeInv, TypeOK
  <2>4. task' \in [Tasks -> Task] /\ JobsSound'
    BY <1>0, <1>1, <2>3, GotoType DEF Submit, Steps
  <2>5. TypeOK'
    BY <1>0, <1>1, <2>2, <2>3, <2>4 DEF Submit, TypeInv, TypeOK
  <2> QED  BY <2>4, <2>5 DEF TypeInv
<1>2. CASE ClearDraft(t)
  <2>1. task' \in [Tasks -> Task] /\ JobsSound'
    BY <1>0, <1>2, FinishType DEF ClearDraft
  <2> QED  BY <1>0, <1>2, <2>1 DEF ClearDraft, TypeInv, TypeOK, JobSound
<1>3. CASE Ensure(t)
  <2>1. UNCHANGED <<plans, orders, sales, records, clients, draft>> /\ task[t].pc = "ensure"
    BY <1>3 DEF Ensure
  <2>2. task[t].panel \in Panels
    BY <1>0, <2>1 DEF JobSound
  <2>3. pool' \in PoolRow
    BY <1>3, <2>2 DEF Ensure, TypeInv, TypeOK, PoolRow
  <2>4. task' \in [Tasks -> Task] /\ JobsSound'
    <3>1. CASE Finish(t)
      BY <1>0, <2>1, <3>1, FinishType
    <3>2. CASE task' = [task EXCEPT ![t].seen = TRUE]
      <4> DEFINE j == [task[t] EXCEPT !.seen = TRUE]
      <4>1. task[t] # Idle
        BY <2>1 DEF Idle, PlanJob, Job
      <4>2. j \in Task
        BY <1>0, <4>1 DEF Task
      <4>3. JobSound(j, Len(orders'))
        BY <1>0, <2>1, <4>1 DEF JobSound, Task
      <4>4. task' = [task EXCEPT ![t] = j]
        BY <3>2
      <4>5. Len(orders') \in Nat /\ Len(orders) <= Len(orders')
        BY <1>0, <2>1
      <4> HIDE DEF j
      <4> QED  BY <4>2, <4>3, <4>4, <4>5, JobType
    <3>3. CASE task' = [task EXCEPT ![t].pc = "grant", ![t].quota = pool.quota]
      <4> DEFINE j == [task[t] EXCEPT !.pc = "grant", !.quota = pool.quota]
      <4>1. task[t] # Idle
        BY <2>1 DEF Idle, PlanJob, Job
      <4>2. pool.quota \in Nat
        BY DEF TypeInv, TypeOK, PoolRow, NoPool
      <4>3. j \in Task
        BY <1>0, <4>1, <4>2 DEF Task, Steps
      <4>4. JobSound(j, Len(orders'))
        BY <1>0, <2>1, <4>1 DEF JobSound, Task, Approving
      <4>5. task' = [task EXCEPT ![t] = j]
        BY <3>3
      <4>6. Len(orders') \in Nat /\ Len(orders) <= Len(orders')
        BY <1>0, <2>1
      <4> HIDE DEF j
      <4> QED  BY <4>3, <4>4, <4>5, <4>6, JobType
    <3> QED  BY <1>3, <3>1, <3>2, <3>3 DEF Ensure
  <2> QED  BY <2>1, <2>3, <2>4 DEF TypeInv, TypeOK
<1>4. CASE Grant(t) \/ Charge(t)
  <2>1. UNCHANGED <<plans, orders, sales, records, clients, draft>>
        /\ task[t].pc \in {"grant", "charge"}
    BY <1>4 DEF Grant, Charge
  <2>2. task[t].quota \in Nat /\ task[t].vol \in Nat /\ task[t].lifetime \in Nat
    <3>1. task[t] # Idle
      BY <2>1 DEF Idle, PlanJob, Job
    <3> QED  BY <1>0, <3>1 DEF Task
  <2>3. pool' \in PoolRow
    <3>1. pool \in PoolRow
      BY DEF TypeInv, TypeOK
    <3>2. /\ task[t].quota + task[t].vol \in Nat
          /\ task[t].lifetime + task[t].vol \in Nat
      BY <2>2
    <3>3. \/ pool' = [pool EXCEPT !.quota = task[t].quota + task[t].vol]
          \/ pool' = [pool EXCEPT !.lifetime = task[t].lifetime + task[t].vol]
      BY <1>4 DEF Grant, Charge
    <3> QED  BY <3>1, <3>2, <3>3 DEF PoolRow
  <2>4. Goto(t, "check") \/ Goto(t, "mark")
    BY <1>4 DEF Grant, Charge
  <2>5. task' \in [Tasks -> Task] /\ JobsSound'
    BY <1>0, <2>1, <2>4, GotoType DEF Steps, Approving
  <2> QED  BY <2>1, <2>3, <2>5 DEF TypeInv, TypeOK
<1>5. CASE Check(t)
  <2>1. UNCHANGED <<plans, orders, sales, pool, records, clients, draft>>
        /\ task[t].pc = "check"
    BY <1>5 DEF Check
  <2>2. CASE Finish(t)
    <3>1. task' \in [Tasks -> Task] /\ JobsSound'
      BY <1>0, <2>1, <2>2, FinishType
    <3> QED  BY <2>1, <3>1 DEF TypeInv, TypeOK
  <2>3. CASE task' = [task EXCEPT ![t].pc = "probe", ![t].lifetime = pool.lifetime]
    <3> DEFINE j == [task[t] EXCEPT !.pc = "probe", !.lifetime = pool.lifetime]
    <3>1. task[t] # Idle
      BY <2>1 DEF Idle, PlanJob, Job
    <3>2. pool.lifetime \in Nat
      BY DEF TypeInv, TypeOK, PoolRow
    <3>3. j \in Task
      BY <1>0, <3>1, <3>2 DEF Task, Steps
    <3>4. JobSound(j, Len(orders'))
      BY <1>0, <2>1, <3>1 DEF JobSound, Task, Approving
    <3>5. task' = [task EXCEPT ![t] = j]
      BY <2>3
    <3>6. Len(orders') \in Nat /\ Len(orders) <= Len(orders')
      BY <1>0, <2>1
    <3> HIDE DEF j
    <3>7. task' \in [Tasks -> Task] /\ JobsSound'
      BY <3>3, <3>4, <3>5, <3>6, JobType
    <3> QED  BY <2>1, <3>7 DEF TypeInv, TypeOK
  <2> QED  BY <1>5, <2>2, <2>3 DEF Check
<1>6. CASE Probe(t) \/ Insert(t) \/ CreateClient(t) \/ Delivery(t) \/ Undo(t)
  <2>1. UNCHANGED <<plans, orders, sales, pool, draft>>
        /\ task[t].pc \in Approving
    BY <1>6 DEF Probe, Insert, CreateClient, Delivery, Undo, Approving
  <2>2. task[t].order \in DOMAIN orders
    BY <1>0, <2>1 DEF JobSound
  <2>3. records' \subseteq DOMAIN orders /\ clients' \subseteq DOMAIN orders
    BY <1>6, <2>2 DEF Probe, Insert, CreateClient, Delivery, Undo, TypeInv, TypeOK
  <2>4. \/ Finish(t)
        \/ \E step \in {"insert", "panel", "delivery", "undo", "charge"} : Goto(t, step)
    BY <1>6 DEF Probe, Insert, CreateClient, Delivery, Undo
  <2>5. task' \in [Tasks -> Task] /\ JobsSound'
    BY <1>0, <2>1, <2>4, GotoType, FinishType DEF Steps, Approving
  <2> QED  BY <2>1, <2>3, <2>5 DEF TypeInv, TypeOK
<1>7. CASE Mark(t) \/ Reject(t)
  <2>1. PICK st \in {"approved", "rejected"} :
          orders' = [orders EXCEPT ![task[t].order].status = st]
    BY <1>7 DEF Mark, Reject
  <2>2. UNCHANGED <<plans, sales, pool, records, clients, draft>> /\ Finish(t)
        /\ task[t].pc \in {"mark", "reject"}
    BY <1>7 DEF Mark, Reject
  <2>3. orders' \in Seq(OrderRow) /\ Len(orders') = Len(orders)
    <3>1. task[t].order \in 1..Len(orders)
      BY <1>0, <2>2 DEF JobSound, Approving
    <3>2. [orders[task[t].order] EXCEPT !.status = st] \in OrderRow
      BY <1>0, <3>1 DEF OrderRow
    <3>3. orders \in Seq(OrderRow)
      BY DEF TypeInv, TypeOK
    <3> QED  BY <2>1, <3>1, <3>2, <3>3
  <2>4. task' \in [Tasks -> Task] /\ JobsSound'
    BY <1>0, <2>2, <2>3, FinishType
  <2> QED  BY <1>0, <2>2, <2>3, <2>4 DEF TypeInv, TypeOK
<1>8. CASE Hide(t) \/ Drop(t)
  <2>1. UNCHANGED <<orders, sales, pool, records, clients, draft>> /\ Finish(t)
        /\ task[t].pc \in {"hide", "drop"}
    BY <1>8 DEF Hide, Drop
  <2>2. task[t].seen \in BOOLEAN
    <3>1. task[t] # Idle
      BY <2>1 DEF Idle, PlanJob, Job
    <3> QED  BY <1>0, <3>1 DEF Task
  <2>3. plans' \in [1..MaxPlan -> PlanRow]
    <3>1. CASE plans' = plans
      BY <3>1 DEF TypeInv, TypeOK
    <3>2. CASE plans' = [plans EXCEPT ![task[t].plan] = NoPlan]
      BY <3>2 DEF TypeInv, TypeOK, PlanRow
    <3>3. CASE /\ plans[task[t].plan] # NoPlan
               /\ plans' = [plans EXCEPT ![task[t].plan].active = ~task[t].seen]
      <4>1. task[t].plan \in 1..MaxPlan
        BY <1>0, <2>1 DEF JobSound
      <4>2. plans[task[t].plan] \in [vol : Volumes, active : BOOLEAN]
        BY <3>3, <4>1 DEF TypeInv, TypeOK, PlanRow
      <4>3. [plans[task[t].plan] EXCEPT !.active = ~task[t].seen] \in PlanRow
        BY <4>2 DEF PlanRow
      <4> QED  BY <3>3, <4>3 DEF TypeInv, TypeOK
    <3> QED  BY <1>8, <3>1, <3>2, <3>3 DEF Hide, Drop
  <2>4. task' \in [Tasks -> Task] /\ JobsSound'
    BY <1>0, <2>1, FinishType
  <2> QED  BY <2>1, <2>3, <2>4 DEF TypeInv, TypeOK
<1> QED  BY <1>1, <1>2, <1>3, <1>4, <1>5, <1>6, <1>7, <1>8 DEF Continue

LEMMA SettingsType ==
  ASSUME TypeInv, Settings
  PROVE  TypeInv'
<1> USE GuestAssumptions
<1>1. UNCHANGED <<orders, pool, records, clients, task>>
  BY DEF Settings, PickPlan, Offer, Configure, ToggleSales
<1>2. plans' \in [1..MaxPlan -> PlanRow]
  <2>1. ASSUME NEW p \in 1..MaxPlan, NEW v \in Volumes, Offer(p, v)
        PROVE  plans' \in [1..MaxPlan -> PlanRow]
    <3>1. [vol |-> v, active |-> TRUE] \in PlanRow
      BY DEF PlanRow
    <3> QED  BY <2>1, <3>1 DEF Offer, TypeInv, TypeOK
  <2>2. CASE UNCHANGED plans
    BY <2>2 DEF TypeInv, TypeOK
  <2> QED  BY <2>1, <2>2 DEF Settings, PickPlan, Configure, ToggleSales
<1>3. sales' \in [panel : Panels \cup {"none"}, enabled : BOOLEAN]
  BY DEF Settings, PickPlan, Offer, Configure, ToggleSales, TypeInv, TypeOK
<1>4. draft' \in [Guests -> 0..MaxPlan]
  <2>1. draft \in [Guests -> 0..MaxPlan]
    BY DEF TypeInv, TypeOK
  <2>2. CASE \E g \in Guests, p \in 1..MaxPlan : PickPlan(g, p)
    BY <2>1, <2>2 DEF PickPlan
  <2>3. CASE UNCHANGED draft
    BY <2>1, <2>3
  <2> QED  BY <2>2, <2>3 DEF Settings, Offer, Configure, ToggleSales
<1> QED  BY <1>1, <1>2, <1>3, <1>4 DEF TypeInv, TypeOK, JobsSound

LEMMA CrashType == ASSUME TypeInv, Crash PROVE TypeInv'
<1>1. Idle \in Task /\ Idle.pc = "idle"
  BY DEF Task, Idle, PlanJob, Job
<1>2. JobsSound'
  BY <1>1 DEF Crash, JobsSound, JobSound, Approving
<1>3. TypeOK'
  BY <1>1, GuestAssumptions DEF Crash, TypeInv, TypeOK
<1> QED  BY <1>2, <1>3 DEF TypeInv

LEMMA TypeInvariant == CrashSpec => []TypeInv
<1>1. Init => TypeInv
  BY InitType
<1>2. TypeInv /\ [Next \/ Crash]_vars => TypeInv'
  <2> SUFFICES ASSUME TypeInv, [Next \/ Crash]_vars PROVE TypeInv'
    OBVIOUS
  <2>1. CASE UNCHANGED vars
    BY <2>1 DEF vars, TypeInv, TypeOK, JobsSound
  <2> QED  BY <2>1, BeginType, ContinueType, SettingsType, CrashType DEF Next
<1> QED  BY <1>1, <1>2, PTL DEF CrashSpec

(* Every table row, conversation and handler of guest sales has its type;  *)
(* in particular a handler's cached order is always a row of guest_orders. *)
THEOREM TypeCorrect == CrashSpec => []TypeOK
<1>1. TypeInv => TypeOK
  BY DEF TypeInv
<1> QED  BY <1>1, TypeInvariant, PTL

-----------------------------------------------------------------------------
(* One order per guest. *)

(* Two receipts of a guest that have both looked have met; and one that    *)
(* has looked while an order of its guest waits has met the receipt of     *)
(* that order.                                                             *)
LookedMet ==
    \A t, u \in Tasks :
        /\ task[t].pc = "submit" /\ task[u].pc = "submit"
        /\ task[t].guest = task[u].guest
        /\ t # u
        => t \in met
WaitingMet ==
    \A t \in Tasks, o \in DOMAIN orders :
        /\ task[t].pc = "submit"
        /\ Pending(o) /\ orders[o].guest = task[t].guest
        => t \in met /\ o \in twins

PendingInv == TypeInv /\ LookedMet /\ WaitingMet /\ OnePendingPerGuest

(* A step after which no order is pending that was not before. *)
NoNewPending ==
    \A o \in DOMAIN orders' :
        /\ o \in DOMAIN orders
        /\ orders'[o].guest = orders[o].guest
        /\ orders'[o].status = "pending" => orders[o].status = "pending"

(* A step that gives no handler an order to add. *)
NoNewReceipt == \A t \in Tasks : task'[t].pc = "submit" => task'[t] = task[t]

(* A handler that has met another stays so until it inserts, and an order  *)
(* keeps its history.                                                      *)
LEMMA MetStays ==
  ASSUME Remember
  PROVE  /\ \A t \in met : t \in Tasks /\ task'[t].pc = "submit" => t \in met'
         /\ twins \subseteq twins'
BY DEF Remember

(* After any step, receipts that have looked together have met. *)
LEMMA LookedMeet ==
  ASSUME TypeInv', Remember
  PROVE  LookedMet'
<1> SUFFICES ASSUME NEW t \in Tasks, NEW u \in Tasks, t # u,
                    task'[t].pc = "submit", task'[u].pc = "submit",
                    task'[t].guest = task'[u].guest
             PROVE  t \in met'
  BY DEF LookedMet
<1>1. task'[t].guest \in Guests
  BY DEF TypeInv, JobsSound, JobSound
<1>2. t \in Looked(task[t].guest)' /\ Looked(task[t].guest)' # {t}
  BY DEF Looked
<1>3. Meets(t)'
  BY <1>1, <1>2 DEF Meets, Looked
<1> QED  BY <1>3 DEF Remember

LEMMA QuietPending ==
  ASSUME PendingInv, TypeInv', Remember, NoNewPending, NoNewReceipt
  PROVE  PendingInv'
<1>1. WaitingMet'
  <2> SUFFICES ASSUME NEW t \in Tasks, NEW o \in DOMAIN orders',
                      task'[t].pc = "submit", orders'[o].status = "pending",
                      orders'[o].guest = task'[t].guest
               PROVE  t \in met' /\ o \in twins'
    BY DEF WaitingMet, Pending
  <2>1. task'[t] = task[t]
    BY DEF NoNewReceipt
  <2>2. o \in DOMAIN orders /\ Pending(o) /\ orders[o].guest = task[t].guest
    BY <2>1 DEF NoNewPending, Pending
  <2>3. t \in met /\ o \in twins
    BY <2>1, <2>2 DEF PendingInv, WaitingMet
  <2> QED  BY <2>3, MetStays
<1>2. OnePendingPerGuest'
  BY MetStays DEF NoNewPending, PendingInv, OnePendingPerGuest, Pending
<1> QED  BY <1>1, <1>2, LookedMeet DEF PendingInv

LEMMA BeginPending ==
  ASSUME PendingInv, TypeInv', Remember, NEW t \in Tasks, Begin(t)
  PROVE  PendingInv'
<1>0. orders' = orders /\ task[t] = Idle /\ task \in [Tasks -> Task]
  BY DEF Begin, ReceiptBegin, ApproveBegin, RejectBegin, HideBegin, DeleteBegin, Start,
         PendingInv, TypeInv, TypeOK
<1>1. NoNewPending
  BY <1>0 DEF NoNewPending
<1>2. ASSUME NEW op, NEW j, j.pc # "submit", Start(t, op, j)
      PROVE  NoNewReceipt
  BY <1>0, <1>2 DEF Start, NoNewReceipt
<1>3. ASSUME NEW g \in Guests, ReceiptBegin(t, g) PROVE PendingInv'
  <2>1. CASE ~HasPending(g) /\ Start(t, "receipt", GuestJob("submit", g, draft[g]))
    <3>1. /\ \A u \in Tasks \ {t} : task'[u] = task[u]
          /\ task'[t].guest = g
      BY <1>0, <2>1 DEF Start, GuestJob, Job
    <3>2. ASSUME NEW u \in Tasks, NEW o \in DOMAIN orders,
                 task'[u].pc = "submit", Pending(o), orders[o].guest = task'[u].guest
          PROVE  u \in met' /\ o \in twins'
      <4>1. u # t
        BY <2>1, <3>1, <3>2 DEF HasPending
      <4>2. u \in met /\ o \in twins
        BY <3>1, <3>2, <4>1 DEF PendingInv, WaitingMet
      <4> QED  BY <3>2, <4>2, MetStays
    <3>3. WaitingMet'
      BY <1>0, <3>2 DEF WaitingMet, Pending
    <3>4. OnePendingPerGuest'
      BY <1>0, MetStays DEF PendingInv, OnePendingPerGuest, Pending
    <3> QED  BY <3>3, <3>4, LookedMeet DEF PendingInv
  <2>2. CASE Start(t, "receipt", GuestJob("clear", g, 0))
    <3>1. GuestJob("clear", g, 0).pc # "submit"
      BY DEF GuestJob, Job
    <3> QED  BY <1>1, <1>2, <2>2, <3>1, QuietPending
  <2> QED  BY <1>3, <2>1, <2>2 DEF ReceiptBegin
<1>4. ASSUME NEW o \in DOMAIN orders, ApproveBegin(t, o) \/ RejectBegin(t, o)
      PROVE  NoNewReceipt
  BY <1>4, <1>2 DEF ApproveBegin, RejectBegin, OrderJob, Job
<1>5. ASSUME NEW p \in 1..MaxPlan, HideBegin(t, p) \/ DeleteBegin(t, p)
      PROVE  NoNewReceipt
  BY <1>5, <1>2 DEF HideBegin, DeleteBegin, PlanJob, Job
<1> QED  BY <1>1, <1>3, <1>4, <1>5, QuietPending DEF Begin

(* The handler that inserts an order. *)
LEMMA SubmitPending ==
  ASSUME PendingInv, TypeInv', Remember, NEW t \in Tasks, Submit(t),
         \A u \in Tasks \ {t} : task'[u] = task[u], task'[t].pc # "submit"
  PROVE  PendingInv'
<1> DEFINE g == task[t].guest
           n == Len(orders) + 1
<1>1. /\ orders \in Seq(OrderRow) /\ task[t].pc = "submit"
      /\ DOMAIN orders = 1..Len(orders) /\ Len(orders) \in Nat
  BY DEF PendingInv, TypeInv, TypeOK, Submit
<1>2. /\ DOMAIN orders' = 1..n
      /\ orders'[n].guest = g
      /\ \A o \in 1..Len(orders) : orders'[o] = orders[o]
  BY <1>1 DEF Submit
<1>3. t \in met => n \in twins'
  BY <1>1, <1>2 DEF Remember, Inserts
<1>4. ASSUME NEW o \in 1..Len(orders), orders[o].status = "pending", orders[o].guest = g
      PROVE  {o, n} \subseteq twins'
  <2>1. t \in met /\ o \in twins
    BY <1>1, <1>4 DEF PendingInv, WaitingMet, Pending
  <2> QED  BY <1>3, <2>1, MetStays
<1>5. OnePendingPerGuest'
  <2> SUFFICES ASSUME NEW o \in 1..n, NEW p \in 1..n,
                      orders'[o].status = "pending", orders'[p].status = "pending",
                      orders'[o].guest = orders'[p].guest
               PROVE  o = p \/ {o, p} \subseteq twins'
    BY <1>2 DEF OnePendingPerGuest, Pending
  <2>1. CASE o # n /\ p # n
    <3>1. o \in 1..Len(orders) /\ p \in 1..Len(orders)
      BY <1>1, <2>1
    <3>2. o = p \/ {o, p} \subseteq twins
      BY <1>1, <1>2, <3>1 DEF PendingInv, OnePendingPerGuest, Pending
    <3> QED  BY <3>2, MetStays
  <2>2. CASE o = n /\ p # n
    BY <1>1, <1>2, <1>4, <2>2
  <2>3. CASE o # n /\ p = n
    BY <1>1, <1>2, <1>4, <2>3
  <2> QED  BY <2>1, <2>2, <2>3
<1>6. WaitingMet'
  <2> SUFFICES ASSUME NEW u \in Tasks, NEW o \in 1..n,
                      task'[u].pc = "submit", orders'[o].status = "pending",
                      orders'[o].guest = task'[u].guest
               PROVE  u \in met' /\ o \in twins'
    BY <1>2 DEF WaitingMet, Pending
  <2>1. u # t /\ task'[u] = task[u]
    OBVIOUS
  <2>2. CASE o # n
    <3>1. o \in 1..Len(orders)
      BY <1>1, <2>2
    <3>2. u \in met /\ o \in twins
      BY <1>1, <1>2, <2>1, <3>1 DEF PendingInv, WaitingMet, Pending
    <3> QED  BY <3>2, MetStays
  <2>3. CASE o = n
    <3>1. task[u].guest = task[t].guest /\ task[u].pc = "submit"
      BY <1>2, <2>1, <2>3
    <3>2. t \in met /\ u \in met
      BY <1>1, <2>1, <3>1 DEF PendingInv, LookedMet
    <3> QED  BY <1>3, <2>3, <3>2, MetStays
  <2> QED  BY <2>2, <2>3
<1> QED  BY <1>5, <1>6, LookedMeet DEF PendingInv

LEMMA ContinuePending ==
  ASSUME PendingInv, TypeInv', Remember, NEW t \in Tasks, Continue(t)
  PROVE  PendingInv'
<1>0. /\ task \in [Tasks -> Task] /\ orders \in Seq(OrderRow)
      /\ JobSound(task[t], Len(orders))
  BY DEF PendingInv, TypeInv, TypeOK, JobsSound
<1>1. Idle.pc = "idle"
  BY DEF Idle, PlanJob, Job
<1>2. /\ \A u \in Tasks \ {t} : task'[u] = task[u]
      /\ task'[t].pc # "submit"
  <2>1. CASE Finish(t)
    BY <1>0, <1>1, <2>1 DEF Finish
  <2>2. task[t] # Idle
    BY <1>1 DEF Continue, Submit, ClearDraft, Ensure, Grant, Check, Probe, Insert, CreateClient,
                Delivery, Undo, Charge, Mark, Reject, Hide, Drop
  <2>3. ASSUME NEW step \in Steps \ {"submit"}, Goto(t, step)
        PROVE  /\ \A u \in Tasks \ {t} : task'[u] = task[u]
               /\ task'[t].pc = step
    BY <1>0, <2>2, <2>3 DEF Goto, Task
  <2>4. CASE \E step \in Steps \ {"submit"} : Goto(t, step)
    BY <2>3, <2>4
  <2>5. CASE Ensure(t) \/ Check(t)
    BY <1>0, <2>1, <2>2, <2>5 DEF Ensure, Check, Task
  <2> QED  BY <2>1, <2>4, <2>5
           DEF Continue, Submit, ClearDraft, Grant, Probe, Insert, CreateClient,
               Delivery, Undo, Charge, Mark, Reject, Hide, Drop, Steps
<1>3. CASE Submit(t)
  BY <1>2, <1>3, SubmitPending
<1>4. CASE ~Submit(t)
  <2>1. NoNewReceipt
    BY <1>2 DEF NoNewReceipt
  <2>2. NoNewPending
    <3>1. CASE Mark(t) \/ Reject(t)
      <4> DEFINE o == task[t].order
      <4>1. PICK s \in {"approved", "rejected"} : orders' = [orders EXCEPT ![o].status = s]
        BY <3>1 DEF Mark, Reject
      <4>2. \A k \in DOMAIN orders : orders[k] \in OrderRow
        BY <1>0
      <4>3. DOMAIN orders' = DOMAIN orders
        BY <1>0, <4>1
      <4>4. \A k \in DOMAIN orders :
               /\ orders'[k].guest = orders[k].guest
               /\ orders'[k].status = "pending" => orders[k].status = "pending"
        BY <1>0, <4>1, <4>2 DEF OrderRow
      <4> QED  BY <4>3, <4>4 DEF NoNewPending
    <3>2. CASE orders' = orders
      BY <3>2 DEF NoNewPending
    <3> QED  BY <1>4, <3>1, <3>2
             DEF Continue, ClearDraft, Ensure, Grant, Check, Probe, Insert, CreateClient,
                 Delivery, Undo, Charge, Hide, Drop
  <2> QED  BY <2>1, <2>2, QuietPending
<1> QED  BY <1>3, <1>4

(* However many receipts of however many guests cross, and whenever the    *)
(* process ends, two orders of one guest wait at the same time only when   *)
(* each was inserted by a receipt that met another of the guest between    *)
(* its look for a pending order and its insertion.                         *)
THEOREM OneOrderAtATime == ReceiptSpec => []OnePendingPerGuest
<1>1. ReceiptInit => TypeInv /\ PendingInv
  <2> SUFFICES ASSUME ReceiptInit PROVE TypeInv /\ PendingInv
    OBVIOUS
  <2>1. LookedMet /\ WaitingMet /\ OnePendingPerGuest
    BY DEF ReceiptInit, Init, LookedMet, WaitingMet, OnePendingPerGuest, Idle, PlanJob, Job
  <2> QED  BY <2>1, InitType DEF PendingInv, ReceiptInit
<1>2. PendingInv /\ [ReceiptNext]_receiptVars => PendingInv'
  <2> SUFFICES ASSUME PendingInv, [ReceiptNext]_receiptVars PROVE PendingInv'
    OBVIOUS
  <2>1. CASE UNCHANGED receiptVars
    <3>1. TypeInv'
      BY <2>1 DEF receiptVars, vars, PendingInv, TypeInv, TypeOK, JobsSound
    <3> QED  BY <2>1, <3>1 DEF receiptVars, vars, PendingInv, LookedMet, WaitingMet,
                               OnePendingPerGuest, Pending
  <2>2. CASE ReceiptNext
    <3>1. TypeInv' /\ Remember
      BY <2>2, BeginType, ContinueType, SettingsType, CrashType
         DEF ReceiptNext, Next, PendingInv
    <3>2. CASE Settings
      <4>1. orders' = orders /\ task' = task
        BY <3>2 DEF Settings, PickPlan, Offer, Configure, ToggleSales
      <4> QED  BY <3>1, <4>1, QuietPending DEF NoNewPending, NoNewReceipt
    <3>3. CASE Crash
      <4>1. NoNewPending
        BY <3>3 DEF Crash, NoNewPending
      <4>2. NoNewReceipt
        BY <3>3 DEF Crash, NoNewReceipt, Idle, PlanJob, Job
      <4> QED  BY <3>1, <4>1, <4>2, QuietPending
    <3> QED  BY <2>2, <3>1, <3>2, <3>3, BeginPending, ContinuePending DEF ReceiptNext, Next
  <2> QED  BY <2>1, <2>2
<1>3. PendingInv => OnePendingPerGuest
  BY DEF PendingInv
<1> QED  BY <1>1, <1>2, <1>3, PTL DEF ReceiptSpec

-----------------------------------------------------------------------------
(* The service of an approved order. *)

Holding == {"panel", "delivery", "undo", "charge", "mark"}
Created == {"delivery", "charge", "mark"}

(* One handler at most is creating the service of an order, and it has put *)
(* the order's record in the table and, once created, its client on the    *)
(* panel; an approved order has both and nobody holds it any more.         *)
HeldOnce ==
    \A t, u \in Tasks :
        /\ task[t].pc \in Holding /\ task[u].pc \in Holding
        /\ task[t].order = task[u].order
        => t = u
HeldRecorded ==
    \A t \in Tasks :
        /\ task[t].pc \in Holding => task[t].order \in records
        /\ task[t].pc \in Created => task[t].order \in clients
ApprovedReleased ==
    \A o \in DOMAIN orders : orders[o].status = "approved" =>
        \A t \in Tasks : task[t].pc \in Holding => task[t].order # o

ServiceInv ==
    TypeInv /\ HeldOnce /\ HeldRecorded /\ ApprovedReleased /\ ApprovedHasService

(* A step that takes nothing out of the tables or the panel, approves no   *)
(* order and gives no handler an order to hold.                            *)
KeepsServices ==
    /\ records \subseteq records' /\ clients \subseteq clients'
    /\ \A o \in DOMAIN orders' : orders'[o].status = "approved" =>
          o \in DOMAIN orders /\ orders[o].status = "approved"
    /\ \A t \in Tasks :
          /\ task'[t].pc \in Holding =>
                task[t].pc \in Holding /\ task'[t].order = task[t].order
          /\ task'[t].pc \in Created =>
                task[t].pc \in Created \/ task'[t].order \in clients'

LEMMA KeepsServiceInv ==
  ASSUME ServiceInv, TypeInv', KeepsServices
  PROVE  ServiceInv'
<1>1. HeldOnce'
  BY DEF KeepsServices, ServiceInv, HeldOnce
<1>2. HeldRecorded'
  <2> SUFFICES ASSUME NEW t \in Tasks
               PROVE  /\ task'[t].pc \in Holding => task'[t].order \in records'
                      /\ task'[t].pc \in Created => task'[t].order \in clients'
    BY DEF HeldRecorded
  <2>1. Created \subseteq Holding
    BY DEF Created, Holding
  <2> QED  BY <2>1 DEF KeepsServices, ServiceInv, HeldRecorded
<1>3. ApprovedReleased'
  BY DEF KeepsServices, ServiceInv, ApprovedReleased
<1>4. ApprovedHasService'
  BY DEF KeepsServices, ServiceInv, ApprovedHasService
<1> QED  BY <1>1, <1>2, <1>3, <1>4 DEF ServiceInv

LEMMA GotoEffect ==
  ASSUME TypeInv, NEW t \in Tasks, task[t].pc # "idle", NEW step, Goto(t, step)
  PROVE  /\ \A u \in Tasks \ {t} : task'[u] = task[u]
         /\ task'[t].pc = step /\ task'[t].order = task[t].order
<1>1. task[t] \in Task \ {Idle}
  BY DEF TypeInv, TypeOK, Idle, PlanJob, Job
<1> QED  BY <1>1 DEF Goto, Task, TypeInv, TypeOK

LEMMA FinishEffect ==
  ASSUME TypeInv, NEW t \in Tasks, Finish(t)
  PROVE  /\ \A u \in Tasks \ {t} : task'[u] = task[u]
         /\ task'[t].pc = "idle"
BY DEF Finish, Idle, PlanJob, Job, TypeInv, TypeOK

LEMMA BeginServices ==
  ASSUME ServiceInv, TypeInv', NEW t \in Tasks, Begin(t)
  PROVE  ServiceInv'
<1>1. orders' = orders /\ records' = records /\ clients' = clients
  BY DEF Begin, ReceiptBegin, ApproveBegin, RejectBegin, HideBegin, DeleteBegin
<1>2. ASSUME NEW op, NEW j, j.pc \notin Holding, Start(t, op, j)
      PROVE  /\ \A u \in Tasks \ {t} : task'[u] = task[u]
             /\ task'[t].pc \notin Holding
  BY <1>2 DEF Start, ServiceInv, TypeInv, TypeOK
<1>3. ASSUME NEW step \in {"submit", "clear", "ensure", "reject", "hide", "drop"},
             NEW g, NEW p, NEW o, NEW v, NEW x, NEW b
      PROVE  Job(step, g, p, o, v, x, b).pc \notin Holding
  BY <1>3 DEF Job, Holding
<1>4. /\ \A u \in Tasks \ {t} : task'[u] = task[u]
      /\ task'[t].pc \notin Holding
  <2>1. CASE \E g \in Guests : ReceiptBegin(t, g)
    BY <1>2, <1>3, <2>1 DEF ReceiptBegin, GuestJob
  <2>2. CASE \E o \in DOMAIN orders : ApproveBegin(t, o) \/ RejectBegin(t, o)
    BY <1>2, <1>3, <2>2 DEF ApproveBegin, RejectBegin, OrderJob
  <2>3. CASE \E p \in 1..MaxPlan : HideBegin(t, p) \/ DeleteBegin(t, p)
    BY <1>2, <1>3, <2>3 DEF HideBegin, DeleteBegin, PlanJob
  <2> QED  BY <2>1, <2>2, <2>3 DEF Begin
<1>5. KeepsServices
  <2>1. Created \subseteq Holding
    BY DEF Created, Holding
  <2> QED  BY <1>1, <1>4, <2>1 DEF KeepsServices
<1> QED  BY <1>5, KeepsServiceInv

(* The steps of a handler that take on, give up or settle an order. *)
LEMMA InsertServices ==
  ASSUME ServiceInv, TypeInv', NEW t \in Tasks, Insert(t)
  PROVE  ServiceInv'
<1> DEFINE k == task[t].order
<1>1. TypeInv /\ task[t].pc # "idle" /\ orders' = orders /\ clients' = clients
  BY DEF ServiceInv, Insert
<1>2. CASE k \in records
  <2>1. records' = records /\ Finish(t)
    BY <1>2 DEF Insert
  <2>2. KeepsServices
    BY <1>1, <2>1, FinishEffect DEF KeepsServices, Holding, Created
  <2> QED  BY <2>2, KeepsServiceInv
<1>3. CASE k \notin records
  <2>1. /\ records' = records \cup {k}
        /\ \A u \in Tasks \ {t} : task'[u] = task[u]
        /\ task'[t].pc = "panel" /\ task'[t].order = k
    BY <1>1, <1>3, GotoEffect DEF Insert
  <2>2. \A u \in Tasks : task[u].pc \in Holding => task[u].order # k
    BY <1>3 DEF ServiceInv, HeldRecorded
  <2>3. "panel" \notin Created
    BY DEF Created
  <2>4. HeldOnce'
    BY <2>1, <2>2 DEF ServiceInv, HeldOnce
  <2>5. HeldRecorded'
    BY <1>1, <2>1, <2>3 DEF ServiceInv, HeldRecorded
  <2>6. \A o \in DOMAIN orders : orders[o].status = "approved" => o # k
    BY <1>3 DEF ServiceInv, ApprovedHasService
  <2>7. ApprovedReleased'
    BY <1>1, <2>1, <2>6 DEF ServiceInv, ApprovedReleased
  <2>8. ApprovedHasService'
    BY <1>1, <2>1 DEF ServiceInv, ApprovedHasService
  <2> QED  BY <2>4, <2>5, <2>7, <2>8 DEF ServiceInv
<1> QED  BY <1>2, <1>3

LEMMA UndoServices ==
  ASSUME ServiceInv, TypeInv', NEW t \in Tasks, Undo(t)
  PROVE  ServiceInv'
<1> DEFINE k == task[t].order
<1>1. /\ TypeInv /\ orders' = orders /\ clients' = clients /\ records' = records \ {k}
      /\ task[t].pc \in Holding
      /\ \A u \in Tasks \ {t} : task'[u] = task[u]
      /\ task'[t].pc = "idle"
  BY FinishEffect DEF ServiceInv, Undo, Holding
<1>2. "idle" \notin Holding /\ Created \subseteq Holding
  BY DEF Holding, Created
<1>3. \A u \in Tasks \ {t} : task[u].pc \in Holding => task[u].order # k
  BY <1>1 DEF ServiceInv, HeldOnce
<1>4. HeldOnce'
  BY <1>1, <1>2 DEF ServiceInv, HeldOnce
<1>5. HeldRecorded'
  BY <1>1, <1>2, <1>3 DEF ServiceInv, HeldRecorded
<1>6. ApprovedReleased'
  BY <1>1, <1>2 DEF ServiceInv, ApprovedReleased
<1>7. \A o \in DOMAIN orders : orders[o].status = "approved" => o # k
  BY <1>1 DEF ServiceInv, ApprovedReleased
<1>8. ApprovedHasService'
  BY <1>1, <1>7 DEF ServiceInv, ApprovedHasService
<1> QED  BY <1>4, <1>5, <1>6, <1>8 DEF ServiceInv

LEMMA MarkServices ==
  ASSUME ServiceInv, TypeInv', NEW t \in Tasks, Mark(t)
  PROVE  ServiceInv'
<1> DEFINE k == task[t].order
<1>1. /\ TypeInv /\ clients' = clients /\ records' = records
      /\ task[t].pc = "mark"
      /\ \A u \in Tasks \ {t} : task'[u] = task[u]
      /\ task'[t].pc = "idle"
  BY FinishEffect DEF ServiceInv, Mark
<1>2. "idle" \notin Holding /\ Created \subseteq Holding /\ "mark" \in Created
  BY DEF Holding, Created
<1>3. /\ DOMAIN orders' = DOMAIN orders
      /\ \A o \in DOMAIN orders \ {k} : orders'[o] = orders[o]
  BY DEF Mark, ServiceInv, TypeInv, TypeOK
<1>4. \A u \in Tasks \ {t} : task[u].pc \in Holding => task[u].order # k
  BY <1>1, <1>2 DEF ServiceInv, HeldOnce
<1>5. k \in records /\ k \in clients
  BY <1>1, <1>2 DEF ServiceInv, HeldRecorded
<1>6. HeldOnce'
  BY <1>1, <1>2 DEF ServiceInv, HeldOnce
<1>7. HeldRecorded'
  BY <1>1, <1>2 DEF ServiceInv, HeldRecorded
<1>8. ApprovedReleased'
  BY <1>1, <1>2, <1>3, <1>4 DEF ServiceInv, ApprovedReleased
<1>9. ApprovedHasService'
  BY <1>1, <1>3, <1>5 DEF ServiceInv, ApprovedHasService
<1> QED  BY <1>6, <1>7, <1>8, <1>9 DEF ServiceInv

LEMMA ContinueServices ==
  ASSUME ServiceInv, TypeInv', NEW t \in Tasks, Continue(t)
  PROVE  ServiceInv'
<1>0. /\ TypeInv /\ task \in [Tasks -> Task] /\ orders \in Seq(OrderRow)
      /\ JobSound(task[t], Len(orders))
  BY DEF ServiceInv, TypeInv, TypeOK, JobsSound
<1>1. Created \subseteq Holding /\ "idle" \notin Holding
  BY DEF Created, Holding
<1>2. ASSUME records' = records, clients' = clients, orders' = orders,
             \A u \in Tasks \ {t} : task'[u] = task[u], task'[t].pc \notin Holding
      PROVE  ServiceInv'
  <2>1. KeepsServices
    BY <1>1, <1>2 DEF KeepsServices
  <2> QED  BY <2>1, KeepsServiceInv
<1>3. CASE Submit(t)
  <2>1. /\ \A u \in Tasks \ {t} : task'[u] = task[u]
        /\ task'[t].pc \notin Holding
    BY <1>0, <1>3, GotoEffect DEF Submit, Holding
  <2>2. \A o \in DOMAIN orders' : orders'[o].status = "approved" =>
          o \in DOMAIN orders /\ orders[o].status = "approved"
    BY <1>0, <1>3 DEF Submit
  <2>3. KeepsServices
    BY <1>1, <1>3, <2>1, <2>2 DEF Submit, KeepsServices
  <2> QED  BY <2>3, KeepsServiceInv
<1>4. CASE ClearDraft(t) \/ Hide(t) \/ Drop(t)
  BY <1>0, <1>1, <1>2, <1>4, FinishEffect DEF ClearDraft, Hide, Drop
<1>5. CASE Grant(t) \/ Probe(t)
  BY <1>0, <1>1, <1>2, <1>5, FinishEffect, GotoEffect DEF Grant, Probe, Holding
<1>6. CASE Ensure(t) \/ Check(t)
  <2>1. /\ \A u \in Tasks \ {t} : task'[u] = task[u]
        /\ task'[t].pc \notin Holding
    <3>1. CASE Finish(t)
      BY <1>0, <1>1, <3>1, FinishEffect
    <3>2. task[t] # Idle
      BY <1>6 DEF Ensure, Check, Idle, PlanJob, Job
    <3>3. task[t] \in Task \ {Idle}
      BY <1>0, <3>2
    <3> QED  BY <1>0, <1>6, <3>1, <3>3 DEF Ensure, Check, Task, Holding
  <2> QED  BY <1>2, <1>6, <2>1 DEF Ensure, Check
<1>7. CASE Reject(t)
  <2>1. /\ \A u \in Tasks \ {t} : task'[u] = task[u]
        /\ task'[t].pc \notin Holding
    BY <1>0, <1>1, <1>7, FinishEffect DEF Reject
  <2>2. \A o \in DOMAIN orders' : orders'[o].status = "approved" =>
          o \in DOMAIN orders /\ orders[o].status = "approved"
    BY <1>0, <1>7 DEF Reject, OrderRow
  <2>3. KeepsServices
    BY <1>1, <1>7, <2>1, <2>2 DEF Reject, KeepsServices
  <2> QED  BY <2>3, KeepsServiceInv
<1>8. CASE CreateClient(t) \/ Delivery(t) \/ Charge(t)
  <2>1. records' = records /\ orders' = orders /\ clients \subseteq clients'
    BY <1>8 DEF CreateClient, Delivery, Charge
  <2>2. task[t].pc \in Holding
    BY <1>8 DEF CreateClient, Delivery, Charge, Holding
  <2>3. \E step \in Holding : Goto(t, step)
    BY <1>8 DEF CreateClient, Delivery, Charge, Holding
  <2>4. /\ \A u \in Tasks \ {t} : task'[u] = task[u]
        /\ task'[t].order = task[t].order
    BY <1>0, <1>1, <2>2, <2>3, GotoEffect
  <2>5. task'[t].pc \in Created => task[t].pc \in Created \/ task[t].order \in clients'
    <3>1. CASE CreateClient(t)
      BY <1>0, <1>1, <2>2, <3>1, GotoEffect DEF CreateClient, Created
    <3>2. CASE Delivery(t) \/ Charge(t)
      BY <3>2 DEF Delivery, Charge, Created
    <3> QED  BY <1>8, <3>1, <3>2
  <2>6. KeepsServices
    BY <1>1, <2>1, <2>2, <2>4, <2>5 DEF KeepsServices
  <2> QED  BY <2>6, KeepsServiceInv
<1> QED  BY <1>3, <1>4, <1>5, <1>6, <1>7, <1>8, InsertServices, UndoServices, MarkServices
         DEF Continue

(* An approved order has its record and its client on the panel: whatever  *)
(* approvals of it run at the same time, fail half way or are cut off by a *)
(* crash, none undoes the service of an order another has approved.        *)
THEOREM ApprovedKeepsService == CrashSpec => []ApprovedHasService
<1>1. Init => ServiceInv
  <2>1. Init => HeldOnce /\ HeldRecorded /\ ApprovedReleased /\ ApprovedHasService
    BY DEF Init, HeldOnce, HeldRecorded, ApprovedReleased, ApprovedHasService, Idle, PlanJob, Job,
           Holding, Created
  <2> QED  BY <2>1, InitType DEF ServiceInv
<1>2. ServiceInv /\ TypeInv' /\ [Next \/ Crash]_vars => ServiceInv'
  <2> SUFFICES ASSUME ServiceInv, TypeInv', [Next \/ Crash]_vars PROVE ServiceInv'
    OBVIOUS
  <2>1. CASE UNCHANGED vars
    BY <2>1 DEF vars, ServiceInv, HeldOnce, HeldRecorded, ApprovedReleased, ApprovedHasService
  <2>2. CASE Settings
    <3>1. orders' = orders /\ task' = task /\ records' = records /\ clients' = clients
      BY <2>2 DEF Settings, PickPlan, Offer, Configure, ToggleSales
    <3> QED  BY <3>1 DEF ServiceInv, HeldOnce, HeldRecorded, ApprovedReleased, ApprovedHasService
  <2>3. CASE Crash
    <3>1. KeepsServices
      BY <2>3 DEF Crash, KeepsServices, Idle, PlanJob, Job, Holding, Created
    <3> QED  BY <3>1, KeepsServiceInv
  <2> QED  BY <2>1, <2>2, <2>3, BeginServices, ContinueServices DEF Next
<1>3. ServiceInv => ApprovedHasService
  BY DEF ServiceInv
<1> QED  BY <1>1, <1>2, <1>3, TypeInvariant, PTL DEF CrashSpec

-----------------------------------------------------------------------------
(* No service is given away. *)

NoneRejects == \A t \in Tasks : task[t].pc # "reject"

(* Handler t keeps the order it holds, or t held none, and nothing else    *)
(* comes to the table; no approval is taken back.                          *)
LEMMA AccountedFrom ==
  ASSUME ServicesAccounted, NEW t \in Tasks,
         \A u \in Tasks \ {t} : task'[u] = task[u],
         \A o \in records : orders[o].status = "approved" => orders'[o].status = "approved",
         \A o \in records' : \/ o \in records /\ ~(task[t].order = o /\ task[t].pc \in Holding)
                             \/ task'[t].order = o /\ task'[t].pc \in Holding
                             \/ orders'[o].status = "approved"
  PROVE  ServicesAccounted'
<1> SUFFICES ASSUME NEW o \in records'
             PROVE  orders'[o].status = "approved" \/ Creating(o)'
  BY DEF ServicesAccounted
<1>1. CASE o \in records /\ ~(task[t].order = o /\ task[t].pc \in Holding)
  <2>1. orders[o].status = "approved"
        \/ \E u \in Tasks : task[u].order = o /\ task[u].pc \in Holding
    BY <1>1 DEF ServicesAccounted, Creating, Holding
  <2>2. CASE orders[o].status = "approved"
    BY <1>1, <2>2
  <2>3. ASSUME NEW u \in Tasks, task[u].order = o, task[u].pc \in Holding
        PROVE  Creating(o)'
    <3>1. task'[u] = task[u]
      BY <1>1, <2>3
    <3> QED  BY <2>3, <3>1 DEF Creating, Holding
  <2> QED  BY <2>1, <2>2, <2>3
<1>2. CASE task'[t].order = o /\ task'[t].pc \in Holding
  BY <1>2 DEF Creating, Holding
<1>3. CASE orders'[o].status = "approved"
  BY <1>3
<1> QED  BY <1>1, <1>2, <1>3

LEMMA AccountedStep ==
  ASSUME TypeInv, NoneRejects, ServicesAccounted, Next
  PROVE  ServicesAccounted'
<1>1. CASE Settings
  <2>1. orders' = orders /\ task' = task /\ records' = records
    BY <1>1 DEF Settings, PickPlan, Offer, Configure, ToggleSales
  <2> QED  BY <2>1 DEF ServicesAccounted, Creating
<1>2. ASSUME NEW t \in Tasks, Begin(t) PROVE ServicesAccounted'
  <2>1. /\ orders' = orders /\ records' = records /\ task[t] = Idle
        /\ \A u \in Tasks \ {t} : task'[u] = task[u]
    BY <1>2 DEF Begin, ReceiptBegin, ApproveBegin, RejectBegin, HideBegin, DeleteBegin, Start,
       TypeInv, TypeOK
  <2>2. task[t].pc \notin Holding
    BY <2>1 DEF Idle, PlanJob, Job, Holding
  <2> QED  BY <2>1, <2>2, AccountedFrom
<1>3. ASSUME NEW t \in Tasks, Continue(t) PROVE ServicesAccounted'
  <2>0. /\ records \subseteq DOMAIN orders /\ orders \in Seq(OrderRow)
        /\ task \in [Tasks -> Task] /\ task[t].pc # "reject"
        /\ JobSound(task[t], Len(orders))
    BY DEF TypeInv, TypeOK, NoneRejects, JobsSound
  <2>1. CASE Submit(t)
    <3>1. /\ \A u \in Tasks \ {t} : task'[u] = task[u]
          /\ task[t].pc \notin Holding /\ records' = records
      BY <2>1, GotoEffect DEF Submit, Holding
    <3>2. \A o \in records : orders'[o] = orders[o]
      BY <2>0, <2>1 DEF Submit
    <3> QED  BY <3>1, <3>2, AccountedFrom
  <2>2. CASE ClearDraft(t) \/ Grant(t) \/ Probe(t) \/ Hide(t) \/ Drop(t)
    <3>1. /\ \A u \in Tasks \ {t} : task'[u] = task[u]
          /\ task[t].pc \notin Holding /\ records' = records /\ orders' = orders
      BY <2>2, FinishEffect, GotoEffect DEF ClearDraft, Grant, Probe, Hide, Drop, Holding
    <3> QED  BY <3>1, AccountedFrom
  <2>3. CASE Ensure(t) \/ Check(t)
    <3>1. /\ \A u \in Tasks \ {t} : task'[u] = task[u]
          /\ task[t].pc \notin Holding /\ records' = records /\ orders' = orders
      BY <2>0, <2>3, FinishEffect DEF Ensure, Check, Holding
    <3> QED  BY <3>1, AccountedFrom
  <2>4. CASE Insert(t)
    <3>1. task[t].pc = "insert" /\ task[t].pc \notin Holding /\ orders' = orders
          /\ records' = records \cup {task[t].order}
      BY <2>4 DEF Insert, Holding
    <3>2. CASE task[t].order \in records
      <4>1. (\A u \in Tasks \ {t} : task'[u] = task[u]) /\ records' = records
        BY <2>4, <3>1, <3>2, FinishEffect DEF Insert
      <4> QED  BY <3>1, <4>1, AccountedFrom
    <3>3. CASE task[t].order \notin records
      <4>1. /\ \A u \in Tasks \ {t} : task'[u] = task[u]
            /\ task'[t].order = task[t].order /\ task'[t].pc \in Holding
        BY <2>4, <3>1, <3>3, GotoEffect DEF Insert, Holding
      <4> QED  BY <3>1, <4>1, AccountedFrom
    <3> QED  BY <3>2, <3>3
  <2>5. CASE CreateClient(t) \/ Delivery(t) \/ Charge(t)
    <3>1. records' = records /\ orders' = orders /\ task[t].pc # "idle"
          /\ \E step \in Holding : Goto(t, step)
      BY <2>5 DEF CreateClient, Delivery, Charge, Holding
    <3>2. /\ \A u \in Tasks \ {t} : task'[u] = task[u]
          /\ task'[t].order = task[t].order /\ task'[t].pc \in Holding
      BY <3>1, GotoEffect
    <3> QED  BY <3>1, <3>2, AccountedFrom
  <2>6. CASE Undo(t)
    <3>1. /\ \A u \in Tasks \ {t} : task'[u] = task[u]
          /\ records' = records \ {task[t].order} /\ orders' = orders
      BY <2>6, FinishEffect DEF Undo
    <3> QED  BY <3>1, AccountedFrom
  <2>7. CASE Mark(t)
    <3>1. /\ \A u \in Tasks \ {t} : task'[u] = task[u]
          /\ records' = records /\ task[t].pc = "mark"
          /\ orders' = [orders EXCEPT ![task[t].order].status = "approved"]
      BY <2>7, FinishEffect DEF Mark
    <3>2. /\ orders'[task[t].order].status = "approved"
          /\ \A o \in records \ {task[t].order} : orders'[o] = orders[o]
      <4>1. task[t].order \in DOMAIN orders
        BY <2>0, <3>1 DEF JobSound, Approving
      <4>2. orders[task[t].order] \in OrderRow
        BY <2>0, <4>1
      <4> QED  BY <2>0, <3>1, <4>1, <4>2 DEF OrderRow
    <3> QED  BY <3>1, <3>2, AccountedFrom
  <2>8. ~Reject(t)
    BY <2>0 DEF Reject
  <2> QED  BY <1>3, <2>1, <2>2, <2>3, <2>4, <2>5, <2>6, <2>7, <2>8 DEF Continue
<1> QED  BY <1>1, <1>2, <1>3 DEF Next

LEMMA RejectsNone ==
  ASSUME "reject" \notin Ops, TypeInv, NoneRejects, Next
  PROVE  NoneRejects'
<1>1. CASE Settings
  <2>1. task' = task
    BY <1>1 DEF Settings, PickPlan, Offer, Configure, ToggleSales
  <2> QED  BY <2>1 DEF NoneRejects
<1>2. ASSUME NEW t \in Tasks, Begin(t) PROVE NoneRejects'
  <2>1. ASSUME NEW op, NEW j, j.pc # "reject", Start(t, op, j) PROVE NoneRejects'
    BY <2>1 DEF Start, NoneRejects, TypeInv, TypeOK
  <2>2. CASE \E g \in Guests : ReceiptBegin(t, g)
    BY <2>1, <2>2 DEF ReceiptBegin, GuestJob, Job
  <2>3. CASE \E o \in DOMAIN orders : ApproveBegin(t, o) \/ RejectBegin(t, o)
    <3>1. ASSUME NEW o \in DOMAIN orders, ApproveBegin(t, o) PROVE NoneRejects'
      BY <2>1, <3>1 DEF ApproveBegin, OrderJob, Job
    <3>2. ASSUME NEW o \in DOMAIN orders PROVE ~RejectBegin(t, o)
      BY DEF RejectBegin, Start
    <3> QED  BY <2>3, <3>1, <3>2
  <2>4. CASE \E p \in 1..MaxPlan : HideBegin(t, p) \/ DeleteBegin(t, p)
    BY <2>1, <2>4 DEF HideBegin, DeleteBegin, PlanJob, Job
  <2> QED  BY <1>2, <2>2, <2>3, <2>4 DEF Begin
<1>3. ASSUME NEW t \in Tasks, Continue(t) PROVE NoneRejects'
  <2>1. ASSUME NEW step, step # "reject", task[t].pc # "idle", Goto(t, step) PROVE NoneRejects'
    BY <2>1, GotoEffect DEF NoneRejects
  <2>2. ASSUME Finish(t) PROVE NoneRejects'
    BY <2>2, FinishEffect DEF NoneRejects
  <2>3. CASE Submit(t) \/ Grant(t) \/ Probe(t) \/ Insert(t) \/ CreateClient(t) \/ Delivery(t)
             \/ Charge(t)
    BY <2>1, <2>2, <2>3 DEF Submit, Grant, Probe, Insert, CreateClient, Delivery, Charge
  <2>4. CASE ClearDraft(t) \/ Undo(t) \/ Mark(t) \/ Reject(t) \/ Hide(t) \/ Drop(t)
    BY <2>2, <2>4 DEF ClearDraft, Undo, Mark, Reject, Hide, Drop
  <2>5. CASE Ensure(t) \/ Check(t)
    <3>1. task[t] \in Task \ {Idle} /\ task \in [Tasks -> Task] /\ task[t].pc # "reject"
      BY <2>5 DEF Ensure, Check, Idle, PlanJob, Job, TypeInv, TypeOK
    <3>2. /\ \A u \in Tasks \ {t} : task'[u] = task[u]
          /\ task'[t].pc # "reject"
      BY <2>5, <3>1, FinishEffect DEF Ensure, Check, Task
    <3> QED  BY <3>2 DEF NoneRejects
  <2> QED  BY <1>3, <2>3, <2>4, <2>5 DEF Continue
<1> QED  BY <1>1, <1>2, <1>3 DEF Next

(* While no admin rejects and the process does not end, every service      *)
(* belongs to an approved order or to a handler that is creating it, for   *)
(* any number of guests, plans and approvals that run at the same time.    *)
THEOREM NoServiceGivenAway ==
  ASSUME "reject" \notin Ops
  PROVE  Spec => []ServicesAccounted
<1>1. Init => TypeInv /\ NoneRejects /\ ServicesAccounted
  <2>1. Init => NoneRejects /\ ServicesAccounted
    BY DEF Init, NoneRejects, ServicesAccounted, Idle, PlanJob, Job
  <2> QED  BY <2>1, InitType
<1>2. TypeInv /\ NoneRejects /\ ServicesAccounted /\ [Next]_vars
      => TypeInv' /\ NoneRejects' /\ ServicesAccounted'
  <2> SUFFICES ASSUME TypeInv, NoneRejects, ServicesAccounted, [Next]_vars
               PROVE  TypeInv' /\ NoneRejects' /\ ServicesAccounted'
    OBVIOUS
  <2>1. CASE UNCHANGED vars
    BY <2>1 DEF vars, TypeInv, TypeOK, JobsSound, NoneRejects, ServicesAccounted, Creating
  <2>2. CASE Next
    BY <2>2, BeginType, ContinueType, SettingsType, RejectsNone, AccountedStep DEF Next
  <2> QED  BY <2>1, <2>2
<1> QED  BY <1>1, <1>2, PTL DEF Spec

-----------------------------------------------------------------------------
(* One handler at a time. *)

(* The handler at work, if its step is one of these. *)
Only(t) == \A u \in Tasks \ {t} : task'[u].pc = "idle"

(* What is granted is enough: lifetime never passes the cap, and what the  *)
(* handler has read of either is what is there.                            *)
Funds(j, row) ==
    /\ j.pc = "grant" => j.quota = row.quota
    /\ j.pc = "check" => j.vol <= row.quota - row.lifetime
    /\ j.pc \in {"probe", "insert", "panel", "delivery", "charge"} =>
          j.lifetime = row.lifetime /\ j.lifetime + j.vol <= row.quota
FundsInv == pool.lifetime <= pool.quota /\ \A t \in Tasks : Funds(task[t], pool)

LEMMA FundsFrom ==
  ASSUME NEW t \in Tasks, Only(t), pool'.lifetime <= pool'.quota, Funds(task'[t], pool')
  PROVE  FundsInv'
<1>1. \A u \in Tasks \ {t} : Funds(task'[u], pool')
  BY DEF Only, Funds
<1> QED  BY <1>1 DEF FundsInv

LEMMA AtWorkJob ==
  ASSUME TypeInv, NEW t \in Tasks, task[t].pc # "idle"
  PROVE  /\ task[t] \in Task \ {Idle}
         /\ task[t].vol \in Nat /\ task[t].quota \in Nat /\ task[t].lifetime \in Nat
<1>1. task[t] \in Task \ {Idle}
  BY DEF TypeInv, TypeOK, Idle, PlanJob, Job
<1> QED  BY <1>1 DEF Task

(* Only the other fields of a job change. *)
LEMMA GotoFields ==
  ASSUME TypeInv, NEW t \in Tasks, task[t].pc # "idle", NEW step, Goto(t, step)
  PROVE  /\ task'[t].pc = step /\ task'[t].vol = task[t].vol /\ task'[t].plan = task[t].plan
         /\ task'[t].quota = task[t].quota /\ task'[t].lifetime = task[t].lifetime
<1>1. task[t] \in Task \ {Idle} /\ task \in [Tasks -> Task]
  BY AtWorkJob DEF TypeInv, TypeOK
<1> QED  BY <1>1 DEF Goto, Task

LEMMA OnlyFrom ==
  ASSUME TypeInv, NEW t \in Tasks, \A u \in Tasks \ {t} : task[u] = Idle, Begin(t) \/ Continue(t)
  PROVE  Only(t)
<1>0. Idle.pc = "idle" /\ task \in [Tasks -> Task]
  BY DEF Idle, PlanJob, Job, TypeInv, TypeOK
<1>1. CASE Begin(t)
  <2>1. \A u \in Tasks \ {t} : task'[u] = task[u]
    BY <1>0, <1>1 DEF Begin, ReceiptBegin, ApproveBegin, RejectBegin, HideBegin, DeleteBegin, Start
  <2> QED  BY <1>0, <2>1 DEF Only
<1>2. CASE Continue(t)
  <2>1. ASSUME NEW step, Goto(t, step) PROVE Only(t)
    BY <1>0, <2>1 DEF Goto, Only
  <2>2. ASSUME Finish(t) PROVE Only(t)
    BY <1>0, <2>2 DEF Finish, Only
  <2>3. CASE Submit(t) \/ Grant(t) \/ Probe(t) \/ Insert(t) \/ CreateClient(t) \/ Delivery(t)
             \/ Charge(t)
    BY <2>1, <2>2, <2>3 DEF Submit, Grant, Probe, Insert, CreateClient, Delivery, Charge
  <2>4. CASE ClearDraft(t) \/ Undo(t) \/ Mark(t) \/ Reject(t) \/ Hide(t) \/ Drop(t)
    BY <2>2, <2>4 DEF ClearDraft, Undo, Mark, Reject, Hide, Drop
  <2>5. CASE Ensure(t) \/ Check(t)
    BY <1>0, <2>2, <2>5 DEF Ensure, Check, Only
  <2> QED  BY <1>2, <2>3, <2>4, <2>5 DEF Continue
<1> QED  BY <1>1, <1>2

LEMMA FundsContinue ==
  ASSUME TypeInv, FundsInv, NEW t \in Tasks, Only(t), Continue(t)
  PROVE  FundsInv'
<1>0. /\ pool.lifetime \in Nat /\ pool.quota \in Nat /\ pool.lifetime <= pool.quota
      /\ pool \in PoolRow /\ task \in [Tasks -> Task] /\ Funds(task[t], pool)
  BY DEF TypeInv, TypeOK, PoolRow, FundsInv
<1>1. ASSUME pool' = pool, task'[t].pc \notin {"grant", "check", "probe", "insert", "panel", "delivery",
                                               "charge"}
      PROVE  FundsInv'
  BY <1>0, <1>1, FundsFrom DEF Funds
<1>2. ASSUME Finish(t), pool' = pool PROVE FundsInv'
  BY <1>1, <1>2, FinishEffect
<1>3. CASE Submit(t) \/ ClearDraft(t) \/ Undo(t) \/ Mark(t) \/ Reject(t) \/ Hide(t) \/ Drop(t)
  <2>1. pool' = pool /\ (Finish(t) \/ (task[t].pc # "idle" /\ Goto(t, "clear")))
    BY <1>3 DEF Submit, ClearDraft, Undo, Mark, Reject, Hide, Drop
  <2> QED  BY <1>1, <1>2, <2>1, GotoFields
<1>4. CASE Ensure(t)
  <2>1. task[t].pc = "ensure" /\ task[t] \in Task \ {Idle}
    BY <1>4, AtWorkJob DEF Ensure
  <2>2. CASE pool = NoPool
    <3>1. /\ pool' = [panel |-> task[t].panel, quota |-> 0, lifetime |-> 0]
          /\ task' = [task EXCEPT ![t].seen = TRUE]
      BY <1>4, <2>2 DEF Ensure
    <3>2. task'[t].pc = "ensure"
      BY <1>0, <2>1, <3>1 DEF Task
    <3> QED  BY <3>1, <3>2, FundsFrom DEF Funds
  <2>3. CASE Finish(t) /\ pool' = pool
    BY <1>2, <2>3
  <2>4. CASE task' = [task EXCEPT ![t].pc = "grant", ![t].quota = pool.quota] /\ pool' = pool
    <3>1. task'[t].pc = "grant" /\ task'[t].quota = pool.quota
      BY <1>0, <2>1, <2>4 DEF Task
    <3> QED  BY <1>0, <2>4, <3>1, FundsFrom DEF Funds
  <2> QED  BY <1>4, <2>2, <2>3, <2>4 DEF Ensure
<1>5. CASE Grant(t)
  <2>1. /\ task[t].pc = "grant" /\ Goto(t, "check")
        /\ pool' = [pool EXCEPT !.quota = task[t].quota + task[t].vol]
        /\ task[t].quota = pool.quota /\ task[t].vol \in Nat
    BY <1>0, <1>5, AtWorkJob DEF Grant, Funds
  <2>2. pool'.quota = pool.quota + task[t].vol /\ pool'.lifetime = pool.lifetime
    BY <1>0, <2>1 DEF PoolRow
  <2>3. task'[t].pc = "check" /\ task'[t].vol = task[t].vol
    BY <2>1, GotoFields
  <2>4. Funds(task'[t], pool')
    BY <1>0, <2>1, <2>2, <2>3 DEF Funds
  <2>5. pool'.lifetime <= pool'.quota
    BY <1>0, <2>1, <2>2
  <2> QED  BY <2>4, <2>5, FundsFrom
<1>6. CASE Check(t)
  <2>1. task[t].pc = "check" /\ task[t] \in Task \ {Idle} /\ task[t].vol \in Nat /\ pool' = pool
    BY <1>6, AtWorkJob DEF Check
  <2>2. CASE Finish(t)
    BY <1>2, <2>1, <2>2
  <2>3. CASE task' = [task EXCEPT ![t].pc = "probe", ![t].lifetime = pool.lifetime]
    <3>1. /\ task'[t].pc = "probe" /\ task'[t].lifetime = pool.lifetime
          /\ task'[t].vol = task[t].vol
      BY <1>0, <2>1, <2>3 DEF Task
    <3>2. task[t].vol <= pool.quota - pool.lifetime
      BY <1>0, <2>1 DEF Funds
    <3>3. Funds(task'[t], pool')
      BY <1>0, <2>1, <3>1, <3>2 DEF Funds
    <3> QED  BY <1>0, <2>1, <3>3, FundsFrom
  <2> QED  BY <1>6, <2>2, <2>3 DEF Check
<1>7. CASE Probe(t) \/ Insert(t) \/ CreateClient(t) \/ Delivery(t)
  <2>1. /\ task[t].pc \in {"probe", "insert", "panel", "delivery"} /\ pool' = pool
        /\ \/ Finish(t)
           \/ \E step \in {"insert", "panel", "delivery", "charge", "undo"} : Goto(t, step)
    BY <1>7 DEF Probe, Insert, CreateClient, Delivery
  <2>2. ASSUME NEW step \in {"insert", "panel", "delivery", "charge", "undo"}, Goto(t, step)
        PROVE  FundsInv'
    <3>1. /\ task'[t].pc = step /\ task'[t].vol = task[t].vol
          /\ task'[t].lifetime = task[t].lifetime
      BY <2>1, <2>2, GotoFields
    <3>2. Funds(task'[t], pool')
      BY <1>0, <2>1, <3>1 DEF Funds
    <3> QED  BY <1>0, <2>1, <3>2, FundsFrom
  <2> QED  BY <1>2, <2>1, <2>2
<1>8. CASE Charge(t)
  <2>1. /\ task[t].pc = "charge" /\ Goto(t, "mark")
        /\ pool' = [pool EXCEPT !.lifetime = task[t].lifetime + task[t].vol]
    BY <1>8 DEF Charge
  <2>2. pool'.quota = pool.quota /\ pool'.lifetime = task[t].lifetime + task[t].vol
    BY <1>0, <2>1 DEF PoolRow
  <2>3. task[t].lifetime + task[t].vol <= pool.quota
    BY <1>0, <2>1 DEF Funds
  <2>4. task'[t].pc = "mark"
    BY <2>1, GotoFields
  <2> QED  BY <2>2, <2>3, <2>4, FundsFrom DEF Funds
<1> QED  BY <1>3, <1>4, <1>5, <1>6, <1>7, <1>8 DEF Continue

LEMMA FundsStep ==
  ASSUME TypeInv, FundsInv, SerialNext
  PROVE  FundsInv'
<1>1. CASE Settings
  <2>1. pool' = pool /\ task' = task
    BY <1>1 DEF Settings, PickPlan, Offer, Configure, ToggleSales
  <2> QED  BY <2>1 DEF FundsInv
<1>2. CASE Crash
  <2>1. pool' = pool /\ \A t \in Tasks : task'[t].pc = "idle"
    BY <1>2 DEF Crash, Idle, PlanJob, Job
  <2> QED  BY <2>1 DEF FundsInv, Funds
<1>3. ASSUME NEW t \in Tasks, \A u \in Tasks \ {t} : task[u] = Idle, Begin(t)
      PROVE  FundsInv'
  <2>1. Only(t) /\ pool' = pool
    BY <1>3, OnlyFrom DEF Begin, ReceiptBegin, ApproveBegin, RejectBegin, HideBegin, DeleteBegin
  <2>2. ASSUME NEW op, NEW j, Start(t, op, j),
               j.pc \notin {"grant", "check", "probe", "insert", "panel", "delivery", "charge"}
        PROVE  Funds(task'[t], pool')
    BY <2>2 DEF Start, Funds, TypeInv, TypeOK
  <2>3. Funds(task'[t], pool')
    <3>1. CASE \E g \in Guests : ReceiptBegin(t, g)
      BY <2>2, <3>1 DEF ReceiptBegin, GuestJob, Job
    <3>2. CASE \E o \in DOMAIN orders : ApproveBegin(t, o) \/ RejectBegin(t, o)
      BY <2>2, <3>2 DEF ApproveBegin, RejectBegin, OrderJob, Job
    <3>3. CASE \E p \in 1..MaxPlan : HideBegin(t, p) \/ DeleteBegin(t, p)
      BY <2>2, <3>3 DEF HideBegin, DeleteBegin, PlanJob, Job
    <3> QED  BY <1>3, <3>1, <3>2, <3>3 DEF Begin
  <2> QED  BY <2>1, <2>3, FundsFrom DEF FundsInv
<1>4. ASSUME NEW t \in Tasks, \A u \in Tasks \ {t} : task[u] = Idle, Continue(t)
      PROVE  FundsInv'
  BY <1>4, OnlyFrom, FundsContinue
<1>5. CASE \E t \in Tasks : (\A u \in Tasks \ {t} : task[u] = Idle) /\ (Begin(t) \/ Continue(t))
  <2>1. PICK t \in Tasks : (\A u \in Tasks \ {t} : task[u] = Idle) /\ (Begin(t) \/ Continue(t))
    BY <1>5
  <2>2. CASE Begin(t)
    BY <1>3, <2>1, <2>2
  <2>3. CASE Continue(t)
    BY <1>4, <2>1, <2>3
  <2> QED  BY <2>1, <2>2, <2>3
<1> QED  BY <1>1, <1>2, <1>5 DEF SerialNext

LEMMA InitFunds == Init => FundsInv
  BY DEF Init, FundsInv, Funds, NoPool, Idle, PlanJob, Job

LEMMA FundsSuffice == ASSUME TypeInv, FundsInv PROVE GrantSuffices
<1>1. pool.lifetime \in Nat /\ pool.quota \in Nat /\ pool.lifetime <= pool.quota
  BY DEF TypeInv, TypeOK, PoolRow, FundsInv
<1>2. ASSUME NEW t \in Tasks, task[t].pc = "check" PROVE task[t].vol <= Remaining
  <2>1. task[t].vol <= pool.quota - pool.lifetime /\ task[t].vol \in Nat
    BY <1>2, AtWorkJob DEF FundsInv, Funds
  <2> QED  BY <1>1, <2>1 DEF Remaining
<1> QED  BY <1>2 DEF GrantSuffices

(* What waits can be approved: a receipt is for a plan that is there, and  *)
(* no order waits for one that is about to be deleted.                     *)
PlanKept(j, P, O) ==
    /\ j.pc = "submit" => P[j.plan] # NoPlan
    /\ j.pc = "drop" => \A o \in DOMAIN O : ~(O[o].status = "pending" /\ O[o].plan = j.plan)
PlansInv == PendingPlanExists /\ \A t \in Tasks : PlanKept(task[t], plans, orders)

LEMMA PlansFrom ==
  ASSUME NEW t \in Tasks, Only(t), PlanKept(task'[t], plans', orders'), PendingPlanExists'
  PROVE  PlansInv'
<1>1. \A u \in Tasks \ {t} : PlanKept(task'[u], plans', orders')
  BY DEF Only, PlanKept
<1> QED  BY <1>1 DEF PlansInv

(* A step after which every plan that was there is there, and no order     *)
(* waits that did not.                                                     *)
PlansStay ==
    /\ \A p \in 1..MaxPlan : plans[p] # NoPlan => plans'[p] # NoPlan
    /\ \A o \in DOMAIN orders' : orders'[o].status = "pending" =>
          /\ o \in DOMAIN orders /\ orders[o].status = "pending"
          /\ orders'[o].plan = orders[o].plan

LEMMA PlansStayPending ==
  ASSUME TypeInv, PendingPlanExists, PlansStay
  PROVE  PendingPlanExists'
<1>1. ASSUME NEW o \in DOMAIN orders PROVE orders[o].plan \in 1..MaxPlan
  <2>1. orders \in Seq(OrderRow)
    BY DEF TypeInv, TypeOK
  <2>2. orders[o] \in OrderRow
    BY <2>1
  <2> QED  BY <2>2 DEF OrderRow
<1> QED  BY <1>1 DEF PlansStay, PendingPlanExists, Pending

LEMMA OfferedExists ==
  ASSUME NEW v \in Volumes, NEW b
  PROVE  [vol |-> v, active |-> b] # NoPlan
<1>1. v # 0
  BY GuestAssumptions
<1> QED  BY <1>1 DEF NoPlan

LEMMA PlansSettings ==
  ASSUME TypeInv, PlansInv, Settings
  PROVE  PlansInv'
<1>1. orders' = orders /\ task' = task
  BY DEF Settings, PickPlan, Offer, Configure, ToggleSales
<1>2. \A p \in 1..MaxPlan : plans[p] # NoPlan => plans'[p] # NoPlan
  <2>1. ASSUME NEW p \in 1..MaxPlan, NEW v \in Volumes, Offer(p, v)
        PROVE  \A q \in 1..MaxPlan : plans[q] # NoPlan => plans'[q] # NoPlan
    <3> DEFINE row == [vol |-> v, active |-> TRUE]
    <3>1. plans' = [plans EXCEPT ![p] = row] /\ plans \in [1..MaxPlan -> PlanRow]
      BY <2>1 DEF Offer, TypeInv, TypeOK
    <3>2. row # NoPlan
      BY OfferedExists
    <3> HIDE DEF row
    <3> QED  BY <3>1, <3>2
  <2>2. CASE plans' = plans
    BY <2>2
  <2> QED  BY <2>1, <2>2 DEF Settings, PickPlan, Configure, ToggleSales
<1>3. PlansStay
  BY <1>1, <1>2 DEF PlansStay
<1>4. ASSUME NEW t \in Tasks PROVE PlanKept(task'[t], plans', orders')
  <2>1. PlanKept(task[t], plans, orders) /\ (task[t].pc = "submit" => task[t].plan \in 1..MaxPlan)
    BY DEF PlansInv, TypeInv, JobsSound, JobSound
  <2> QED  BY <1>1, <1>2, <2>1 DEF PlanKept
<1> QED  BY <1>3, <1>4, PlansStayPending DEF PlansInv

LEMMA PlansBegin ==
  ASSUME TypeInv, PlansInv, NEW t \in Tasks, Only(t), Begin(t)
  PROVE  PlansInv'
<1>1. plans' = plans /\ orders' = orders
  BY DEF Begin, ReceiptBegin, ApproveBegin, RejectBegin, HideBegin, DeleteBegin
<1>2. ASSUME NEW op, NEW j, Start(t, op, j), PlanKept(j, plans, orders)
      PROVE  PlanKept(task'[t], plans', orders')
  <2>1. task'[t] = j
    BY <1>2 DEF Start, TypeInv, TypeOK
  <2> QED  BY <1>1, <1>2, <2>1
<1>3. ASSUME NEW g \in Guests, ReceiptBegin(t, g) PROVE PlanKept(task'[t], plans', orders')
  <2>1. CASE plans[draft[g]].active /\ Start(t, "receipt", GuestJob("submit", g, draft[g]))
    <3> DEFINE j == GuestJob("submit", g, draft[g])
    <3>1. plans[draft[g]] # NoPlan
      BY <2>1 DEF NoPlan
    <3>2. j.pc = "submit" /\ j.plan = draft[g]
      BY DEF GuestJob, Job
    <3> HIDE DEF j
    <3>3. PlanKept(j, plans, orders)
      BY <3>1, <3>2 DEF PlanKept
    <3> QED  BY <1>2, <2>1, <3>3 DEF j
  <2>2. CASE Start(t, "receipt", GuestJob("clear", g, 0))
    BY <1>2, <2>2 DEF PlanKept, GuestJob, Job
  <2> QED  BY <1>3, <2>1, <2>2 DEF ReceiptBegin
<1>4. ASSUME NEW o \in DOMAIN orders, ApproveBegin(t, o) \/ RejectBegin(t, o)
      PROVE  PlanKept(task'[t], plans', orders')
  BY <1>2, <1>4 DEF ApproveBegin, RejectBegin, PlanKept, OrderJob, Job
<1>5. ASSUME NEW p \in 1..MaxPlan, HideBegin(t, p) PROVE PlanKept(task'[t], plans', orders')
  BY <1>2, <1>5 DEF HideBegin, PlanKept, PlanJob, Job
<1>6. ASSUME NEW p \in 1..MaxPlan, DeleteBegin(t, p) PROVE PlanKept(task'[t], plans', orders')
  <2> DEFINE j == PlanJob("drop", p, FALSE)
  <2>1. j.pc = "drop" /\ j.plan = p
    BY DEF PlanJob, Job
  <2>2. Start(t, "delete", j) /\ \A o \in DOMAIN orders : ~(Pending(o) /\ orders[o].plan = p)
    BY <1>6 DEF DeleteBegin
  <2> HIDE DEF j
  <2>3. PlanKept(j, plans, orders)
    BY <2>1, <2>2 DEF PlanKept, Pending
  <2> QED  BY <1>2, <2>2, <2>3
<1>7. PlanKept(task'[t], plans', orders')
  BY <1>3, <1>4, <1>5, <1>6 DEF Begin
<1>8. PendingPlanExists'
  BY <1>1 DEF PlansInv, PendingPlanExists, Pending
<1> QED  BY <1>7, <1>8, PlansFrom

LEMMA PlansContinue ==
  ASSUME TypeInv, PlansInv, NEW t \in Tasks, Only(t), Continue(t)
  PROVE  PlansInv'
<1>0. /\ PlanKept(task[t], plans, orders) /\ JobSound(task[t], Len(orders))
      /\ orders \in Seq(OrderRow) /\ plans \in [1..MaxPlan -> PlanRow] /\ PendingPlanExists
      /\ task \in [Tasks -> Task]
  BY DEF PlansInv, TypeInv, TypeOK, JobsSound
<1>1. ASSUME PlansStay, task'[t].pc \notin {"submit", "drop"} PROVE PlansInv'
  BY <1>0, <1>1, PlansFrom, PlansStayPending DEF PlanKept
<1>2. CASE Submit(t)
  <2> DEFINE row == [guest |-> task[t].guest, plan |-> task[t].plan, status |-> "pending"]
             n == Len(orders)
  <2>1. /\ orders' = Append(orders, row) /\ plans' = plans /\ task[t].pc = "submit"
        /\ Goto(t, "clear") /\ n \in Nat
    BY <1>0, <1>2 DEF Submit
  <2>2. task'[t].pc = "clear"
    BY <2>1, GotoFields
  <2>3. /\ DOMAIN orders' = DOMAIN orders \cup {n + 1} /\ orders'[n + 1] = row
        /\ \A o \in DOMAIN orders : orders'[o] = orders[o]
    BY <1>0, <2>1
  <2>4. plans[row.plan] # NoPlan
    BY <1>0, <2>1 DEF PlanKept
  <2> HIDE DEF row, n
  <2>5. PendingPlanExists'
    BY <1>0, <2>1, <2>3, <2>4 DEF PendingPlanExists, Pending
  <2>6. PlanKept(task'[t], plans', orders')
    BY <2>2 DEF PlanKept
  <2> QED  BY <2>5, <2>6, PlansFrom
<1>3. CASE Drop(t)
  <2>1. /\ task[t].pc = "drop" /\ Finish(t) /\ orders' = orders
        /\ plans' = [plans EXCEPT ![task[t].plan] = NoPlan]
    BY <1>3 DEF Drop
  <2>2. task'[t].pc = "idle"
    BY <2>1, FinishEffect
  <2>3. PlanKept(task'[t], plans', orders')
    BY <2>2 DEF PlanKept
  <2>4. ASSUME NEW o \in DOMAIN orders', Pending(o)' PROVE plans'[orders'[o].plan] # NoPlan
    <3>1. o \in DOMAIN orders /\ Pending(o) /\ orders[o].plan # task[t].plan
          /\ orders[o].plan \in 1..MaxPlan /\ plans[orders[o].plan] # NoPlan
      <4>1. o \in DOMAIN orders /\ Pending(o)
        BY <2>1, <2>4 DEF Pending
      <4>2. orders[o] \in OrderRow
        BY <1>0, <4>1
      <4>3. orders[o].plan \in 1..MaxPlan
        BY <4>2 DEF OrderRow
      <4>4. orders[o].plan # task[t].plan /\ plans[orders[o].plan] # NoPlan
        BY <1>0, <2>1, <4>1 DEF PlanKept, Pending, PendingPlanExists
      <4> QED  BY <4>1, <4>3, <4>4
    <3> QED  BY <1>0, <2>1, <3>1
  <2>5. PendingPlanExists'
    BY <2>4 DEF PendingPlanExists
  <2> QED  BY <2>3, <2>5, PlansFrom
<1>4. CASE Hide(t)
  <2> DEFINE p == task[t].plan
             b == ~task[t].seen
  <2>1. /\ task[t].pc = "hide" /\ Finish(t) /\ orders' = orders /\ p \in 1..MaxPlan
        /\ plans' = IF plans[p] = NoPlan THEN plans ELSE [plans EXCEPT ![p].active = b]
    BY <1>0, <1>4 DEF Hide, JobSound
  <2>2. task'[t].pc = "idle"
    BY <2>1, FinishEffect
  <2>3. \A q \in 1..MaxPlan : plans[q] # NoPlan => plans'[q] # NoPlan
    <3>1. CASE plans[p] = NoPlan
      BY <2>1, <3>1
    <3>2. CASE plans[p] # NoPlan
      <4> DEFINE row == [plans[p] EXCEPT !.active = b]
      <4>1. plans' = [plans EXCEPT ![p] = row]
        BY <2>1, <3>2
      <4>2. plans[p] \in [vol : Volumes, active : BOOLEAN]
        BY <1>0, <2>1, <3>2 DEF PlanRow
      <4>3. row.vol \in Volumes
        BY <4>2
      <4>4. row # NoPlan
        BY <4>3, GuestAssumptions DEF NoPlan
      <4> HIDE DEF row
      <4> QED  BY <1>0, <2>1, <4>1, <4>4
    <3> QED  BY <3>1, <3>2
  <2>4. PlansStay
    BY <2>1, <2>3 DEF PlansStay
  <2> QED  BY <1>1, <2>2, <2>4
<1>5. CASE Mark(t) \/ Reject(t)
  <2> DEFINE o == task[t].order
  <2>1. PICK s \in {"approved", "rejected"} : orders' = [orders EXCEPT ![o].status = s]
    BY <1>5 DEF Mark, Reject
  <2>2. Finish(t) /\ plans' = plans
    BY <1>5 DEF Mark, Reject
  <2>3. \A k \in DOMAIN orders : orders[k] \in OrderRow
    BY <1>0
  <2>4. DOMAIN orders' = DOMAIN orders
    BY <1>0, <2>1
  <2>5. \A k \in DOMAIN orders :
           /\ orders'[k].plan = orders[k].plan
           /\ orders'[k].status = "pending" => orders[k].status = "pending"
    BY <1>0, <2>1, <2>3 DEF OrderRow
  <2>6. PlansStay
    BY <2>2, <2>4, <2>5 DEF PlansStay
  <2>7. task'[t].pc = "idle"
    BY <2>2, FinishEffect
  <2> QED  BY <1>1, <2>6, <2>7
<1>6. ASSUME orders' = orders, plans' = plans, task'[t].pc \notin {"submit", "drop"} PROVE PlansInv'
  BY <1>1, <1>6 DEF PlansStay
<1>7. CASE ClearDraft(t) \/ Undo(t)
  BY <1>6, <1>7, FinishEffect DEF ClearDraft, Undo
<1>8. CASE Ensure(t) \/ Check(t)
  <2>1. task[t] \in Task \ {Idle} /\ orders' = orders /\ plans' = plans
    BY <1>8, AtWorkJob DEF Ensure, Check
  <2>2. task'[t].pc \notin {"submit", "drop"}
    BY <1>0, <1>8, <2>1, FinishEffect DEF Ensure, Check, Task
  <2> QED  BY <1>6, <2>1, <2>2
<1>9. CASE Grant(t) \/ Probe(t) \/ Insert(t) \/ CreateClient(t) \/ Delivery(t) \/ Charge(t)
  BY <1>6, <1>9, FinishEffect, GotoFields DEF Grant, Probe, Insert, CreateClient, Delivery, Charge
<1> QED  BY <1>2, <1>3, <1>4, <1>5, <1>7, <1>8, <1>9 DEF Continue

LEMMA PlansStep ==
  ASSUME TypeInv, PlansInv, SerialNext
  PROVE  PlansInv'
<1>1. CASE Crash
  <2>1. plans' = plans /\ orders' = orders /\ \A t \in Tasks : task'[t].pc = "idle"
    BY <1>1 DEF Crash, Idle, PlanJob, Job
  <2> QED  BY <2>1 DEF PlansInv, PlanKept, PendingPlanExists, Pending
<1>2. CASE \E t \in Tasks : (\A u \in Tasks \ {t} : task[u] = Idle) /\ (Begin(t) \/ Continue(t))
  <2>1. PICK t \in Tasks : (\A u \in Tasks \ {t} : task[u] = Idle) /\ (Begin(t) \/ Continue(t))
    BY <1>2
  <2>2. Only(t)
    BY <2>1, OnlyFrom
  <2> QED  BY <2>1, <2>2, PlansBegin, PlansContinue
<1> QED  BY <1>1, <1>2, PlansSettings DEF SerialNext

LEMMA InitPlans == Init => PlansInv
  BY DEF Init, PlansInv, PlanKept, PendingPlanExists, Idle, PlanJob, Job

LEMMA SerialType == ASSUME TypeInv, SerialNext PROVE TypeInv'
  BY BeginType, ContinueType, SettingsType, CrashType DEF SerialNext

LEMMA SerialInvariants == SerialSpec => [](TypeInv /\ FundsInv /\ PlansInv)
<1>1. Init => TypeInv /\ FundsInv /\ PlansInv
  BY InitType, InitFunds, InitPlans
<1>2. TypeInv /\ FundsInv /\ PlansInv /\ [SerialNext]_vars => (TypeInv /\ FundsInv /\ PlansInv)'
  <2> SUFFICES ASSUME TypeInv, FundsInv, PlansInv, [SerialNext]_vars
               PROVE  TypeInv' /\ FundsInv' /\ PlansInv'
    OBVIOUS
  <2>1. CASE SerialNext
    BY <2>1, SerialType, FundsStep, PlansStep
  <2>2. CASE UNCHANGED vars
    BY <2>2 DEF vars, TypeInv, TypeOK, JobsSound, FundsInv, PlansInv, PendingPlanExists, Pending
  <2> QED  BY <2>1, <2>2
<1> QED  BY <1>1, <1>2, PTL DEF SerialSpec

(* Handlers that run one at a time, crashes between any two steps of them  *)
(* included, always grant enough for the service deliver_guest_order then  *)
(* creates.                                                                *)
THEOREM SerialGrantSuffices == SerialSpec => []GrantSuffices
<1> QED  BY SerialInvariants, FundsSuffice, PTL

(* They never leave an order waiting for a plan that is gone either.       *)
THEOREM SerialPlanExists == SerialSpec => []PendingPlanExists
<1>1. PlansInv => PendingPlanExists
  BY DEF PlansInv
<1> QED  BY <1>1, SerialInvariants, PTL

-----------------------------------------------------------------------------
(* The instance that is checked, for every value of its constants. *)

AloneInv == about = "alone" => FundsInv /\ PlansInv
CrossedInv == about = "crossed" => NoneRejects /\ ServicesAccounted
ModesInv == TypeInv /\ AloneInv /\ CrossedInv

LEMMA ModesInvariant == ModesSpec => []ModesInv
<1>1. ModesInit => ModesInv
  <2> SUFFICES ASSUME Init PROVE ModesInv
    BY DEF ModesInit, ReceiptInit
  <2>1. NoneRejects /\ ServicesAccounted
    BY DEF Init, NoneRejects, ServicesAccounted, Idle, PlanJob, Job
  <2> QED  BY <2>1, InitType, InitFunds, InitPlans DEF ModesInv, AloneInv, CrossedInv
<1>2. ModesInv /\ [ModesNext]_modeVars => ModesInv'
  <2> SUFFICES ASSUME ModesInv, [ModesNext]_modeVars PROVE ModesInv'
    OBVIOUS
  <2>1. CASE about = "alone" /\ Alone /\ UNCHANGED about
    <3>1. SerialNext /\ about' = "alone" /\ FundsInv /\ PlansInv
      BY <2>1 DEF Alone, ModesInv, AloneInv
    <3> QED  BY <3>1, SerialType, FundsStep, PlansStep DEF ModesInv, AloneInv, CrossedInv
  <2>2. CASE about = "crossed" /\ Crossed /\ UNCHANGED about
    <3>1. Next /\ about' = "crossed" /\ NoneRejects /\ ServicesAccounted /\ NoneRejects'
      BY <2>2 DEF Crossed, ModesInv, CrossedInv, NoneRejects
    <3>2. TypeInv'
      BY <3>1, BeginType, ContinueType, SettingsType DEF ModesInv, Next
    <3> QED  BY <3>1, <3>2, AccountedStep DEF ModesInv, AloneInv, CrossedInv
  <2>3. CASE UNCHANGED modeVars
    BY <2>3 DEF modeVars, receiptVars, vars, ModesInv, AloneInv, CrossedInv, TypeInv, TypeOK, JobsSound,
       FundsInv, PlansInv, PendingPlanExists, Pending, NoneRejects, ServicesAccounted, Creating
  <2> QED  BY <2>1, <2>2, <2>3 DEF ModesNext
<1> QED  BY <1>1, <1>2, PTL DEF ModesSpec

(* What MCGuestOrders.cfg checks of one handler at a time, for any number  *)
(* of guests, plans, volumes and orders.                                   *)
THEOREM GrantSufficesOneAtATime == ModesSpec => []GrantSufficesAlone
<1>1. ModesInv => GrantSufficesAlone
  BY FundsSuffice DEF ModesInv, AloneInv, GrantSufficesAlone
<1> QED  BY <1>1, ModesInvariant, PTL

(* Likewise of the plans that pending orders wait for.                     *)
THEOREM PlanExistsOneAtATime == ModesSpec => []PendingPlanExistsAlone
<1>1. ModesInv => PendingPlanExistsAlone
  BY DEF ModesInv, AloneInv, PendingPlanExistsAlone, PlansInv
<1> QED  BY <1>1, ModesInvariant, PTL

(* Likewise of the services that crossing approvals create.                *)
THEOREM NoneGivenAwayCrossed == ModesSpec => []ServicesAccountedCrossed
<1>1. ModesInv => ServicesAccountedCrossed
  BY DEF ModesInv, CrossedInv, ServicesAccountedCrossed
<1> QED  BY <1>1, ModesInvariant, PTL
=============================================================================
