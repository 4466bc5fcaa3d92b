---------------------------- MODULE LedgerProofs ----------------------------
(***************************************************************************)
(* Proofs about ResellerLedger for every value of its constants, crashes   *)
(* included: the types; that what a reseller is charged stays within the   *)
(* cap; and that a cached id names the row it was read from, or none, or   *)
(* was given again.                                                        *)
(***************************************************************************)
EXTENDS ServiceIds, FiniteSetTheorems, TLAPS

(* The operations whose handler passes through a step. *)
OpAt(step, o) ==
    \/ step \in {"validate", "probe", "insert", "subid", "undo"} /\ o = "create"
    \/ step = "fetch" /\ o \in {"add", "remove", "delete"}
    \/ step = "panel" /\ o \in {"create", "add", "remove"}
    \/ step = "traffic" /\ o \in {"remove", "delete"}
    \/ step = "drop" /\ o = "delete"
    \/ step = "record" /\ o \in {"add", "remove", "delete"}
    \/ step = "charge" /\ o \in {"create", "add"}
    \/ step = "credit" /\ o \in {"remove", "delete"}
    \/ step = "sum" /\ o = "reset"
    \/ step = "commit" /\ o \in AdminOps

Fits(j) == j.pc # "idle" => /\ OpAt(j.pc, j.op)
                            /\ j.op \in ServiceOps => j.name \in Names

StepFitsOp == \A t \in Tasks : Fits(task[t])

TypeInv == TypeOK /\ StepFitsOp

TaskInv == task \in [Tasks -> Task] /\ StepFitsOp

-----------------------------------------------------------------------------
(* Sums.  The units of an amount are pairs, so that a sum is the number of *)
(* elements of a union of disjoint sets.                                   *)

Units(amount) == UNION {{x} \X (1..amount[x]) : x \in DOMAIN amount}

LEMMA FiniteUnits ==
  ASSUME NEW amount, IsFiniteSet(DOMAIN amount), \A x \in DOMAIN amount : amount[x] \in Nat
  PROVE  IsFiniteSet(Units(amount))
<1> DEFINE S == DOMAIN amount
           T == {{x} \X (1..amount[x]) : x \in S}
           unitsOf == [x \in S |-> {x} \X (1..amount[x])]
<1>1. unitsOf \in Surjection(S, T)
  BY DEF Surjection
<1>2. IsFiniteSet(T)
  BY <1>1, FS_Surjection
<1>3. ASSUME NEW U \in T PROVE IsFiniteSet(U)
  <2>1. PICK x \in S : U = {x} \X (1..amount[x])
    OBVIOUS
  <2>2. IsFiniteSet({x})
    BY FS_Singleton
  <2>3. IsFiniteSet(1..amount[x])
    BY FS_Interval
  <2> QED  BY <2>1, <2>2, <2>3, FS_Product
<1> QED  BY <1>2, <1>3, FS_UNION DEF Units

LEMMA TotalNat ==
  ASSUME NEW amount, IsFiniteSet(DOMAIN amount), \A x \in DOMAIN amount : amount[x] \in Nat
  PROVE  Total(amount) \in Nat
BY FiniteUnits, FS_CardinalityType DEF Total, Units

LEMMA TotalEmpty == ASSUME NEW amount, DOMAIN amount = {} PROVE Total(amount) = 0
<1>1. Units(amount) = {}
  BY DEF Units
<1> QED  BY <1>1, FS_EmptySet DEF Total, Units

(* One more summand. *)
LEMMA TotalAdd ==
  ASSUME NEW amount, NEW more, NEW x,
         IsFiniteSet(DOMAIN amount), \A y \in DOMAIN amount : amount[y] \in Nat,
         x \notin DOMAIN amount, DOMAIN more = DOMAIN amount \cup {x},
         \A y \in DOMAIN amount : more[y] = amount[y], more[x] \in Nat
  PROVE  Total(more) = Total(amount) + more[x]
<1> DEFINE new == {x} \X (1..more[x])
<1>1. Units(more) = Units(amount) \cup new
  BY DEF Units
<1>2. Units(amount) \cap new = {}
  <2> SUFFICES ASSUME NEW u \in Units(amount), u \in new PROVE FALSE
    OBVIOUS
  <2>1. PICK y \in DOMAIN amount : u \in {y} \X (1..amount[y])
    BY DEF Units
  <2> QED  BY <2>1
<1>3. IsFiniteSet(new) /\ Cardinality(new) = more[x]
  <2>1. IsFiniteSet({x}) /\ Cardinality({x}) = 1
    BY FS_Singleton
  <2>2. IsFiniteSet(1..more[x]) /\ Cardinality(1..more[x]) = more[x]
    BY FS_Interval
  <2>3. /\ IsFiniteSet({x} \X (1..more[x]))
        /\ Cardinality({x} \X (1..more[x])) = Cardinality({x}) * Cardinality(1..more[x])
    BY <2>1, <2>2, FS_Product, Zenon
  <2> QED  BY <2>1, <2>2, <2>3
<1>4. IsFiniteSet(Units(amount))
  BY FiniteUnits
<1> HIDE DEF new
<1>5. /\ Cardinality(Units(amount)) \in Nat
      /\ Cardinality(Units(more)) =
           Cardinality(Units(amount)) + more[x] - Cardinality(Units(amount) \cap new)
  BY <1>1, <1>3, <1>4, FS_Union, FS_CardinalityType
<1>6. Cardinality(Units(amount) \cap new) = 0
  BY <1>2, FS_EmptySet
<1> QED  BY <1>5, <1>6 DEF Total, Units

LEMMA TotalOne ==
  ASSUME NEW amount, NEW x, DOMAIN amount = {x}, amount[x] \in Nat
  PROVE  Total(amount) = amount[x]
<1> DEFINE none == [y \in {} |-> 0]
<1>1. Total(amount) = Total(none) + amount[x]
  BY FS_EmptySet, TotalAdd
<1>2. Total(none) = 0
  BY TotalEmpty
<1> QED  BY <1>1, <1>2

(* What the services of a reseller hold is a number. *)
LEMMA ActiveNat == ASSUME TypeOK, NEW r PROVE ActiveBytes(r) \in Nat
<1>1. IsFiniteSet(Services(r)) /\ \A x \in Services(r) : x.alloc \in Nat
  BY FS_Subset DEF Services, TypeOK, RecordRow
<1> QED  BY <1>1, TotalNat DEF ActiveBytes

-----------------------------------------------------------------------------
(* The initial state, and the steps handlers are made of. *)

LEMMA WithoutType ==
  ASSUME TypeOK, NEW i
  PROVE  WithoutRow(i) \subseteq RecordRow /\ IsFiniteSet(WithoutRow(i))
BY FS_Subset DEF WithoutRow, TypeOK

LEMMA AllocType ==
  ASSUME TypeOK, NEW i, NEW a \in Nat
  PROVE  WithAlloc(i, a) \subseteq RecordRow /\ IsFiniteSet(WithAlloc(i, a))
<1> DEFINE written == [x \in records |-> IF x.id = i THEN [x EXCEPT !.alloc = a] ELSE x]
<1>1. written \in Surjection(records, WithAlloc(i, a))
  BY DEF Surjection, WithAlloc
<1>2. IsFiniteSet(WithAlloc(i, a))
  BY <1>1, FS_Surjection DEF TypeOK
<1>3. WithAlloc(i, a) \subseteq RecordRow
  BY DEF WithAlloc, TypeOK, RecordRow
<1> QED  BY <1>2, <1>3

LEMMA InitType == Init => TypeInv
<1> SUFFICES ASSUME Init PROVE TypeInv
  OBVIOUS
<1> USE LedgerAssumptions DEF Init
<1>1. TypeOK
  <2>1. records \subseteq RecordRow /\ IsFiniteSet(records)
    BY FS_EmptySet
  <2>2. resellers \in [Resellers -> ResellerRow]
    BY DEF ResellerRow
  <2>3. panel \in [Names -> PanelClient] /\ task \in [Tasks -> Task]
    BY DEF PanelClient, Task
  <2>4. nextId \in Nat \ {0}
    OBVIOUS
  <2> QED  BY <2>1, <2>2, <2>3, <2>4, Zenon DEF TypeOK
<1>2. StepFitsOp
  BY DEF StepFitsOp, Fits, Idle
<1> QED  BY <1>1, <1>2 DEF TypeInv

LEMMA FinishType ==
  ASSUME TaskInv, NEW t \in Tasks, Finish(t)
  PROVE  TaskInv'
BY DEF TaskInv, Finish, StepFitsOp, Fits, Task, Idle

(* The handler's job replaced by another well-formed one. *)
LEMMA JobType ==
  ASSUME TaskInv, NEW t \in Tasks, NEW j \in Task, Fits(j),
         task' = [task EXCEPT ![t] = j]
  PROVE  TaskInv'
<1>1. task'[t] = j /\ \A u \in Tasks \ {t} : task'[u] = task[u]
  BY DEF TaskInv
<1> QED  BY <1>1 DEF TaskInv, StepFitsOp, Fits

LEMMA GotoType ==
  ASSUME TaskInv, NEW t \in Tasks, task[t].pc # "idle",
         NEW step \in Steps \ {"idle"}, OpAt(step, task[t].op), Goto(t, step)
  PROVE  TaskInv'
<1> DEFINE j == [task[t] EXCEPT !.pc = step]
<1>1. task[t] \in Task \ {Idle}
  BY DEF TaskInv, Task, Idle
<1>2. j \in Task
  BY <1>1 DEF Task
<1>3. Fits(j)
  BY <1>1 DEF TaskInv, StepFitsOp, Fits, Task
<1>4. task' = [task EXCEPT ![t] = j]
  BY DEF Goto
<1> QED  BY <1>2, <1>3, <1>4, JobType

LEMMA StartType ==
  ASSUME TypeInv, NEW t \in Tasks, NEW o, NEW r \in Resellers,
         NEW n \in Names \cup {"none"}, NEW v \in Nat, NEW step \in Steps \ {"idle"},
         OpAt(step, o), o \in ServiceOps => n \in Names,
         Start(t, o, r, n, v, step)
  PROVE  TypeInv'
<1> DEFINE j == [pc |-> step, op |-> o, owner |-> r, name |-> n, vol |-> v, id |-> 0,
                 alloc |-> 0, quota |-> resellers[r].quota,
                 lifetime |-> resellers[r].lifetime, active |-> resellers[r].active]
<1>1. j \in Task
  BY LedgerAssumptions DEF Start, TypeInv, TypeOK, ResellerRow, Task
<1>2. Fits(j)
  BY DEF Fits
<1>3. TaskInv'
  BY <1>1, <1>2, JobType DEF Start, TypeInv, TypeOK, TaskInv
<1> QED  BY <1>3 DEF Start, TypeInv, TypeOK, TaskInv

-----------------------------------------------------------------------------
(* Type correctness, one lemma per kind of step. *)

LEMMA BeginType ==
  ASSUME TypeInv, NEW t \in Tasks, Begin(t)
  PROVE  TypeInv'
<1> USE LedgerAssumptions DEF Steps, ServiceOps, OpAt, AdminOps
<1>1. PICK r \in Resellers :
        \/ \E n \in Names, v \in Volumes :
              CreateBegin(t, r, n, v) \/ AddBegin(t, r, n, v) \/ RemoveBegin(t, r, n, v)
        \/ \E n \in Names : DeleteBegin(t, r, n)
        \/ \E q \in 0..MaxQuota : SetBegin(t, r, q)
        \/ \E v \in Volumes : GrowBegin(t, r, v) \/ ShrinkBegin(t, r, v)
        \/ ResetBegin(t, r)
        \/ ToggleBegin(t, r)
  BY DEF Begin
<1>2. CASE \E n \in Names, v \in Volumes :
              CreateBegin(t, r, n, v) \/ AddBegin(t, r, n, v) \/ RemoveBegin(t, r, n, v)
  BY <1>2, StartType DEF CreateBegin, AddBegin, RemoveBegin
<1>3. CASE \E n \in Names : DeleteBegin(t, r, n)
  BY <1>3, StartType DEF DeleteBegin
<1>4. CASE \E q \in 0..MaxQuota : SetBegin(t, r, q)
  BY <1>4, StartType DEF SetBegin
<1>5. CASE \E v \in Volumes : GrowBegin(t, r, v) \/ ShrinkBegin(t, r, v)
  BY <1>5, StartType DEF GrowBegin, ShrinkBegin
<1>6. CASE ResetBegin(t, r) \/ ToggleBegin(t, r)
  BY <1>6, StartType DEF ResetBegin, ToggleBegin
<1> QED  BY <1>1, <1>2, <1>3, <1>4, <1>5, <1>6

LEMMA CreateType ==
  ASSUME TypeInv, NEW t \in Tasks,
         \/ CreateValidate(t) \/ CreateProbe(t) \/ CreateInsert(t)
         \/ CreatePanel(t) \/ CreateSubId(t) \/ CreateUndo(t)
  PROVE  TypeInv'
<1> USE LedgerAssumptions DEF Steps, ServiceOps, OpAt
<1>0. TaskInv /\ task[t] \in Task /\ Fits(task[t])
  BY DEF TypeInv, TypeOK, TaskInv, StepFitsOp
<1>1. CASE CreateValidate(t)
  BY <1>0, <1>1, GotoType, FinishType DEF CreateValidate, TypeInv, TypeOK, TaskInv, Fits
<1>2. CASE CreateProbe(t)
  BY <1>0, <1>2, GotoType, FinishType DEF CreateProbe, TypeInv, TypeOK, TaskInv, Fits
<1>3. CASE CreateInsert(t)
  <2>1. CASE Finish(t) /\ UNCHANGED <<records, nextId>>
    BY <1>0, <1>3, <2>1, FinishType DEF CreateInsert, TypeInv, TypeOK, TaskInv
  <2>2. CASE ~(Finish(t) /\ UNCHANGED <<records, nextId>>)
    <3>1. PICK i \in 1..MaxId :
            /\ records' = records \cup
                 {[id |-> i, name |-> task[t].name, owner |-> task[t].owner, alloc |-> task[t].vol]}
            /\ task' = [task EXCEPT ![t].pc = "panel", ![t].id = i]
      BY <1>3, <2>2 DEF CreateInsert
    <3>2. task[t].pc = "insert" /\ task[t] # Idle /\ task[t].op = "create"
      BY <1>0, <1>3 DEF CreateInsert, Fits, Idle
    <3>3. records' \subseteq RecordRow /\ IsFiniteSet(records')
      <4>1. records' \subseteq RecordRow
        BY <1>0, <3>1, <3>2 DEF TypeInv, TypeOK, RecordRow, Task, Fits
      <4> QED  BY <3>1, <4>1, FS_AddElement DEF TypeInv, TypeOK
    <3> DEFINE j == [task[t] EXCEPT !.pc = "panel", !.id = i]
    <3>4. j \in Task /\ Fits(j)
      <4>1. task[t] \in Task \ {Idle} /\ i \in 0..MaxId
        BY <1>0, <3>2
      <4>2. j \in Task
        BY <4>1 DEF Task
      <4>3. j.pc = "panel" /\ j.op = "create" /\ j.name = task[t].name
        BY <3>2, <4>1 DEF Task
      <4> QED  BY <1>0, <3>2, <4>2, <4>3 DEF Fits
    <3>5. TaskInv'
      BY <1>0, <3>1, <3>4, JobType
    <3>6. nextId' \in Nat \ {0}
      BY <1>3, <2>2 DEF CreateInsert, TypeInv, TypeOK
    <3> QED  BY <1>3, <3>3, <3>5, <3>6 DEF CreateInsert, TypeInv, TypeOK, TaskInv
  <2> QED  BY <2>1, <2>2
<1>4. CASE CreatePanel(t)
  <2>1. TaskInv'
    BY <1>0, <1>4, GotoType DEF CreatePanel, Fits
  <2>2. panel' \in [Names -> PanelClient]
    BY <1>0, <1>4 DEF CreatePanel, TypeInv, TypeOK, PanelClient, Task, Idle
  <2> QED  BY <1>4, <2>1, <2>2 DEF CreatePanel, TypeInv, TypeOK, TaskInv
<1>5. CASE CreateSubId(t)
  BY <1>0, <1>5, GotoType, FinishType DEF CreateSubId, TypeInv, TypeOK, TaskInv, Fits
<1>6. CASE CreateUndo(t)
  BY <1>0, <1>6, FinishType, WithoutType DEF CreateUndo, TypeInv, TypeOK, TaskInv
<1> QED  BY <1>1, <1>2, <1>3, <1>4, <1>5, <1>6

LEMMA FetchType ==
  ASSUME TypeInv, NEW t \in Tasks, Fetch(t)
  PROVE  TypeInv'
<1> USE LedgerAssumptions DEF Steps, ServiceOps, OpAt
<1>0. TaskInv /\ task[t] \in Task /\ Fits(task[t])
  BY DEF TypeInv, TypeOK, TaskInv, StepFitsOp
<1>1. CASE Finish(t)
  BY <1>0, <1>1, FinishType DEF Fetch, TypeInv, TypeOK, TaskInv
<1>2. CASE ~Finish(t)
  <2> DEFINE step == IF task[t].op = "add" THEN "panel" ELSE "traffic"
  <2>1. PICK x \in records :
          task' = [task EXCEPT ![t].id = x.id, ![t].alloc = x.alloc, ![t].pc = step]
    BY <1>2 DEF Fetch, Services
  <2> DEFINE j == [task[t] EXCEPT !.id = x.id, !.alloc = x.alloc, !.pc = step]
  <2>2. x.id \in 0..MaxId /\ x.alloc \in Nat
    BY DEF TypeInv, TypeOK, RecordRow
  <2>3. task[t].pc = "fetch" /\ task[t] \in Task \ {Idle}
    <3>1. task[t].pc = "fetch"
      BY DEF Fetch
    <3> QED  BY <1>0, <3>1 DEF Idle
  <2>4. j \in Task
    BY <2>2, <2>3 DEF Task
  <2>5. j.pc = step /\ j.op = task[t].op /\ j.name = task[t].name
    BY <2>3 DEF Task
  <2>6. Fits(j)
    BY <1>0, <2>3, <2>5 DEF Fits
  <2>7. TaskInv'
    BY <1>0, <2>1, <2>4, <2>6, JobType
  <2> QED  BY <2>7 DEF Fetch, TypeInv, TypeOK, TaskInv
<1> QED  BY <1>1, <1>2

LEMMA AddType ==
  ASSUME TypeInv, NEW t \in Tasks, AddPanel(t) \/ AddRecord(t)
  PROVE  TypeInv'
<1> USE LedgerAssumptions DEF Steps, ServiceOps, OpAt
<1>0. TaskInv /\ task[t] \in Task /\ Fits(task[t])
  BY DEF TypeInv, TypeOK, TaskInv, StepFitsOp
<1>1. task[t] \in Task \ {Idle}
  BY <1>0 DEF AddPanel, AddRecord, Idle
<1>2. CASE AddPanel(t)
  <2>1. TaskInv'
    BY <1>0, <1>2, GotoType, FinishType DEF AddPanel
  <2>2. panel' \in [Names -> PanelClient]
    <3>1. CASE UNCHANGED panel
      BY <3>1 DEF TypeInv, TypeOK
    <3>2. CASE ~UNCHANGED panel
      <4>1. PICK k \in 0..Attempts :
              /\ panel[task[t].name] # NoClient
              /\ panel' = [panel EXCEPT ![task[t].name].total = @ + k * task[t].vol]
        BY <1>2, <3>2 DEF AddPanel
      <4>2. k * task[t].vol \in Nat
        BY <1>1 DEF Task
      <4>3. task[t].name \in Names
        BY <1>0, <1>2 DEF AddPanel, Fits
      <4>4. panel[task[t].name] \in [total : Nat, used : Nat]
        BY <4>1, <4>3 DEF TypeInv, TypeOK, PanelClient
      <4> QED  BY <4>1, <4>2, <4>3, <4>4 DEF TypeInv, TypeOK, PanelClient
    <3> QED  BY <3>1, <3>2
  <2> QED  BY <1>2, <2>1, <2>2 DEF AddPanel, TypeInv, TypeOK, TaskInv
<1>3. CASE AddRecord(t)
  <2>1. TaskInv'
    BY <1>0, <1>3, GotoType, FinishType DEF AddRecord
  <2>2. records' \subseteq RecordRow /\ IsFiniteSet(records')
    BY <1>1, <1>3, AllocType DEF AddRecord, Task, TypeInv, TypeOK
  <2> QED  BY <1>3, <2>1, <2>2 DEF AddRecord, TypeInv, TypeOK, TaskInv
<1> QED  BY <1>2, <1>3

LEMMA RemoveType ==
  ASSUME TypeInv, NEW t \in Tasks, RemoveTraffic(t) \/ RemovePanel(t) \/ RemoveRecord(t)
  PROVE  TypeInv'
<1> USE LedgerAssumptions DEF Steps, ServiceOps, OpAt
<1>0. TaskInv /\ task[t] \in Task /\ Fits(task[t])
  BY DEF TypeInv, TypeOK, TaskInv, StepFitsOp
<1>1. task[t] \in Task \ {Idle}
  BY <1>0 DEF RemoveTraffic, RemovePanel, RemoveRecord, Idle
<1>2. CASE RemoveTraffic(t)
  BY <1>0, <1>2, GotoType, FinishType DEF RemoveTraffic, TypeInv, TypeOK, TaskInv
<1>3. CASE RemovePanel(t)
  <2>1. TaskInv'
    BY <1>0, <1>3, GotoType, FinishType DEF RemovePanel
  <2>2. panel' \in [Names -> PanelClient]
    <3>1. CASE UNCHANGED panel
      BY <3>1 DEF TypeInv, TypeOK
    <3>2. CASE ~UNCHANGED panel
      <4>1. PICK k \in 1..Attempts :
              /\ panel[task[t].name] # NoClient
              /\ panel' = [panel EXCEPT ![task[t].name].total =
                             Larger(0, @ - k * task[t].vol)]
        BY <1>3, <3>2 DEF RemovePanel
      <4>2. k * task[t].vol \in Nat
        BY <1>1 DEF Task
      <4>3. task[t].name \in Names
        BY <1>0, <1>3 DEF RemovePanel, Fits
      <4>4. panel[task[t].name] \in [total : Nat, used : Nat]
        BY <4>1, <4>3 DEF TypeInv, TypeOK, PanelClient
      <4>5. Larger(0, panel[task[t].name].total - k * task[t].vol) \in Nat
        BY <4>2, <4>4 DEF Larger
      <4> QED  BY <4>1, <4>3, <4>4, <4>5 DEF TypeInv, TypeOK, PanelClient
    <3> QED  BY <3>1, <3>2
  <2> QED  BY <1>3, <2>1, <2>2 DEF RemovePanel, TypeInv, TypeOK, TaskInv
<1>4. CASE RemoveRecord(t)
  <2>1. TaskInv'
    BY <1>0, <1>4, GotoType, FinishType DEF RemoveRecord
  <2>2. records' \subseteq RecordRow /\ IsFiniteSet(records')
    BY <1>1, <1>4, AllocType DEF RemoveRecord, Larger, Task, TypeInv, TypeOK
  <2> QED  BY <1>4, <2>1, <2>2 DEF RemoveRecord, TypeInv, TypeOK, TaskInv
<1> QED  BY <1>2, <1>3, <1>4

LEMMA LifetimeRow ==
  ASSUME TypeInv, NEW r \in Resellers, NEW a \in Nat, NEW b \in Nat,
         resellers' = [resellers EXCEPT ![r].lifetime = Put(@, a, b)]
  PROVE  resellers' \in [Resellers -> ResellerRow]
BY DEF TypeInv, TypeOK, ResellerRow, Put

LEMMA ChargeType ==
  ASSUME TypeInv, NEW t \in Tasks, Charge(t) \/ Credit(t)
  PROVE  TypeInv'
<1> USE LedgerAssumptions
<1>0. TaskInv /\ task[t] \in Task
  BY DEF TypeInv, TypeOK, TaskInv
<1>1. task[t].pc # "idle"
  BY DEF Charge, Credit
<1>2. task[t] \in Task \ {Idle}
  BY <1>0, <1>1 DEF Idle
<1>3. task[t].owner \in Resellers /\ task[t].lifetime \in Nat /\ task[t].vol \in Nat
  BY <1>2 DEF Task
<1>4. TaskInv'
  BY <1>0, FinishType DEF Charge, Credit
<1>5. CASE Charge(t)
  <2>1. task[t].lifetime + task[t].vol \in Nat
    BY <1>3
  <2> QED
    BY <1>3, <1>4, <1>5, <2>1, LifetimeRow
       DEF Charge, ChargeLifetime, TypeInv, TypeOK, TaskInv
<1>6. CASE Credit(t)
  <2>1. Larger(0, task[t].lifetime - task[t].vol) \in Nat
    BY <1>3 DEF Larger
  <2> QED
    BY <1>3, <1>4, <1>6, <2>1, LifetimeRow
       DEF Credit, CreditLifetime, TypeInv, TypeOK, TaskInv
<1> QED  BY <1>5, <1>6

LEMMA DeleteType ==
  ASSUME TypeInv, NEW t \in Tasks, DeleteTraffic(t) \/ DeletePanel(t) \/ DeleteRecord(t)
  PROVE  TypeInv'
<1> USE LedgerAssumptions DEF Steps, ServiceOps, OpAt
<1>0. TaskInv /\ task[t] \in Task /\ Fits(task[t])
  BY DEF TypeInv, TypeOK, TaskInv, StepFitsOp
<1>1. task[t].pc # "idle"
  BY DEF DeleteTraffic, DeletePanel, DeleteRecord
<1>2. task[t] \in Task \ {Idle}
  BY <1>0, <1>1 DEF Idle
<1>3. CASE DeleteTraffic(t)
  <2>1. CASE task' = [task EXCEPT ![t].pc = "drop", ![t].vol = task[t].alloc]
    <3> DEFINE j == [task[t] EXCEPT !.pc = "drop", !.vol = task[t].alloc]
    <3>1. j \in Task
      BY <1>2 DEF Task
    <3>2. j.pc = "drop" /\ j.op = task[t].op /\ j.name = task[t].name
      BY <1>2 DEF Task
    <3>3. Fits(j)
      BY <1>0, <1>1, <1>3, <3>2 DEF Fits, DeleteTraffic
    <3>4. TaskInv'
      BY <1>0, <2>1, <3>1, <3>3, JobType
    <3> QED  BY <1>3, <3>4 DEF DeleteTraffic, TypeInv, TypeOK, TaskInv
  <2>2. CASE Goto(t, "drop") \/ Finish(t)
    <3>1. TaskInv'
      BY <1>0, <1>1, <1>3, <2>2, GotoType, FinishType DEF DeleteTraffic
    <3> QED  BY <1>3, <3>1 DEF DeleteTraffic, TypeInv, TypeOK, TaskInv
  <2> QED  BY <1>3, <2>1, <2>2 DEF DeleteTraffic
<1>4. CASE DeletePanel(t)
  <2>1. task[t].op = "delete"
    BY <1>0, <1>1, <1>4 DEF Fits, DeletePanel
  <2>2. TaskInv'
    BY <1>0, <1>1, <1>4, <2>1, GotoType, FinishType DEF DeletePanel
  <2>3. panel' \in [Names -> PanelClient]
    BY <1>4 DEF DeletePanel, TypeInv, TypeOK, PanelClient
  <2> QED  BY <1>4, <2>2, <2>3 DEF DeletePanel, TypeInv, TypeOK, TaskInv
<1>5. CASE DeleteRecord(t)
  <2>1. TaskInv'
    BY <1>0, <1>1, <1>5, GotoType, FinishType DEF DeleteRecord
  <2>2. records' \subseteq RecordRow /\ IsFiniteSet(records')
    BY <1>5, WithoutType DEF DeleteRecord, TypeInv
  <2> QED  BY <1>5, <2>1, <2>2 DEF DeleteRecord, TypeInv, TypeOK, TaskInv
<1> QED  BY <1>3, <1>4, <1>5

(* The row an edit writes is a row. *)
LEMMA EditedRow ==
  ASSUME NEW row \in ResellerRow, NEW j \in Task, j.pc # "idle", j.op \in AdminOps
  PROVE  Edited(row, j) \in ResellerRow
<1> USE DEF AdminOps, ResellerRow, Put
<1>1. /\ j.quota \in Nat /\ j.lifetime \in Nat /\ j.vol \in Nat /\ j.active \in BOOLEAN
      /\ j.active = TRUE \/ j.active = FALSE
  BY DEF Task, Idle
<1>2. CASE j.op = "set"
  BY <1>1, <1>2 DEF Edited
<1>3. CASE j.op = "grow"
  BY <1>1, <1>3 DEF Edited
<1>4. CASE j.op = "shrink"
  <2>1. Larger(j.lifetime, j.quota - j.vol) \in Nat
    BY <1>1 DEF Larger
  <2> QED  BY <1>1, <1>4, <2>1 DEF Edited
<1>5. CASE j.op = "reset"
  BY <1>1, <1>5 DEF Edited
<1>6. CASE j.op = "toggle"
  BY <1>1, <1>6 DEF Edited
<1> QED  BY <1>2, <1>3, <1>4, <1>5, <1>6

LEMMA AdminType ==
  ASSUME TypeInv, NEW t \in Tasks, ResetSum(t) \/ AdminCommit(t)
  PROVE  TypeInv'
<1> USE LedgerAssumptions
<1>0. TaskInv /\ task[t] \in Task /\ Fits(task[t])
  BY DEF TypeInv, TypeOK, TaskInv, StepFitsOp
<1>1. task[t].pc # "idle"
  BY DEF ResetSum, AdminCommit
<1>2. task[t] \in Task \ {Idle}
  BY <1>0, <1>1 DEF Idle
<1>3. CASE ResetSum(t)
  <2>1. PICK total \in Nat : task' = [task EXCEPT ![t].pc = "commit", ![t].vol = total]
    BY <1>3, ActiveNat DEF ResetSum, TypeInv
  <2> DEFINE j == [task[t] EXCEPT !.pc = "commit", !.vol = total]
  <2>2. j \in Task
    BY <1>2 DEF Task, Steps
  <2>3. j.pc = "commit" /\ j.op = task[t].op /\ j.name = task[t].name
    BY <1>2 DEF Task
  <2>4. task[t].op = "reset"
    BY <1>0, <1>1, <1>3 DEF Fits, OpAt, ResetSum
  <2>5. Fits(j)
    BY <2>3, <2>4 DEF Fits, OpAt, AdminOps, ServiceOps
  <2>6. TaskInv'
    BY <1>0, <2>1, <2>2, <2>5, JobType
  <2> QED  BY <1>3, <2>6 DEF ResetSum, TypeInv, TypeOK, TaskInv
<1>4. CASE AdminCommit(t)
  <2>1. TaskInv'
    BY <1>0, <1>4, FinishType DEF AdminCommit
  <2>2. task[t].op \in AdminOps
    BY <1>0, <1>1, <1>4 DEF Fits, OpAt, AdminCommit
  <2>3. task[t].owner \in Resellers
    BY <1>2 DEF Task
  <2>4. Edited(resellers[task[t].owner], task[t]) \in ResellerRow
    BY <1>0, <1>1, <2>2, <2>3, EditedRow DEF TypeInv, TypeOK
  <2>5. resellers' \in [Resellers -> ResellerRow]
    BY <1>4, <2>4 DEF AdminCommit, TypeInv, TypeOK
  <2> QED  BY <1>4, <2>1, <2>5 DEF AdminCommit, TypeInv, TypeOK, TaskInv
<1> QED  BY <1>3, <1>4

LEMMA ConsumeType ==
  ASSUME TypeInv, NEW n \in Names, Consume(n)
  PROVE  TypeInv'
<1>1. panel[n] \in [total : Nat, used : Nat]
  BY DEF Consume, TypeInv, TypeOK, PanelClient
<1>2. panel' \in [Names -> PanelClient]
  BY <1>1 DEF Consume, TypeInv, TypeOK, PanelClient
<1> QED  BY <1>2 DEF Consume, TypeInv, TypeOK, StepFitsOp, Fits

LEMMA CrashType == TypeInv /\ Crash => TypeInv'
BY DEF TypeInv, TypeOK, Crash, StepFitsOp, Fits, Task, Idle

LEMMA TypeStep == TypeInv /\ [Next \/ Crash]_vars => TypeInv'
<1> SUFFICES ASSUME TypeInv, [Next \/ Crash]_vars PROVE TypeInv'
  OBVIOUS
<1>1. CASE UNCHANGED vars
  BY <1>1 DEF vars, TypeInv, TypeOK, StepFitsOp, Fits
<1>2. CASE Crash
  BY <1>2, CrashType
<1>3. ASSUME NEW n \in Names, Consume(n) PROVE TypeInv'
  BY <1>3, ConsumeType
<1>4. ASSUME NEW t \in Tasks, Begin(t) PROVE TypeInv'
  BY <1>4, BeginType
<1>5. ASSUME NEW t \in Tasks, Continue(t) PROVE TypeInv'
  BY <1>5, CreateType, FetchType, AddType, ChargeType, RemoveType, DeleteType, AdminType
     DEF Continue
<1> QED  BY <1>1, <1>2, <1>3, <1>4, <1>5 DEF Next

(* Every variable keeps its type, and every handler is at a step of its    *)
(* operation, whatever is interleaved and wherever the process ends.       *)
THEOREM TypeCorrect == CrashSpec => []TypeOK
<1>1. TypeInv => TypeOK
  BY DEF TypeInv
<1> QED  BY InitType, TypeStep, <1>1, PTL DEF CrashSpec

-----------------------------------------------------------------------------
(* What a reseller is charged stays within the cap: for any number of      *)
(* handlers at once while the admin leaves the cap alone, and for one      *)
(* handler at a time when the admin edits it.                              *)

CapEdits == {"set", "grow", "shrink", "reset"}

(* The handler has passed the check of the quota. *)
Granted(j) == \/ j.op = "create" /\ j.pc # "validate"
              \/ j.op = "add" /\ j.pc \in {"record", "charge"}

(* What the session of a handler caches is enough for what it may write:   *)
(* its cap is the committed one and what it adds fits under it, though the *)
(* lifetime it adds to may be long overwritten.                            *)
Backed(j, rows) ==
    j.pc # "idle" =>
        /\ j.quota = rows[j.owner].quota
        /\ j.lifetime <= j.quota
        /\ Granted(j) => j.lifetime + j.vol <= j.quota

AllBacked == \A t \in Tasks : Backed(task[t], resellers)

QuotaInv == TypeInv /\ LifetimeWithinQuota /\ AllBacked

LEMMA InitQuotaInv == Init => QuotaInv
<1> SUFFICES ASSUME Init PROVE QuotaInv
  OBVIOUS
<1>1. LifetimeWithinQuota
  BY LedgerAssumptions DEF Init, LifetimeWithinQuota
<1>2. AllBacked
  BY DEF Init, AllBacked, Backed, Idle
<1> QED  BY <1>1, <1>2, InitType DEF QuotaInv

(* A step that changes one handler and no row. *)
LEMMA JobBacked ==
  ASSUME QuotaInv, NEW t \in Tasks, NEW j, Backed(j, resellers),
         task' = [task EXCEPT ![t] = j], UNCHANGED resellers, TypeInv'
  PROVE  QuotaInv'
<1>1. \A u \in Tasks : task'[u] = IF u = t THEN j ELSE task[u]
  BY DEF QuotaInv, TypeInv, TypeOK
<1>2. AllBacked'
  BY <1>1 DEF QuotaInv, AllBacked, Backed, Granted
<1>3. LifetimeWithinQuota'
  BY DEF QuotaInv, LifetimeWithinQuota
<1> QED  BY <1>2, <1>3 DEF QuotaInv

LEMMA FinishBacked ==
  ASSUME QuotaInv, NEW t \in Tasks, Finish(t), UNCHANGED resellers, TypeInv'
  PROVE  QuotaInv'
<1>1. Backed(Idle, resellers)
  BY DEF Backed, Idle
<1> QED  BY <1>1, JobBacked DEF Finish

(* A step to where no more is granted than before. *)
LEMMA GotoBacked ==
  ASSUME QuotaInv, NEW t \in Tasks, task[t].pc # "idle", NEW step \in Steps \ {"idle"},
         Goto(t, step), UNCHANGED resellers, TypeInv',
         Granted([task[t] EXCEPT !.pc = step]) =>
            Granted(task[t]) \/ task[t].vol <= Remaining(task[t])
  PROVE  QuotaInv'
<1> DEFINE j == [task[t] EXCEPT !.pc = step]
<1>1. task[t] \in Task \ {Idle}
  BY DEF QuotaInv, TypeInv, TypeOK, Task, Idle
<1>2. /\ j.owner = task[t].owner /\ j.quota = task[t].quota
      /\ j.lifetime = task[t].lifetime /\ j.vol = task[t].vol
      /\ j.quota \in Nat /\ j.lifetime \in Nat /\ j.vol \in Nat
  BY <1>1 DEF Task
<1>3. Backed(task[t], resellers)
  BY DEF QuotaInv, AllBacked
<1>4. task[t].vol <= Remaining(task[t]) => j.lifetime + j.vol <= j.quota
  BY <1>2, <1>3 DEF Remaining, Larger, Backed
<1>5. Backed(j, resellers)
  <2>1. j.quota = resellers[j.owner].quota /\ j.lifetime <= j.quota
    BY <1>2, <1>3 DEF Backed
  <2>2. Granted(j) => j.lifetime + j.vol <= j.quota
    BY <1>2, <1>3, <1>4 DEF Backed
  <2> QED  BY <2>1, <2>2 DEF Backed
<1>6. task' = [task EXCEPT ![t] = j]
  BY DEF Goto
<1> QED  BY <1>5, <1>6, JobBacked

LEMMA StartBacked ==
  ASSUME QuotaInv, NEW t \in Tasks, NEW o, NEW r \in Resellers, NEW n, NEW v \in Nat,
         NEW step, Start(t, o, r, n, v, step), TypeInv',
         \/ o = "create" /\ step = "validate"
         \/ o = "add" /\ step = "fetch"
         \/ o \notin {"create", "add"}
  PROVE  QuotaInv'
<1> DEFINE j == [pc |-> step, op |-> o, owner |-> r, name |-> n, vol |-> v, id |-> 0,
                 alloc |-> 0, quota |-> resellers[r].quota,
                 lifetime |-> resellers[r].lifetime, active |-> resellers[r].active]
<1>1. j.lifetime <= j.quota
  BY DEF QuotaInv, LifetimeWithinQuota
<1>2. ~Granted(j)
  BY DEF Granted
<1>3. Backed(j, resellers)
  BY <1>1, <1>2 DEF Backed
<1> QED  BY <1>3, JobBacked DEF Start

LEMMA BeginBacked ==
  ASSUME QuotaInv, NEW t \in Tasks, Begin(t), TypeInv'
  PROVE  QuotaInv'
<1> USE LedgerAssumptions
<1>1. PICK r \in Resellers :
        \/ \E n \in Names, v \in Volumes :
              CreateBegin(t, r, n, v) \/ AddBegin(t, r, n, v) \/ RemoveBegin(t, r, n, v)
        \/ \E n \in Names : DeleteBegin(t, r, n)
        \/ \E q \in 0..MaxQuota : SetBegin(t, r, q)
        \/ \E v \in Volumes : GrowBegin(t, r, v) \/ ShrinkBegin(t, r, v)
        \/ ResetBegin(t, r)
        \/ ToggleBegin(t, r)
  BY DEF Begin
<1>2. CASE \E n \in Names, v \in Volumes :
              CreateBegin(t, r, n, v) \/ AddBegin(t, r, n, v) \/ RemoveBegin(t, r, n, v)
  BY <1>2, StartBacked DEF CreateBegin, AddBegin, RemoveBegin
<1>3. CASE \E n \in Names : DeleteBegin(t, r, n)
  BY <1>3, StartBacked DEF DeleteBegin
<1>4. CASE \E q \in 0..MaxQuota : SetBegin(t, r, q)
  BY <1>4, StartBacked DEF SetBegin
<1>5. CASE \E v \in Volumes : GrowBegin(t, r, v) \/ ShrinkBegin(t, r, v)
  BY <1>5, StartBacked DEF GrowBegin, ShrinkBegin
<1>6. CASE ResetBegin(t, r) \/ ToggleBegin(t, r)
  BY <1>6, StartBacked DEF ResetBegin, ToggleBegin
<1> QED  BY <1>1, <1>2, <1>3, <1>4, <1>5, <1>6

(* The steps that leave the rows of resellers alone. *)
LEMMA CreateBacked ==
  ASSUME QuotaInv, NEW t \in Tasks, TypeInv',
         \/ CreateValidate(t) \/ CreateProbe(t) \/ CreateInsert(t)
         \/ CreatePanel(t) \/ CreateSubId(t) \/ CreateUndo(t)
  PROVE  QuotaInv'
<1> USE DEF Steps
<1>0. task[t] \in Task /\ Fits(task[t]) /\ Backed(task[t], resellers)
  BY DEF QuotaInv, TypeInv, TypeOK, StepFitsOp, AllBacked
<1>1. task[t].pc # "idle"
  BY DEF CreateValidate, CreateProbe, CreateInsert, CreatePanel, CreateSubId, CreateUndo
<1>2. task[t] \in Task \ {Idle}
  BY <1>0, <1>1 DEF Idle
<1>3. \A step \in Steps : /\ [task[t] EXCEPT !.pc = step].pc = step
                          /\ [task[t] EXCEPT !.pc = step].op = task[t].op
  BY <1>2 DEF Task
<1>4. UNCHANGED resellers
  BY DEF CreateValidate, CreateProbe, CreateInsert, CreatePanel, CreateSubId, CreateUndo
<1>5. CASE Finish(t)
  BY <1>4, <1>5, FinishBacked
<1>6. CASE CreateValidate(t) /\ ~Finish(t)
  <2>1. task[t].vol <= Remaining(task[t]) /\ Goto(t, "probe")
    BY <1>6 DEF CreateValidate, CreateAllowed
  <2> QED  BY <1>1, <1>4, <2>1, GotoBacked
<1>7. CASE (CreateProbe(t) \/ CreatePanel(t) \/ CreateSubId(t)) /\ ~Finish(t)
  <2>1. PICK step \in {"insert", "subid", "undo", "charge"} : Goto(t, step)
    BY <1>7 DEF CreateProbe, CreatePanel, CreateSubId
  <2>2. Granted(task[t])
    BY <1>0, <1>1, <1>7 DEF Granted, Fits, OpAt, CreateProbe, CreatePanel, CreateSubId
  <2> QED  BY <1>1, <1>4, <2>1, <2>2, GotoBacked
<1>8. CASE CreateInsert(t) /\ ~Finish(t)
  <2>1. PICK i \in 1..MaxId : task' = [task EXCEPT ![t].pc = "panel", ![t].id = i]
    BY <1>8 DEF CreateInsert
  <2> DEFINE j == [task[t] EXCEPT !.pc = "panel", !.id = i]
  <2>2. /\ j.owner = task[t].owner /\ j.quota = task[t].quota
        /\ j.lifetime = task[t].lifetime /\ j.vol = task[t].vol
    BY <1>2 DEF Task
  <2>3. Granted(task[t])
    BY <1>0, <1>1, <1>8 DEF Granted, Fits, OpAt, CreateInsert
  <2>4. Backed(j, resellers)
    BY <1>0, <1>1, <2>2, <2>3 DEF Backed
  <2>5. task' = [task EXCEPT ![t] = j]
    BY <2>1
  <2> QED  BY <1>4, <2>4, <2>5, JobBacked
<1>9. CreateUndo(t) => Finish(t)
  BY DEF CreateUndo
<1> QED  BY <1>5, <1>6, <1>7, <1>8, <1>9

(* A handler of a service whose row, or volume to give back, is read. *)
LEMMA ReadBacked ==
  ASSUME QuotaInv, NEW t \in Tasks, TypeInv',
         Fetch(t) \/ DeleteTraffic(t) \/ ResetSum(t)
  PROVE  QuotaInv'
<1> USE DEF Steps
<1>0. task[t] \in Task /\ Fits(task[t]) /\ Backed(task[t], resellers)
  BY DEF QuotaInv, TypeInv, TypeOK, StepFitsOp, AllBacked
<1>1. task[t].pc # "idle" /\ UNCHANGED resellers
  BY DEF Fetch, DeleteTraffic, ResetSum
<1>2. task[t] \in Task \ {Idle}
  BY <1>0, <1>1 DEF Idle
<1>3. CASE Finish(t)
  BY <1>1, <1>3, FinishBacked
<1>4. CASE Fetch(t) /\ ~Finish(t)
  <2> DEFINE step == IF task[t].op = "add" THEN "panel" ELSE "traffic"
  <2>1. PICK x \in records :
          task' = [task EXCEPT ![t].id = x.id, ![t].alloc = x.alloc, ![t].pc = step]
    BY <1>4 DEF Fetch, Services
  <2> DEFINE j == [task[t] EXCEPT !.id = x.id, !.alloc = x.alloc, !.pc = step]
  <2>2. /\ j.owner = task[t].owner /\ j.quota = task[t].quota /\ j.pc = step
        /\ j.lifetime = task[t].lifetime /\ j.op = task[t].op
    BY <1>2 DEF Task
  <2>3. ~Granted(j)
    <3>1. task[t].op # "create"
      BY <1>0, <1>4 DEF Fetch, Fits, OpAt
    <3> QED  BY <2>2, <3>1 DEF Granted
  <2>4. Backed(j, resellers)
    BY <1>0, <1>1, <2>2, <2>3 DEF Backed
  <2>5. task' = [task EXCEPT ![t] = j]
    BY <2>1
  <2> QED  BY <1>1, <2>4, <2>5, JobBacked
<1>5. CASE DeleteTraffic(t) /\ ~Finish(t)
  <2>1. CASE Goto(t, "drop")
    <3>1. [task[t] EXCEPT !.pc = "drop"].op = "delete"
      BY <1>2, <1>5 DEF DeleteTraffic, Task
    <3> QED  BY <1>1, <2>1, <3>1, GotoBacked DEF Granted
  <2>2. CASE ~Goto(t, "drop")
    <3> DEFINE j == [task[t] EXCEPT !.pc = "drop", !.vol = task[t].alloc]
    <3>1. task' = [task EXCEPT ![t] = j]
      BY <1>5, <2>2 DEF DeleteTraffic
    <3>2. /\ j.owner = task[t].owner /\ j.quota = task[t].quota
          /\ j.lifetime = task[t].lifetime /\ j.op = "delete"
      BY <1>2, <1>5 DEF Task, DeleteTraffic
    <3>3. Backed(j, resellers)
      BY <1>0, <1>1, <3>2 DEF Backed, Granted
    <3> QED  BY <1>1, <3>1, <3>3, JobBacked
  <2> QED  BY <2>1, <2>2
<1>6. CASE ResetSum(t)
  <2>1. PICK total \in Nat : task' = [task EXCEPT ![t].pc = "commit", ![t].vol = total]
    BY <1>6, ActiveNat DEF ResetSum, QuotaInv, TypeInv
  <2> DEFINE j == [task[t] EXCEPT !.pc = "commit", !.vol = total]
  <2>2. /\ j.owner = task[t].owner /\ j.quota = task[t].quota
        /\ j.lifetime = task[t].lifetime /\ j.op = "reset"
    BY <1>0, <1>2, <1>6 DEF Task, Fits, OpAt, ResetSum
  <2>3. Backed(j, resellers)
    BY <1>0, <1>1, <2>2 DEF Backed, Granted
  <2>4. task' = [task EXCEPT ![t] = j]
    BY <2>1
  <2> QED  BY <1>1, <2>3, <2>4, JobBacked
<1> QED  BY <1>3, <1>4, <1>5, <1>6

LEMMA ServiceBacked ==
  ASSUME QuotaInv, NEW t \in Tasks, TypeInv',
         \/ AddPanel(t) \/ AddRecord(t)
         \/ RemoveTraffic(t) \/ RemovePanel(t) \/ RemoveRecord(t)
         \/ DeletePanel(t) \/ DeleteRecord(t)
  PROVE  QuotaInv'
<1> USE DEF Steps
<1>0. task[t] \in Task /\ Fits(task[t]) /\ Backed(task[t], resellers)
  BY DEF QuotaInv, TypeInv, TypeOK, StepFitsOp, AllBacked
<1>1. task[t].pc # "idle" /\ UNCHANGED resellers
  BY DEF AddPanel, AddRecord, RemoveTraffic, RemovePanel, RemoveRecord,
         DeletePanel, DeleteRecord
<1>2. task[t] \in Task \ {Idle}
  BY <1>0, <1>1 DEF Idle
<1>3. \A step \in Steps : /\ [task[t] EXCEPT !.pc = step].pc = step
                          /\ [task[t] EXCEPT !.pc = step].op = task[t].op
  BY <1>2 DEF Task
<1>4. CASE Finish(t)
  BY <1>1, <1>4, FinishBacked
<1>5. CASE AddPanel(t) /\ ~Finish(t)
  <2>1. task[t].vol <= Remaining(task[t]) /\ Goto(t, "record")
    BY <1>5 DEF AddPanel, AddAllowed
  <2> QED  BY <1>1, <2>1, GotoBacked
<1>6. CASE AddRecord(t) /\ ~Finish(t)
  <2>1. Granted(task[t]) /\ Goto(t, "charge")
    BY <1>6 DEF AddRecord, Granted
  <2> QED  BY <1>1, <2>1, GotoBacked
<1>7. CASE ~AddPanel(t) /\ ~AddRecord(t) /\ ~Finish(t)
  <2>1. PICK step \in {"panel", "record", "credit"} : Goto(t, step)
    BY <1>7 DEF RemoveTraffic, RemovePanel, RemoveRecord, DeletePanel, DeleteRecord
  <2>2. task[t].op \in {"remove", "delete"}
    BY <1>0, <1>7 DEF RemoveTraffic, RemovePanel, RemoveRecord, DeletePanel, DeleteRecord,
                      Fits, OpAt
  <2>3. ~Granted([task[t] EXCEPT !.pc = step])
    BY <1>3, <2>2 DEF Granted
  <2> QED  BY <1>1, <2>1, <2>3, GotoBacked
<1> QED  BY <1>4, <1>5, <1>6, <1>7

(* The last commit of a handler of a service: the cap stays, and the       *)
(* lifetime written is the cached one plus a granted volume, or less.      *)
LEMMA ChargeBacked ==
  ASSUME QuotaInv, NEW t \in Tasks, TypeInv', Charge(t) \/ Credit(t)
  PROVE  QuotaInv'
<1>0. task[t] \in Task /\ Fits(task[t]) /\ Backed(task[t], resellers)
  BY DEF QuotaInv, TypeInv, TypeOK, StepFitsOp, AllBacked
<1>1. task[t].pc # "idle"
  BY DEF Charge, Credit
<1> DEFINE j == task[t]
<1>2. j.owner \in Resellers /\ j.lifetime \in Nat /\ j.vol \in Nat /\ j.quota \in Nat
  BY <1>0, <1>1 DEF Task, Idle
<1>3. PICK new \in Nat : /\ new <= j.quota
                         /\ resellers' = [resellers EXCEPT ![j.owner].lifetime =
                                            Put(@, j.lifetime, new)]
  <2>1. CASE Charge(t)
    <3>1. Granted(j)
      BY <1>0, <1>1, <2>1 DEF Charge, Granted, Fits, OpAt
    <3>2. j.lifetime + j.vol \in Nat /\ j.lifetime + j.vol <= j.quota
      BY <1>0, <1>1, <1>2, <3>1 DEF Backed
    <3> QED  BY <2>1, <3>2 DEF Charge, ChargeLifetime
  <2>2. CASE Credit(t)
    <3>1. j.lifetime <= j.quota
      BY <1>0, <1>1 DEF Backed
    <3>2. /\ Larger(0, j.lifetime - j.vol) \in Nat
          /\ Larger(0, j.lifetime - j.vol) <= j.quota
      BY <1>2, <3>1 DEF Larger
    <3> QED  BY <2>2, <3>2 DEF Credit, CreditLifetime
  <2> QED  BY <2>1, <2>2
<1>4. j.quota = resellers[j.owner].quota
  BY <1>0, <1>1 DEF Backed
<1>5. \A r \in Resellers :
         /\ resellers'[r].quota = resellers[r].quota
         /\ resellers'[r].lifetime <= resellers[r].quota
  BY <1>2, <1>3, <1>4
     DEF QuotaInv, TypeInv, TypeOK, ResellerRow, LifetimeWithinQuota, Put
<1>6. task' = [task EXCEPT ![t] = Idle]
  BY DEF Charge, Credit, Finish
<1>7. AllBacked'
  <2> SUFFICES ASSUME NEW u \in Tasks, task'[u].pc # "idle"
               PROVE  Backed(task[u], resellers') /\ task'[u] = task[u]
    BY DEF AllBacked, Backed, Granted
  <2>1. task'[u] = task[u] /\ task[u].pc # "idle"
    BY <1>6 DEF QuotaInv, TypeInv, TypeOK, Idle
  <2>2. task[u].owner \in Resellers
    BY <2>1 DEF QuotaInv, TypeInv, TypeOK, Task, Idle
  <2> QED  BY <1>5, <2>1, <2>2 DEF QuotaInv, AllBacked, Backed
<1>8. LifetimeWithinQuota'
  BY <1>5 DEF LifetimeWithinQuota
<1> QED  BY <1>7, <1>8 DEF QuotaInv

LEMMA ToggleBacked ==
  ASSUME QuotaInv, NEW t \in Tasks, TypeInv', AdminCommit(t), task[t].op = "toggle"
  PROVE  QuotaInv'
<1>1. task[t].owner \in Resellers
  BY DEF QuotaInv, TypeInv, TypeOK, Task, Idle, AdminCommit
<1>2. \A r \in Resellers : /\ resellers'[r].quota = resellers[r].quota
                           /\ resellers'[r].lifetime = resellers[r].lifetime
  BY <1>1 DEF AdminCommit, Edited, QuotaInv, TypeInv, TypeOK, ResellerRow
<1>3. task' = [task EXCEPT ![t] = Idle]
  BY DEF AdminCommit, Finish
<1>4. AllBacked'
  <2> SUFFICES ASSUME NEW u \in Tasks, task'[u].pc # "idle"
               PROVE  Backed(task[u], resellers') /\ task'[u] = task[u]
    BY DEF AllBacked, Backed, Granted
  <2>1. task'[u] = task[u] /\ task[u].pc # "idle"
    BY <1>3 DEF QuotaInv, TypeInv, TypeOK, Idle
  <2>2. task[u].owner \in Resellers
    BY <2>1 DEF QuotaInv, TypeInv, TypeOK, Task, Idle
  <2> QED  BY <1>2, <2>1, <2>2 DEF QuotaInv, AllBacked, Backed
<1>5. LifetimeWithinQuota'
  BY <1>2 DEF QuotaInv, LifetimeWithinQuota
<1> QED  BY <1>4, <1>5 DEF QuotaInv

(* Everything but the commit of an edit of the cap, for any handlers. *)
LEMMA QuotaStep ==
  ASSUME QuotaInv, [Next \/ Crash]_vars,
         \A t \in Tasks : AdminCommit(t) => task[t].op = "toggle"
  PROVE  QuotaInv'
<1>0. TypeInv'
  BY TypeStep DEF QuotaInv
<1>1. CASE UNCHANGED vars
  BY <1>0, <1>1 DEF vars, QuotaInv, LifetimeWithinQuota, AllBacked, Backed, Granted
<1>2. CASE Crash
  BY <1>0, <1>2 DEF Crash, QuotaInv, LifetimeWithinQuota, AllBacked, Backed, Idle
<1>3. ASSUME NEW n \in Names, Consume(n) PROVE QuotaInv'
  BY <1>0, <1>3 DEF Consume, QuotaInv, LifetimeWithinQuota, AllBacked, Backed, Granted
<1>4. ASSUME NEW t \in Tasks, Begin(t) PROVE QuotaInv'
  BY <1>0, <1>4, BeginBacked
<1>5. ASSUME NEW t \in Tasks, Continue(t) PROVE QuotaInv'
  BY <1>0, <1>5, CreateBacked, ReadBacked, ServiceBacked, ChargeBacked, ToggleBacked
     DEF Continue
<1> QED  BY <1>1, <1>2, <1>3, <1>4, <1>5 DEF Next

(* While the admin leaves the cap alone, no interleaving of handlers and   *)
(* no end of the process lets what is charged pass it: a check made on a   *)
(* row long overwritten is as good as one made at the commit, because what *)
(* the commit writes is the checked row and not the committed one.         *)
THEOREM LifetimeCapped ==
  ASSUME Ops \cap CapEdits = {}
  PROVE  CrashSpec => []LifetimeWithinQuota
<1>1. QuotaInv /\ [Next \/ Crash]_vars => QuotaInv'
  <2> SUFFICES ASSUME QuotaInv, [Next \/ Crash]_vars PROVE QuotaInv'
    OBVIOUS
  <2>1. ASSUME NEW t \in Tasks, AdminCommit(t) PROVE task[t].op = "toggle"
    <3>1. task[t].op \in Ops /\ task[t].op \in AdminOps
      BY <2>1 DEF QuotaInv, TypeInv, TypeOK, StepFitsOp, Fits, OpAt, AdminCommit, Task, Idle
    <3> QED  BY <3>1 DEF AdminOps, CapEdits
  <2> QED  BY <2>1, QuotaStep
<1>2. QuotaInv => LifetimeWithinQuota
  BY DEF QuotaInv
<1> QED  BY <1>1, <1>2, InitQuotaInv, PTL DEF CrashSpec

-----------------------------------------------------------------------------
(* One handler at a time, the admin's edits among them. *)

OneAtATime == \A t, u \in Tasks : t = u

(* What a lone handler has read is what is committed; the cap the admin    *)
(* enters has passed its floor.                                            *)
Current(j, rows) ==
    j.pc # "idle" => /\ j.lifetime = rows[j.owner].lifetime
                     /\ j.op = "set" => j.lifetime <= j.vol

AllCurrent == \A t \in Tasks : Current(task[t], resellers)

(* A step of a handler keeps what the handler has read. *)
LEMMA ContinueKeeps ==
  ASSUME TypeInv, NEW t \in Tasks, Continue(t), task'[t].pc # "idle"
  PROVE  /\ UNCHANGED resellers
         /\ task[t].pc # "idle"
         /\ task'[t].owner = task[t].owner
         /\ task'[t].op = task[t].op
         /\ task'[t].lifetime = task[t].lifetime
         /\ task[t].op = "set" => task'[t].vol = task[t].vol
<1>0. task \in [Tasks -> Task] /\ task[t] \in Task /\ Fits(task[t])
  BY DEF TypeInv, TypeOK, StepFitsOp
<1>1. ~Finish(t)
  BY <1>0 DEF Finish, Idle
<1>2. task[t].pc # "idle"
  BY DEF Continue, CreateValidate, CreateProbe, CreateInsert, CreatePanel, CreateSubId,
         CreateUndo, Fetch, AddPanel, AddRecord, Charge, RemoveTraffic, RemovePanel,
         RemoveRecord, DeleteTraffic, DeletePanel, DeleteRecord, Credit, ResetSum, AdminCommit
<1>3. task[t] \in Task \ {Idle}
  BY <1>0, <1>2 DEF Idle
<1>4. CASE \E step : Goto(t, step)
  <2>1. UNCHANGED resellers
    BY <1>1 DEF Continue, CreateValidate, CreateProbe, CreateInsert, CreatePanel,
         CreateSubId, CreateUndo, Fetch, AddPanel, AddRecord, Charge, RemoveTraffic,
         RemovePanel, RemoveRecord, DeleteTraffic, DeletePanel, DeleteRecord, Credit,
         ResetSum, AdminCommit
  <2> QED  BY <1>0, <1>2, <1>3, <1>4, <2>1 DEF Goto, Task
<1>5. CASE CreateInsert(t)
  BY <1>0, <1>1, <1>2, <1>3, <1>5 DEF CreateInsert, Task
<1>6. CASE Fetch(t)
  <2> DEFINE step == IF task[t].op = "add" THEN "panel" ELSE "traffic"
  <2>1. PICK x \in records :
          task' = [task EXCEPT ![t].id = x.id, ![t].alloc = x.alloc, ![t].pc = step]
    BY <1>1, <1>6 DEF Fetch, Services
  <2> HIDE DEF step
  <2>2. UNCHANGED resellers
    BY <1>6 DEF Fetch
  <2> QED  BY <1>0, <1>2, <1>3, <2>1, <2>2 DEF Task
<1>7. CASE DeleteTraffic(t) /\ ~Goto(t, "drop")
  BY <1>0, <1>1, <1>2, <1>3, <1>7 DEF DeleteTraffic, Task
<1>8. CASE ResetSum(t)
  <2>1. task[t].op # "set"
    BY <1>0, <1>2, <1>8 DEF ResetSum, Fits, OpAt
  <2> QED  BY <1>0, <1>2, <1>3, <1>8, <2>1 DEF ResetSum, Task
<1>9. CASE CreateValidate(t) \/ CreateProbe(t) \/ CreatePanel(t) \/ CreateSubId(t)
           \/ CreateUndo(t)
  <2>1. \E step : Goto(t, step)
    BY <1>1, <1>9 DEF CreateValidate, CreateProbe, CreatePanel, CreateSubId, CreateUndo
  <2> QED  BY <1>4, <2>1
<1>10. CASE AddPanel(t) \/ AddRecord(t) \/ Charge(t) \/ Credit(t) \/ AdminCommit(t)
  <2>1. \E step : Goto(t, step)
    BY <1>1, <1>10 DEF AddPanel, AddRecord, Charge, Credit, AdminCommit
  <2> QED  BY <1>4, <2>1
<1>11. CASE RemoveTraffic(t) \/ RemovePanel(t) \/ RemoveRecord(t)
            \/ DeletePanel(t) \/ DeleteRecord(t)
  <2>1. \E step : Goto(t, step)
    BY <1>1, <1>11 DEF RemoveTraffic, RemovePanel, RemoveRecord, DeletePanel, DeleteRecord
  <2> QED  BY <1>4, <2>1
<1> QED
  BY <1>4, <1>5, <1>6, <1>7, <1>8, <1>9, <1>10, <1>11 DEF Continue

LEMMA CurrentStep ==
  ASSUME OneAtATime, QuotaInv, AllCurrent, [Next \/ Crash]_vars
  PROVE  AllCurrent'
<1>0. task \in [Tasks -> Task]
  BY DEF QuotaInv, TypeInv, TypeOK
<1>1. CASE UNCHANGED vars
  BY <1>1 DEF vars, AllCurrent, Current
<1>2. CASE Crash
  BY <1>2 DEF Crash, AllCurrent, Current, Idle
<1>3. ASSUME NEW n \in Names, Consume(n) PROVE AllCurrent'
  BY <1>3 DEF Consume, AllCurrent, Current
<1>4. ASSUME NEW t \in Tasks, Begin(t) PROVE AllCurrent'
  <2>1. Tasks = {t}
    BY DEF OneAtATime
  <2>2. /\ UNCHANGED resellers
        /\ task'[t].lifetime = resellers[task'[t].owner].lifetime
        /\ task'[t].op = "set" => task'[t].lifetime <= task'[t].vol
    BY <1>0, <1>4 DEF Begin, CreateBegin, AddBegin, RemoveBegin, DeleteBegin, SetBegin,
                      GrowBegin, ShrinkBegin, ResetBegin, ToggleBegin, Start
  <2> QED  BY <2>1, <2>2 DEF AllCurrent, Current
<1>5. ASSUME NEW t \in Tasks, Continue(t) PROVE AllCurrent'
  <2>1. Tasks = {t}
    BY DEF OneAtATime
  <2>2. CASE task'[t].pc = "idle"
    BY <2>1, <2>2 DEF AllCurrent, Current
  <2>3. CASE task'[t].pc # "idle"
    BY <1>5, <2>1, <2>3, ContinueKeeps DEF QuotaInv, AllCurrent, Current
  <2> QED  BY <2>2, <2>3
<1> QED  BY <1>1, <1>2, <1>3, <1>4, <1>5 DEF Next

(* An edit of the cap keeps it above what is charged. *)
LEMMA EditBacked ==
  ASSUME OneAtATime, QuotaInv, AllCurrent, NEW t \in Tasks, AdminCommit(t),
         task[t].op # "reset", TypeInv'
  PROVE  QuotaInv'
<1> DEFINE j == task[t]
           row == resellers[j.owner]
<1>1. /\ j.owner \in Resellers /\ j.lifetime \in Nat /\ j.vol \in Nat /\ j.quota \in Nat
      /\ j.op \in AdminOps
  BY DEF QuotaInv, TypeInv, TypeOK, StepFitsOp, Fits, OpAt, AdminCommit, Task, Idle
<1>2. j.lifetime = row.lifetime /\ j.quota = row.quota /\ j.lifetime <= j.quota
  BY DEF QuotaInv, AllBacked, Backed, AllCurrent, Current, AdminCommit
<1>3. row \in ResellerRow
  BY <1>1 DEF QuotaInv, TypeInv, TypeOK
<1>4. Edited(row, j).lifetime <= Edited(row, j).quota
  <2>1. CASE j.op = "set"
    <3>1. j.lifetime <= j.vol
      BY <2>1 DEF AllCurrent, Current, AdminCommit
    <3> QED  BY <1>1, <1>2, <1>3, <2>1, <3>1 DEF Edited, Put, ResellerRow
  <2>2. CASE j.op = "grow"
    BY <1>1, <1>2, <1>3, <2>2 DEF Edited, Put, ResellerRow
  <2>3. CASE j.op = "shrink"
    BY <1>1, <1>2, <1>3, <2>3 DEF Edited, Put, Larger, ResellerRow
  <2>4. CASE j.op = "toggle"
    BY <1>1, <1>2, <1>3, <2>4 DEF Edited, Put, ResellerRow
  <2> QED  BY <1>1, <2>1, <2>2, <2>3, <2>4 DEF AdminOps
<1>5. resellers' = [resellers EXCEPT ![j.owner] = Edited(row, j)]
  BY DEF AdminCommit
<1>6. LifetimeWithinQuota'
  BY <1>1, <1>4, <1>5 DEF QuotaInv, TypeInv, TypeOK, LifetimeWithinQuota
<1>7. \A u \in Tasks : task'[u].pc = "idle"
  BY DEF OneAtATime, AdminCommit, Finish, Idle, QuotaInv, TypeInv, TypeOK
<1> QED  BY <1>6, <1>7 DEF QuotaInv, AllBacked, Backed

(* With handlers one at a time the cap holds whatever the admin does to    *)
(* it, short of forgiving use: every new cap has passed the floor of what  *)
(* is charged, and nothing has been charged since.                         *)
THEOREM LifetimeCappedSerially ==
  ASSUME OneAtATime, "reset" \notin Ops
  PROVE  CrashSpec => []LifetimeWithinQuota
<1> DEFINE Inv == QuotaInv /\ AllCurrent
<1>1. Init => Inv
  BY InitQuotaInv DEF Init, AllCurrent, Current, Idle
<1>2. Inv /\ [Next \/ Crash]_vars => Inv'
  <2> SUFFICES ASSUME Inv, [Next \/ Crash]_vars PROVE Inv'
    OBVIOUS
  <2>1. TypeInv'
    BY TypeStep DEF QuotaInv
  <2>2. CASE \E t \in Tasks : AdminCommit(t)
    <3>1. PICK t \in Tasks : AdminCommit(t)
      BY <2>2
    <3>2. task[t].op # "reset"
      BY <3>1 DEF QuotaInv, TypeInv, TypeOK, AdminCommit, Task, Idle
    <3> QED  BY <2>1, <3>1, <3>2, EditBacked, CurrentStep
  <2>3. CASE ~\E t \in Tasks : AdminCommit(t)
    BY <2>3, QuotaStep, CurrentStep
  <2> QED  BY <2>2, <2>3
<1>3. Inv => LifetimeWithinQuota
  BY DEF QuotaInv
<1> QED  BY <1>1, <1>2, <1>3, PTL DEF CrashSpec

-----------------------------------------------------------------------------
(* The id a session has cached names the row it was read from, or none,    *)
(* unless it was given again to a new row, which AUTOINCREMENT rules out.  *)

SameRow(x, y) == x.id = y.id /\ x.name = y.name /\ x.owner = y.owner

(* With AUTOINCREMENT, ids of rows and of handlers were given out before.  *)
IdsGiven ==
    IdReuse \/ /\ \A x \in records : x.id < nextId
               /\ \A t \in Tasks : task[t].id < nextId

(* A row has no double, and a handler whose id is a row's works on it.     *)
Excused(t) == IdReuse /\ t \in regiven

IdsName ==
    /\ \A x, y \in records : x.id = y.id => SameRow(x, y)
    /\ \A t \in Tasks : \A x \in records :
          task[t].id = x.id => SameRow(task[t], x) \/ Excused(t)

IdInv == TypeInv /\ IdsGiven /\ IdsName

LEMMA InitIdInv == IdsInit => IdInv
<1> SUFFICES ASSUME IdsInit PROVE IdInv
  OBVIOUS
<1>1. IdsGiven /\ IdsName
  BY DEF IdsInit, Init, IdsGiven, IdsName, Idle
<1> QED  BY <1>1, InitType DEF IdsInit, IdInv

(* What every step but the insertion of a row does to the rows, and every  *)
(* step but that and Fetch to the ids handlers hold.                       *)
RowsKept == /\ nextId' = nextId
            /\ \A x \in records' : \E y \in records : SameRow(x, y)

IdKept(t) == task'[t].id = 0 \/ SameRow(task'[t], task[t])

LEMMA ExcusedStays ==
  ASSUME Remember, NEW t \in Tasks, task'[t].id # 0, Excused(t)
  PROVE  Excused(t)'
BY LedgerAssumptions DEF Remember, Excused, Idle

LEMMA KeptIdInv ==
  ASSUME IdInv, RowsKept, TypeInv', Remember, \A t \in Tasks : IdKept(t)
  PROVE  IdInv'
<1>1. IdsGiven'
  BY DEF IdInv, IdsGiven, RowsKept, IdKept, SameRow, TypeInv, TypeOK
<1>2. \A x, y \in records' : x.id = y.id => SameRow(x, y)
  BY DEF IdInv, IdsName, RowsKept, SameRow
<1>3. \A t \in Tasks : \A x \in records' :
        task'[t].id = x.id => SameRow(task'[t], x) \/ Excused(t)'
  <2> SUFFICES ASSUME NEW t \in Tasks, NEW x \in records', task'[t].id = x.id
               PROVE  SameRow(task'[t], x) \/ Excused(t)'
    OBVIOUS
  <2>1. PICK y \in records : SameRow(x, y)
    BY DEF RowsKept
  <2>2. x.id # 0
    BY DEF TypeInv, TypeOK, RecordRow
  <2>3. SameRow(task'[t], task[t]) /\ task[t].id = y.id
    BY <2>1, <2>2 DEF IdKept, SameRow
  <2>4. SameRow(task[t], y) \/ Excused(t)
    BY <2>3 DEF IdInv, IdsName
  <2> QED  BY <2>1, <2>2, <2>3, <2>4, ExcusedStays DEF SameRow
<1>4. IdsName'
  BY <1>2, <1>3 DEF IdsName, SameRow
<1> QED  BY <1>1, <1>4 DEF IdInv

(* A step of one handler, as it does to that handler's id. *)
LEMMA OneIdKept ==
  ASSUME TypeInv, NEW t \in Tasks, Begin(t) \/ Continue(t), NEW u \in Tasks, u # t
  PROVE  task'[u] = task[u]
<1>0. task \in [Tasks -> Task]
  BY DEF TypeInv, TypeOK
<1>1. CASE Begin(t)
  BY <1>0, <1>1 DEF Begin, CreateBegin, AddBegin, RemoveBegin, DeleteBegin, SetBegin,
       GrowBegin, ShrinkBegin, ResetBegin, ToggleBegin, Start
<1>2. CASE CreateValidate(t) \/ CreateProbe(t) \/ CreateInsert(t) \/ CreatePanel(t)
           \/ CreateSubId(t) \/ CreateUndo(t)
  BY <1>0, <1>2 DEF CreateValidate, CreateProbe, CreateInsert, CreatePanel, CreateSubId,
       CreateUndo, Goto, Finish
<1>3. CASE Fetch(t)
  BY <1>0, <1>3 DEF Fetch, Finish
<1>4. CASE AddPanel(t) \/ AddRecord(t) \/ Charge(t) \/ Credit(t) \/ AdminCommit(t)
           \/ ResetSum(t)
  BY <1>0, <1>4 DEF AddPanel, AddRecord, Charge, Credit, AdminCommit, ResetSum, Goto, Finish
<1>5. CASE RemoveTraffic(t) \/ RemovePanel(t) \/ RemoveRecord(t) \/ DeleteTraffic(t)
           \/ DeletePanel(t) \/ DeleteRecord(t)
  BY <1>0, <1>5 DEF RemoveTraffic, RemovePanel, RemoveRecord, DeleteTraffic, DeletePanel,
       DeleteRecord, Goto, Finish
<1> QED  BY <1>1, <1>2, <1>3, <1>4, <1>5 DEF Continue

LEMMA JobIdKept ==
  ASSUME TypeInv, NEW t \in Tasks,
         Finish(t) \/ \E step : Goto(t, step)
  PROVE  \A u \in Tasks : IdKept(u)
BY DEF TypeInv, TypeOK, Finish, Goto, IdKept, SameRow, Idle, Task

LEMMA RowsSame == ASSUME UNCHANGED <<records, nextId>> PROVE RowsKept
BY DEF RowsKept, SameRow

LEMMA WithoutKept ==
  ASSUME NEW i, records' = WithoutRow(i), UNCHANGED nextId PROVE RowsKept
BY DEF RowsKept, SameRow, WithoutRow

LEMMA WithAllocKept ==
  ASSUME NEW i, NEW a, TypeInv, records' = WithAlloc(i, a), UNCHANGED nextId
  PROVE  RowsKept
<1> SUFFICES ASSUME NEW x \in records' PROVE \E y \in records : SameRow(x, y)
  BY DEF RowsKept
<1>1. PICK y \in records : x = IF y.id = i THEN [y EXCEPT !.alloc = a] ELSE y
  BY DEF WithAlloc
<1>2. SameRow(x, y)
  BY <1>1 DEF SameRow, TypeInv, TypeOK, RecordRow
<1> QED  BY <1>2

(* The two steps that give a handler an id. *)
LEMMA InsertIds ==
  ASSUME IdInv, NEW t \in Tasks, CreateInsert(t), ~Finish(t), TypeInv', Remember
  PROVE  IdInv'
<1> DEFINE j == task[t]
<1>0. task \in [Tasks -> Task] /\ j # Idle /\ nextId \in Nat
  BY DEF CreateInsert, Idle, IdInv, TypeInv, TypeOK
<1>1. PICK i \in 1..MaxId :
        /\ FreshId(i)
        /\ records' = records \cup
              {[id |-> i, name |-> j.name, owner |-> j.owner, alloc |-> j.vol]}
        /\ task' = [task EXCEPT ![t].pc = "panel", ![t].id = i]
        /\ nextId' = IF IdReuse THEN nextId ELSE nextId + 1
  BY DEF CreateInsert
<1> DEFINE new == [id |-> i, name |-> j.name, owner |-> j.owner, alloc |-> j.vol]
<1>2. SameRow(task'[t], new) /\ i \in Nat \ {0}
  BY <1>0, <1>1, LedgerAssumptions DEF SameRow, Task
<1>3. \A u \in Tasks \ {t} : task'[u] = task[u]
  BY <1>0, <1>1
<1>4. \A x \in records : x.id \in Nat /\ x.id < i
  <2>1. CASE IdReuse
    BY <1>1, <2>1 DEF FreshId, IdInv, TypeInv, TypeOK, RecordRow
  <2>2. CASE ~IdReuse
    BY <1>1, <2>2 DEF FreshId, IdInv, IdsGiven, TypeInv, TypeOK, RecordRow
  <2> QED  BY <2>1, <2>2
<1>5. ~IdReuse => i = nextId /\ nextId' = i + 1
                  /\ \A u \in Tasks : task[u].id \in Nat /\ task[u].id < i
  BY <1>0, <1>1 DEF FreshId, IdInv, IdsGiven, Task, Idle
<1>6. IdsGiven'
  <2> SUFFICES ASSUME ~IdReuse
               PROVE  /\ \A x \in records' : x.id < nextId'
                      /\ \A u \in Tasks : task'[u].id < nextId'
    BY DEF IdsGiven
  <2>1. \A x \in records' : x.id < nextId'
    BY <1>0, <1>1, <1>4, <1>5
  <2>2. \A u \in Tasks : task'[u].id < nextId'
    BY <1>0, <1>1, <1>2, <1>3, <1>5 DEF SameRow
  <2> QED  BY <2>1, <2>2
<1>7. IdsName'
  <2>1. \A x, y \in records' : x.id = y.id => SameRow(x, y)
    BY <1>0, <1>1, <1>4 DEF IdInv, IdsName, SameRow
  <2>2. \A u \in Tasks : \A x \in records' :
          task'[u].id = x.id => SameRow(task'[u], x) \/ Excused(u)'
    <3> SUFFICES ASSUME NEW u \in Tasks, NEW x \in records', task'[u].id = x.id
                 PROVE  SameRow(task'[u], x) \/ Excused(u)'
      OBVIOUS
    <3>1. CASE u = t
      <4>1. x = new
        BY <1>0, <1>1, <1>2, <1>4, <3>1 DEF SameRow
      <4> QED  BY <1>2, <3>1, <4>1
    <3>2. CASE u # t /\ x \in records
      <4>1. task'[u] = task[u] /\ x.id # 0
        BY <1>3, <3>2 DEF IdInv, TypeInv, TypeOK, RecordRow
      <4>2. SameRow(task[u], x) \/ Excused(u)
        BY <3>2, <4>1 DEF IdInv, IdsName
      <4> QED  BY <4>1, <4>2, ExcusedStays
    <3>3. CASE u # t /\ x = new
      <4>1. task'[u] = task[u] /\ task[u].id = i
        BY <1>3, <3>3
      <4>2. IdReuse
        BY <1>5, <4>1
      <4>3. GivenAgain(u)
        BY <1>1, <1>2, <1>4, <4>1 DEF GivenAgain, RowExists
      <4>4. task'[u] # Idle
        BY <1>2, <4>1 DEF Idle
      <4> QED  BY <4>2, <4>3, <4>4 DEF Remember, Excused
    <3> QED  BY <1>1, <3>1, <3>2, <3>3
  <2> QED  BY <2>1, <2>2 DEF IdsName, SameRow
<1> QED  BY <1>6, <1>7 DEF IdInv

LEMMA FetchIds ==
  ASSUME IdInv, NEW t \in Tasks, Fetch(t), ~Finish(t), TypeInv', Remember
  PROVE  IdInv'
<1> DEFINE step == IF task[t].op = "add" THEN "panel" ELSE "traffic"
<1>0. task \in [Tasks -> Task] /\ task[t] # Idle /\ UNCHANGED <<records, nextId>>
  <2>1. task[t].pc = "fetch" /\ UNCHANGED <<records, nextId>>
    BY DEF Fetch
  <2> QED  BY <2>1 DEF Idle, IdInv, TypeInv, TypeOK
<1>1. PICK x \in records :
        /\ x.owner = task[t].owner /\ x.name = task[t].name
        /\ task' = [task EXCEPT ![t].id = x.id, ![t].alloc = x.alloc, ![t].pc = step]
  BY DEF Fetch, Services
<1> HIDE DEF step
<1>2. SameRow(task'[t], x)
  BY <1>0, <1>1 DEF SameRow, Task
<1>3. \A u \in Tasks \ {t} : task'[u] = task[u]
  BY <1>0, <1>1
<1>4. IdsGiven'
  BY <1>0, <1>1, <1>2, <1>3 DEF IdInv, IdsGiven, SameRow
<1>5. IdsName'
  <2>1. \A u \in Tasks : \A y \in records :
          task'[u].id = y.id => SameRow(task'[u], y) \/ Excused(u)'
    <3> SUFFICES ASSUME NEW u \in Tasks, NEW y \in records, task'[u].id = y.id
                 PROVE  SameRow(task'[u], y) \/ Excused(u)'
      OBVIOUS
    <3>1. CASE u = t
      BY <1>2, <3>1 DEF IdInv, IdsName, SameRow
    <3>2. CASE u # t
      <4>1. task'[u] = task[u] /\ y.id # 0
        BY <1>3, <3>2 DEF IdInv, TypeInv, TypeOK, RecordRow
      <4>2. SameRow(task[u], y) \/ Excused(u)
        BY <4>1 DEF IdInv, IdsName
      <4> QED  BY <4>1, <4>2, ExcusedStays
    <3> QED  BY <3>1, <3>2
  <2> QED  BY <1>0, <2>1 DEF IdInv, IdsName, SameRow
<1> QED  BY <1>4, <1>5 DEF IdInv

LEMMA BeginIds ==
  ASSUME TypeInv, NEW t \in Tasks, Begin(t)
  PROVE  RowsKept /\ \A u \in Tasks : IdKept(u)
<1>1. UNCHANGED <<records, nextId>>
  BY DEF Begin, CreateBegin, AddBegin, RemoveBegin, DeleteBegin, SetBegin, GrowBegin,
         ShrinkBegin, ResetBegin, ToggleBegin, Start
<1>2. task'[t].id = 0
  BY DEF Begin, CreateBegin, AddBegin, RemoveBegin, DeleteBegin, SetBegin, GrowBegin,
         ShrinkBegin, ResetBegin, ToggleBegin, Start, TypeInv, TypeOK
<1> QED  BY <1>1, <1>2, RowsSame, OneIdKept DEF IdKept, SameRow

(* A handler's other steps. *)
LEMMA ContinueIds ==
  ASSUME TypeInv, NEW t \in Tasks, Continue(t), Finish(t) \/ ~(CreateInsert(t) \/ Fetch(t))
  PROVE  RowsKept /\ \A u \in Tasks : IdKept(u)
<1>1. CASE Fetch(t) \/ CreateValidate(t) \/ CreateProbe(t) \/ CreatePanel(t)
           \/ CreateSubId(t)
  <2>1. UNCHANGED <<records, nextId>>
    BY <1>1 DEF Fetch, CreateValidate, CreateProbe, CreatePanel, CreateSubId
  <2>2. Finish(t) \/ \E step : Goto(t, step)
    BY <1>1 DEF CreateValidate, CreateProbe, CreatePanel, CreateSubId
  <2> QED  BY <2>1, <2>2, RowsSame, JobIdKept
<1>2. CASE CreateInsert(t)
  <2>1. Finish(t)
    BY <1>2
  <2>2. UNCHANGED <<records, nextId>>
    <3>1. task[t].pc = "insert" /\ task'[t].pc = "idle"
      BY <1>2, <2>1 DEF CreateInsert, Finish, Idle, TypeInv, TypeOK
    <3>2. ASSUME NEW i, task' = [task EXCEPT ![t].pc = "panel", ![t].id = i]
          PROVE  FALSE
      <4>1. task[t] \in Task \ {Idle} /\ task \in [Tasks -> Task]
        BY <3>1 DEF Idle, TypeInv, TypeOK
      <4>2. task'[t].pc = "panel"
        BY <3>2, <4>1 DEF Task
      <4> QED  BY <3>1, <4>2
    <3> QED  BY <1>2, <3>2 DEF CreateInsert
  <2> QED  BY <2>1, <2>2, RowsSame, JobIdKept
<1>3. CASE CreateUndo(t) \/ DeleteRecord(t)
  <2>1. RowsKept
    BY <1>3, WithoutKept DEF CreateUndo, DeleteRecord
  <2>2. Finish(t) \/ \E step : Goto(t, step)
    BY <1>3 DEF CreateUndo, DeleteRecord
  <2> QED  BY <2>1, <2>2, JobIdKept
<1>4. CASE AddRecord(t) \/ RemoveRecord(t)
  <2>1. RowsKept
    BY <1>4, WithAllocKept, RowsSame DEF AddRecord, RemoveRecord
  <2>2. Finish(t) \/ \E step : Goto(t, step)
    BY <1>4 DEF AddRecord, RemoveRecord
  <2> QED  BY <2>1, <2>2, JobIdKept
<1>5. CASE AddPanel(t) \/ Charge(t) \/ Credit(t) \/ AdminCommit(t) \/ RemoveTraffic(t)
           \/ RemovePanel(t) \/ DeletePanel(t)
  <2>1. UNCHANGED <<records, nextId>>
    BY <1>5 DEF AddPanel, Charge, Credit, AdminCommit, RemoveTraffic, RemovePanel, DeletePanel
  <2>2. Finish(t) \/ \E step : Goto(t, step)
    BY <1>5 DEF AddPanel, Charge, Credit, AdminCommit, RemoveTraffic, RemovePanel, DeletePanel
  <2> QED  BY <2>1, <2>2, RowsSame, JobIdKept
<1>6. CASE DeleteTraffic(t) \/ ResetSum(t)
  <2>1. UNCHANGED <<records, nextId>>
    BY <1>6 DEF DeleteTraffic, ResetSum
  <2>2. \/ Finish(t) \/ \E step : Goto(t, step)
        \/ \E step, v : task' = [task EXCEPT ![t].pc = step, ![t].vol = v]
    BY <1>6 DEF DeleteTraffic, ResetSum
  <2>3. CASE \E step, v : task' = [task EXCEPT ![t].pc = step, ![t].vol = v]
    BY <2>1, <2>3, RowsSame DEF TypeInv, TypeOK, IdKept, SameRow, Idle, Task
  <2> QED  BY <2>1, <2>2, <2>3, RowsSame, JobIdKept
<1> QED  BY <1>1, <1>2, <1>3, <1>4, <1>5, <1>6 DEF Continue

LEMMA IdStep ==
  ASSUME IdInv, [IdsNext]_idVars
  PROVE  IdInv'
<1>1. CASE UNCHANGED idVars
  BY <1>1 DEF idVars, vars, IdInv, TypeInv, TypeOK, StepFitsOp, IdsGiven, IdsName, Excused
<1>2. CASE IdsNext
  <2>0. TypeInv /\ TypeInv' /\ Remember /\ (Next \/ Crash)
    BY <1>2, TypeStep DEF IdInv, IdsNext
  <2>1. CASE Crash \/ \E n \in Names : Consume(n)
    <3>1. UNCHANGED <<records, nextId>> /\ \A t \in Tasks : IdKept(t)
      BY <2>1 DEF Crash, Consume, IdKept, SameRow, Idle
    <3> QED  BY <2>0, <3>1, RowsSame, KeptIdInv
  <2>2. ASSUME NEW t \in Tasks, Begin(t) PROVE IdInv'
    BY <2>0, <2>2, BeginIds, KeptIdInv
  <2>3. ASSUME NEW t \in Tasks, Continue(t) PROVE IdInv'
    <3>1. CASE Finish(t) \/ ~(CreateInsert(t) \/ Fetch(t))
      BY <2>0, <2>3, <3>1, ContinueIds, KeptIdInv
    <3>2. CASE ~Finish(t) /\ (CreateInsert(t) \/ Fetch(t))
      BY <2>0, <3>2, InsertIds, FetchIds
    <3> QED  BY <3>1, <3>2
  <2> QED  BY <2>0, <2>1, <2>2, <2>3 DEF Next
<1> QED  BY <1>1, <1>2

(* Only four steps change or remove a row, and they find it by its id. *)
LEMMA OwnRows ==
  ASSUME IdInv, [IdsNext]_idVars
  PROVE  OwnRowsOnly
<1> SUFFICES ASSUME NEW x \in records, x \notin records'
             PROVE  \E t \in Tasks : /\ task'[t] # task[t]
                                     /\ task[t].id = x.id
                                     /\ \/ task[t].name = x.name /\ task[t].owner = x.owner
                                        \/ IdReuse /\ t \in regiven
  BY DEF OwnRowsOnly
<1>0. TypeInv
  BY DEF IdInv
<1>1. ~UNCHANGED records
  OBVIOUS
<1>2. PICK t \in Tasks : Continue(t)
  <2>1. /\ Next \/ Crash
        /\ ~(Crash \/ \E n \in Names : Consume(n))
    BY <1>1 DEF idVars, vars, IdsNext, Crash, Consume
  <2>2. ASSUME NEW t \in Tasks, Begin(t) PROVE FALSE
    BY <1>1, <2>2 DEF Begin, CreateBegin, AddBegin, RemoveBegin, DeleteBegin, SetBegin,
                      GrowBegin, ShrinkBegin, ResetBegin, ToggleBegin, Start
  <2> QED  BY <2>1, <2>2 DEF Next
<1>3. CreateUndo(t) \/ DeleteRecord(t) \/ AddRecord(t) \/ RemoveRecord(t)
  <2>1. ~CreateInsert(t)
    BY DEF CreateInsert
  <2> QED
    BY <1>1, <1>2, <2>1
       DEF Continue, CreateValidate, CreateProbe, CreatePanel, CreateSubId, Fetch, AddPanel,
           Charge, RemoveTraffic, RemovePanel, DeleteTraffic, DeletePanel, Credit, ResetSum,
           AdminCommit
<1>4. task[t].pc \in {"undo", "record"} /\ task \in [Tasks -> Task]
  BY <1>0, <1>3 DEF CreateUndo, DeleteRecord, AddRecord, RemoveRecord, TypeInv, TypeOK
<1>5. task[t] \in Task \ {Idle}
  BY <1>4 DEF Idle
<1>6. task'[t] # task[t]
  <2>1. \/ Finish(t)
        \/ \E step \in {"credit", "charge"} : Goto(t, step)
    BY <1>3 DEF CreateUndo, DeleteRecord, AddRecord, RemoveRecord
  <2>2. task'[t].pc \in {"idle", "credit", "charge"}
    BY <1>4, <1>5, <2>1 DEF Finish, Goto, Idle, Task
  <2> QED  BY <1>4, <2>2
<1>7. x.id = task[t].id
  <2>1. \/ records' = WithoutRow(task[t].id)
        \/ \E a : records' = WithAlloc(task[t].id, a)
    BY <1>1, <1>3 DEF CreateUndo, DeleteRecord, AddRecord, RemoveRecord
  <2> QED  BY <2>1 DEF WithoutRow, WithAlloc
<1> QED  BY <1>6, <1>7 DEF IdInv, IdsName, SameRow, Excused

(* A handler changes and removes only the service its user asked for,      *)
(* however long it waited and whatever was deleted, sold again or lost in  *)
(* a crash meanwhile, unless SQLite gave its id to a new row while it was  *)
(* at work; a table with AUTOINCREMENT never does.                         *)
THEOREM OwnServiceTouched == IdsSpec => TouchesOwnService
<1>1. IdInv /\ [IdsNext]_idVars => IdInv'
  BY IdStep
<1>2. IdInv /\ [IdsNext]_idVars => [OwnRowsOnly]_idVars
  BY OwnRows
<1> QED  BY <1>1, <1>2, InitIdInv, PTL DEF IdsSpec, TouchesOwnService
=============================================================================
