--------------------------- MODULE SharedCapProofs ---------------------------
(***************************************************************************)
(* Proofs about what the services of a reseller hold, the sum over the     *)
(* rows of client_records, for every value of the constants: handlers that *)
(* run one at a time implement QuotaAccount and keep the services within   *)
(* the cap; deletions that interleave give nothing back twice; and the     *)
(* account that is implemented is worth implementing.                      *)
(***************************************************************************)
EXTENDS LedgerProofs, MCLedgerModes

-----------------------------------------------------------------------------
(* What a change of one row does to the sum.                               *)

Bytes(rows, r) == Total([x \in {x \in rows : x.owner = r} |-> x.alloc])

UniqueIds == \A x, y \in records : x.id = y.id => x = y

LEMMA BytesNat ==
  ASSUME NEW rows \in SUBSET RecordRow, IsFiniteSet(rows), NEW r
  PROVE  Bytes(rows, r) \in Nat
<1>1. IsFiniteSet({x \in rows : x.owner = r})
  BY FS_Subset
<1>2. \A x \in rows : x.alloc \in Nat
  BY DEF RecordRow
<1> QED  BY <1>1, <1>2, TotalNat DEF Bytes

LEMMA BytesAdd ==
  ASSUME NEW rows \in SUBSET RecordRow, IsFiniteSet(rows), NEW r,
         NEW x \in RecordRow, x \notin rows
  PROVE  Bytes(rows \cup {x}, r) = Bytes(rows, r) + (IF x.owner = r THEN x.alloc ELSE 0)
<1> DEFINE old == {y \in rows : y.owner = r}
           new == {y \in rows \cup {x} : y.owner = r}
<1>1. CASE x.owner = r
  <2> DEFINE amount == [y \in old |-> y.alloc]
             more == [y \in new |-> y.alloc]
  <2>1. new = old \cup {x} /\ x \notin old
    BY <1>1
  <2>2. IsFiniteSet(old)
    BY FS_Subset
  <2>3. more[x] = x.alloc /\ more[x] \in Nat /\ \A y \in old : amount[y] \in Nat
    BY <2>1 DEF RecordRow
  <2>4. /\ DOMAIN amount = old /\ DOMAIN more = DOMAIN amount \cup {x}
        /\ \A y \in old : more[y] = amount[y]
    BY <2>1
  <2> HIDE DEF amount, more, old, new
  <2>5. Total(more) = Total(amount) + more[x]
    BY <2>1, <2>2, <2>3, <2>4, TotalAdd
  <2> QED  BY <1>1, <2>3, <2>5 DEF Bytes, amount, more, old, new
<1>2. CASE x.owner # r
  <2>1. new = old
    BY <1>2
  <2>2. /\ Bytes(rows \cup {x}, r) = Total([y \in new |-> y.alloc])
        /\ Bytes(rows, r) = Total([y \in old |-> y.alloc])
    BY DEF Bytes
  <2> HIDE DEF old, new
  <2>3. Bytes(rows \cup {x}, r) = Bytes(rows, r)
    BY <2>1, <2>2
  <2> QED  BY <1>2, <2>3, BytesNat
<1> QED  BY <1>1, <1>2

LEMMA BytesDrop ==
  ASSUME NEW rows \in SUBSET RecordRow, IsFiniteSet(rows), NEW r, NEW x \in rows
  PROVE  Bytes(rows \ {x}, r) = Bytes(rows, r) - (IF x.owner = r THEN x.alloc ELSE 0)
<1> DEFINE less == rows \ {x}
<1>1. less \in SUBSET RecordRow /\ x \in RecordRow /\ x \notin less /\ rows = less \cup {x}
  OBVIOUS
<1>2. IsFiniteSet(less)
  BY FS_Subset
<1>3. x.alloc \in Nat
  BY <1>1 DEF RecordRow
<1> HIDE DEF less
<1>4. Bytes(rows, r) = Bytes(less, r) + (IF x.owner = r THEN x.alloc ELSE 0)
  BY <1>1, <1>2, BytesAdd
<1>5. Bytes(less, r) \in Nat
  BY <1>1, <1>2, BytesNat
<1> QED  BY <1>3, <1>4, <1>5 DEF less

(* The same, for the three ways the table changes. *)

LEMMA RowAdded ==
  ASSUME TypeOK, NEW x \in RecordRow, x \notin records, records' = records \cup {x}, NEW r
  PROVE  ActiveBytes(r)' = ActiveBytes(r) + (IF x.owner = r THEN x.alloc ELSE 0)
<1>1. Bytes(records \cup {x}, r) = Bytes(records, r) + (IF x.owner = r THEN x.alloc ELSE 0)
  BY BytesAdd DEF TypeOK
<1> QED  BY <1>1 DEF Bytes, ActiveBytes, Services

LEMMA RowGone ==
  ASSUME TypeOK, UniqueIds, NEW x \in records, records' = WithoutRow(x.id), NEW r
  PROVE  /\ records' = records \ {x}
         /\ ActiveBytes(r)' = ActiveBytes(r) - (IF x.owner = r THEN x.alloc ELSE 0)
<1>1. records' = records \ {x}
  BY DEF UniqueIds, WithoutRow
<1>2. Bytes(records \ {x}, r) = Bytes(records, r) - (IF x.owner = r THEN x.alloc ELSE 0)
  BY BytesDrop DEF TypeOK
<1> QED  BY <1>1, <1>2 DEF Bytes, ActiveBytes, Services

LEMMA RowWritten ==
  ASSUME TypeOK, UniqueIds, NEW x \in records, NEW a \in Nat,
         records' = WithAlloc(x.id, a), NEW r
  PROVE  /\ records' = (records \ {x}) \cup {[x EXCEPT !.alloc = a]}
         /\ ActiveBytes(r)' = ActiveBytes(r) + (IF x.owner = r THEN a - x.alloc ELSE 0)
<1> DEFINE y == [x EXCEPT !.alloc = a]
           rest == records \ {x}
<1>1. y \in RecordRow /\ y.alloc = a /\ y.owner = x.owner /\ x.alloc \in Nat /\ y.id = x.id
  BY DEF TypeOK, RecordRow
<1>2. records' = rest \cup {y}
  BY DEF UniqueIds, WithAlloc
<1>3. y \notin rest
  BY <1>1 DEF UniqueIds
<1>4. rest \in SUBSET RecordRow /\ IsFiniteSet(rest)
  BY FS_Subset DEF TypeOK
<1>5. /\ Bytes(rest, r) = Bytes(records, r) - (IF x.owner = r THEN x.alloc ELSE 0)
      /\ Bytes(records, r) \in Nat
  BY BytesDrop, BytesNat DEF TypeOK
<1> HIDE DEF rest, y
<1>6. Bytes(rest \cup {y}, r) = Bytes(rest, r) + (IF y.owner = r THEN y.alloc ELSE 0)
  BY <1>1, <1>3, <1>4, BytesAdd
<1>7. Bytes(records', r) = Bytes(records, r) + (IF x.owner = r THEN a - x.alloc ELSE 0)
  BY <1>1, <1>2, <1>5, <1>6
<1> QED  BY <1>2, <1>7 DEF Bytes, ActiveBytes, Services, rest, y

-----------------------------------------------------------------------------
(* The account: its operations are worth implementing.                     *)

CapsEntered == \A r \in Resellers : accountOf[r].quota <= MaxQuota

AccountInv == A!AccountTypeOK /\ A!AccountSound /\ CapsEntered

LEMMA AccountConstants == A!AccountAssumptions
BY LedgerAssumptions DEF A!AccountAssumptions

LEMMA AccountInit == A!Init => AccountInv
BY LedgerAssumptions
   DEF A!Init, AccountInv, A!AccountTypeOK, A!AccountSound, A!Account, CapsEntered

(* One account replaced by another sound one. *)
LEMMA OneAccount ==
  ASSUME AccountInv, NEW r \in Resellers, NEW row \in A!Account,
         row.held <= row.charged, row.charged <= row.quota, row.quota <= MaxQuota,
         accountOf' = [accountOf EXCEPT ![r] = row]
  PROVE  AccountInv'
BY DEF AccountInv, A!AccountTypeOK, A!AccountSound, CapsEntered

LEMMA AccountStep ==
  ASSUME AccountInv, [A!Next]_accountOf
  PROVE  AccountInv'
<1>0. \A r \in Resellers :
         /\ accountOf[r] \in A!Account
         /\ accountOf[r].quota \in Nat /\ accountOf[r].charged \in Nat /\ accountOf[r].held \in Nat
         /\ accountOf[r].held <= accountOf[r].charged /\ accountOf[r].charged <= accountOf[r].quota
         /\ accountOf[r].quota <= MaxQuota
  BY DEF AccountInv, A!AccountTypeOK, A!AccountSound, A!Account, CapsEntered
<1>1. CASE UNCHANGED accountOf
  BY <1>1 DEF AccountInv, A!AccountTypeOK, A!AccountSound, CapsEntered
<1>2. ASSUME NEW r \in Resellers, NEW v \in 0..MaxQuota,
             A!Buy(r, v) \/ A!GiveBack(r, v) \/ A!Forfeit(r, v) \/ A!SetCap(r, v)
      PROVE AccountInv'
  <2>1. v \in Nat /\ v <= MaxQuota
    BY LedgerAssumptions
  <2>2. CASE A!Buy(r, v)
    <3> DEFINE row == [accountOf[r] EXCEPT !.charged = @ + v, !.held = @ + v]
    <3>1. accountOf' = [accountOf EXCEPT ![r] = row]
      BY <2>2 DEF A!Buy
    <3>2. /\ row.charged = accountOf[r].charged + v /\ row.held = accountOf[r].held + v
          /\ row.quota = accountOf[r].quota
      BY <1>0 DEF A!Account
    <3>3. row.charged \in Nat /\ row.held \in Nat
      BY <1>0, <2>1, <2>2, <3>2 DEF A!Buy
    <3>4. row \in A!Account
      BY <1>0, <3>2, <3>3 DEF A!Account
    <3>5. row.held <= row.charged /\ row.charged <= row.quota /\ row.quota <= MaxQuota
      BY <1>0, <2>1, <2>2, <3>2 DEF A!Buy
    <3> HIDE DEF row
    <3> QED  BY <3>1, <3>4, <3>5, OneAccount
  <2>3. CASE A!GiveBack(r, v)
    <3> DEFINE row == [accountOf[r] EXCEPT !.charged = @ - v, !.held = @ - v]
    <3>1. accountOf' = [accountOf EXCEPT ![r] = row]
      BY <2>3 DEF A!GiveBack
    <3>2. /\ row.charged = accountOf[r].charged - v /\ row.held = accountOf[r].held - v
          /\ row.quota = accountOf[r].quota
      BY <1>0 DEF A!Account
    <3>3. row.charged \in Nat /\ row.held \in Nat
      BY <1>0, <2>1, <2>3, <3>2 DEF A!GiveBack
    <3>4. row \in A!Account
      BY <1>0, <3>2, <3>3 DEF A!Account
    <3>5. row.held <= row.charged /\ row.charged <= row.quota /\ row.quota <= MaxQuota
      BY <1>0, <2>1, <2>3, <3>2 DEF A!GiveBack
    <3> HIDE DEF row
    <3> QED  BY <3>1, <3>4, <3>5, OneAccount
  <2>4. CASE A!Forfeit(r, v)
    <3> DEFINE row == [accountOf[r] EXCEPT !.held = @ - v]
    <3>1. accountOf' = [accountOf EXCEPT ![r] = row]
      BY <2>4 DEF A!Forfeit
    <3>2. row \in A!Account /\ row.held <= row.charged /\ row.charged <= row.quota /\ row.quota <= MaxQuota
      BY <1>0, <2>1, <2>4 DEF A!Forfeit, A!Account
    <3> QED  BY <3>1, <3>2, OneAccount
  <2>5. CASE A!SetCap(r, v)
    <3> DEFINE row == [accountOf[r] EXCEPT !.quota = v]
    <3>1. accountOf' = [accountOf EXCEPT ![r] = row]
      BY <2>5 DEF A!SetCap
    <3>2. row \in A!Account /\ row.held <= row.charged /\ row.charged <= row.quota /\ row.quota <= MaxQuota
      BY <1>0, <2>1, <2>5 DEF A!SetCap, A!Account
    <3> QED  BY <3>1, <3>2, OneAccount
  <2> QED  BY <1>2, <2>2, <2>3, <2>4, <2>5
<1>3. ASSUME NEW r \in Resellers, A!Forgive(r) PROVE AccountInv'
  <2> DEFINE row == [accountOf[r] EXCEPT !.charged = accountOf[r].held]
  <2>1. accountOf' = [accountOf EXCEPT ![r] = row]
    BY <1>3 DEF A!Forgive
  <2>2. row \in A!Account /\ row.held <= row.charged /\ row.charged <= row.quota /\ row.quota <= MaxQuota
    BY <1>0 DEF A!Account
  <2> QED  BY <2>1, <2>2, OneAccount
<1> QED  BY <1>1, <1>2, <1>3 DEF A!Next

(* The operations of the account keep the services within what was charged *)
(* and that within the cap (reset included, which forgives only what no    *)
(* service holds): what ResellerLedger is shown to implement is worth      *)
(* implementing.                                                           *)
THEOREM AccountAlwaysSound == A!Spec => []A!AccountSound
<1>1. AccountInv => A!AccountSound
  BY DEF AccountInv
<1> QED  BY AccountInit, AccountStep, <1>1, PTL DEF A!Spec

-----------------------------------------------------------------------------
(* Handlers one at a time: what is in flight is the one handler's volume.  *)

Owed(j, r) == IF j.owner # r THEN 0
              ELSE IF Uncharged(j) THEN -j.vol
              ELSE IF Uncredited(j) THEN j.vol ELSE 0

LEMMA LoneFlight ==
  ASSUME NEW jobs, NEW t, jobs \subseteq {t}, NEW amount, DOMAIN amount = jobs,
         t \in jobs => amount[t] \in Nat
  PROVE  Total(amount) = IF t \in jobs THEN amount[t] ELSE 0
<1>1. CASE t \in jobs
  <2>1. DOMAIN amount = {t}
    BY <1>1
  <2> QED  BY <1>1, <2>1, TotalOne
<1>2. CASE t \notin jobs
  BY <1>2, TotalEmpty
<1> QED  BY <1>1, <1>2

HeldByOne ==
    TypeOK => \A t \in Tasks, r \in Resellers :
        Alone(t) => Held(r) = ActiveBytes(r) + Owed(task[t], r)

LEMMA HeldAlone == HeldByOne
<1> SUFFICES ASSUME TypeOK, NEW t \in Tasks, NEW r \in Resellers, Alone(t)
             PROVE  Held(r) = ActiveBytes(r) + Owed(task[t], r)
  BY DEF HeldByOne
<1>1. task[t] \in Task /\ task[t].vol \in Nat
  BY DEF TypeOK, Task, Idle
<1> DEFINE charges == {u \in Tasks : task[u].owner = r /\ Uncharged(task[u])}
           credits == {u \in Tasks : task[u].owner = r /\ Uncredited(task[u])}
<1>2. charges \subseteq {t} /\ credits \subseteq {t}
  BY DEF Alone, Idle, Uncharged, Uncredited
<1>3. PendingCharge(r) = IF t \in charges THEN task[t].vol ELSE 0
  <2>1. PendingCharge(r) = Total([u \in charges |-> task[u].vol])
    BY DEF PendingCharge, InFlight
  <2> HIDE DEF charges
  <2> QED  BY <1>1, <1>2, <2>1, LoneFlight
<1>4. PendingCredit(r) = IF t \in credits THEN task[t].vol ELSE 0
  <2>1. PendingCredit(r) = Total([u \in credits |-> task[u].vol])
    BY DEF PendingCredit, InFlight
  <2> HIDE DEF credits
  <2> QED  BY <1>1, <1>2, <2>1, LoneFlight
<1>5. ~(Uncharged(task[t]) /\ Uncredited(task[t]))
  BY DEF Uncharged, Uncredited
<1>6. ActiveBytes(r) \in Nat
  BY ActiveNat
<1> QED  BY <1>1, <1>3, <1>4, <1>5, <1>6 DEF Held, Owed

LEMMA HeldAloneNext == HeldByOne'
BY HeldAlone, PTL

-----------------------------------------------------------------------------
(* What a handler that runs alone knows: its session caches what is        *)
(* committed, its record is in the table, and its volume has been checked. *)

(* The steps at which a handler has a row, and the row. *)
AtRow(j) == \/ j.op = "create" /\ j.pc \in {"panel", "subid", "undo", "charge"}
            \/ j.op # "create" /\ j.pc \in {"panel", "traffic", "drop", "record"}

Own(j) == [id |-> j.id, name |-> j.name, owner |-> j.owner,
           alloc |-> IF j.op = "create" THEN j.vol ELSE j.alloc]

(* The volume is one the operation may move. *)
Measured(j) ==
    /\ Granted(j) => j.lifetime + j.vol <= j.quota
    /\ j.op = "set" => j.lifetime <= j.vol /\ j.vol <= MaxQuota
    /\ j.op = "grow" => j.quota + j.vol <= MaxQuota
    /\ j.op = "remove" /\ j.pc \in {"panel", "record"} => j.vol <= j.alloc
    /\ j.op = "delete" => \/ j.vol = 0
                          \/ j.vol = j.alloc /\ j.pc \in {"drop", "record", "credit"}

Knows(j) ==
    /\ j.quota = resellers[j.owner].quota /\ j.lifetime = resellers[j.owner].lifetime
    /\ AtRow(j) => Own(j) \in records
    /\ Measured(j)
    /\ j.op = "reset" /\ j.pc = "commit" => j.vol = ActiveBytes(j.owner)

Known == \A t \in Tasks : task[t] # Idle => Knows(task[t])

OneBusy == \A t, u \in Tasks : task[t] # Idle /\ task[u] # Idle => t = u

IdsUsed == IdReuse = FALSE => \A x \in records : x.id < nextId

SerialInv == TypeInv /\ UniqueIds /\ IdsUsed /\ OneBusy /\ Known /\ AccountInv

LEMMA InitAccount == Init => A!Init
<1> SUFFICES ASSUME Init PROVE A!Init
  OBVIOUS
<1>1. ASSUME NEW r \in Resellers PROVE Held(r) = 0
  <2>1. Services(r) = {}
    BY DEF Init, Services
  <2>2. ActiveBytes(r) = 0
    BY <2>1, TotalEmpty DEF ActiveBytes
  <2>3. {t \in Tasks : task[t].owner = r /\ Uncharged(task[t])} = {}
    BY DEF Init, Idle, Uncharged
  <2>4. {t \in Tasks : task[t].owner = r /\ Uncredited(task[t])} = {}
    BY DEF Init, Idle, Uncredited
  <2>5. PendingCharge(r) = 0 /\ PendingCredit(r) = 0
    BY <2>3, <2>4, TotalEmpty DEF PendingCharge, PendingCredit, InFlight
  <2> QED  BY <2>2, <2>5 DEF Held
<1> QED  BY <1>1 DEF A!Init, accountOf, Init

LEMMA SerialInit == Init => SerialInv
<1> SUFFICES ASSUME Init PROVE SerialInv
  OBVIOUS
<1>1. TypeInv /\ UniqueIds /\ IdsUsed /\ OneBusy /\ Known
  BY InitType DEF Init, UniqueIds, IdsUsed, OneBusy, Known
<1> QED  BY <1>1, InitAccount, AccountInit DEF SerialInv

(* Other handlers do not move, so a step is about the one that does. *)
LEMMA SerialFrom ==
  ASSUME SerialInv, NEW t \in Tasks, Alone(t), Begin(t) \/ Continue(t),
         UniqueIds', IdsUsed', task'[t] # Idle => Knows(task[t])', [A!Next]_accountOf
  PROVE  SerialInv'
<1>1. TypeInv'
  BY TypeStep DEF SerialInv, Next
<1>2. \A u \in Tasks \ {t} : task'[u] = Idle
  BY OneIdKept DEF SerialInv, Alone
<1>3. OneBusy'
  BY <1>2 DEF OneBusy
<1>4. Known'
  BY <1>2 DEF Known
<1>5. AccountInv'
  BY AccountStep DEF SerialInv
<1> QED  BY <1>1, <1>3, <1>4, <1>5 DEF SerialInv

(* The account before and after a step of a lone handler. *)
LEMMA HeldStep ==
  ASSUME SerialInv, NEW t \in Tasks, Alone(t), Begin(t) \/ Continue(t), NEW r \in Resellers
  PROVE  /\ Held(r) = ActiveBytes(r) + Owed(task[t], r)
         /\ Held(r)' = ActiveBytes(r)' + Owed(task'[t], r)
         /\ Held(r) \in Nat /\ ActiveBytes(r) \in Nat /\ ActiveBytes(r)' \in Nat
         /\ Held(r) <= resellers[r].lifetime /\ resellers[r].lifetime <= resellers[r].quota
         /\ resellers[r].quota <= MaxQuota
<1>1. TypeInv'
  BY TypeStep DEF SerialInv, Next
<1>2. Alone(t)'
  BY OneIdKept DEF SerialInv, Alone
<1>3. /\ Held(r) = ActiveBytes(r) + Owed(task[t], r)
      /\ Held(r)' = ActiveBytes(r)' + Owed(task'[t], r)
  BY <1>1, <1>2, HeldAlone, HeldAloneNext DEF HeldByOne, SerialInv, TypeInv
<1>4. ActiveBytes(r) \in Nat
  BY ActiveNat DEF SerialInv, TypeInv
<1>5. ActiveBytes(r)' \in Nat
  <2>1. TypeOK'
    BY <1>1 DEF TypeInv
  <2>2. Bytes(records', r) \in Nat
    BY <2>1, BytesNat DEF TypeOK
  <2> QED  BY <2>2 DEF Bytes, ActiveBytes, Services
<1>6. accountOf[r] \in A!Account /\ accountOf[r].held <= accountOf[r].charged
      /\ accountOf[r].charged <= accountOf[r].quota /\ accountOf[r].quota <= MaxQuota
  BY DEF SerialInv, AccountInv, A!AccountTypeOK, A!AccountSound, CapsEntered
<1>7. accountOf[r] = [quota |-> resellers[r].quota, charged |-> resellers[r].lifetime,
                      held |-> Held(r)]
  BY DEF accountOf
<1> QED  BY <1>3, <1>4, <1>5, <1>6, <1>7 DEF A!Account

-----------------------------------------------------------------------------
(* Steps that move nothing in the account.                                 *)

LEMMA AccountSame ==
  ASSUME UNCHANGED resellers, \A r \in Resellers : Held(r)' = Held(r)
  PROVE  UNCHANGED accountOf
BY DEF accountOf

(* A step that moves one account. *)
LEMMA AccountRow ==
  ASSUME NEW r0 \in Resellers, NEW row,
         \A r \in Resellers \ {r0} : resellers'[r] = resellers[r] /\ Held(r)' = Held(r),
         row = [quota |-> resellers'[r0].quota, charged |-> resellers'[r0].lifetime,
                held |-> Held(r0)']
  PROVE  accountOf' = [accountOf EXCEPT ![r0] = row]
BY DEF accountOf

(* A step that changes no table, and owes what was owed before. *)
LEMMA QuietStep ==
  ASSUME SerialInv, NEW t \in Tasks, Alone(t), Begin(t) \/ Continue(t),
         UNCHANGED <<resellers, records, nextId>>,
         \A r \in Resellers : Owed(task'[t], r) = Owed(task[t], r),
         task'[t] # Idle => Knows(task[t])'
  PROVE  SerialInv' /\ UNCHANGED accountOf
<1>1. \A r \in Resellers : ActiveBytes(r)' = ActiveBytes(r)
  BY DEF ActiveBytes, Services
<1>2. \A r \in Resellers : Held(r)' = Held(r)
  BY <1>1, HeldStep
<1>3. UNCHANGED accountOf
  BY <1>2, AccountSame
<1>4. UniqueIds' /\ IdsUsed'
  BY DEF SerialInv, UniqueIds, IdsUsed
<1> QED  BY <1>3, <1>4, SerialFrom

LEMMA QuietEnd ==
  ASSUME SerialInv, NEW t \in Tasks, Alone(t), Continue(t), Finish(t),
         UNCHANGED <<resellers, records, nextId>>,
         ~Uncharged(task[t]), ~Uncredited(task[t])
  PROVE  SerialInv' /\ UNCHANGED accountOf
<1>1. task'[t] = Idle
  BY DEF Finish, SerialInv, TypeInv, TypeOK
<1>2. \A r \in Resellers : Owed(task'[t], r) = Owed(task[t], r)
  BY <1>1 DEF Owed, Uncharged, Uncredited, Idle
<1> QED  BY <1>1, <1>2, QuietStep

(* What a handler keeps from step to step. *)
SameJob(k, j) == /\ k.op = j.op /\ k.owner = j.owner /\ k.name = j.name
                 /\ k.quota = j.quota /\ k.lifetime = j.lifetime

LEMMA GotoFields ==
  ASSUME SerialInv, NEW t \in Tasks, task[t].pc # "idle", NEW step \in Steps \ {"idle"},
         Goto(t, step)
  PROVE  /\ SameJob(task'[t], task[t]) /\ task'[t].pc = step /\ task'[t] # Idle
         /\ task'[t].vol = task[t].vol /\ task'[t].id = task[t].id
         /\ task'[t].alloc = task[t].alloc
<1>1. task[t] \in Task \ {Idle} /\ task \in [Tasks -> Task]
  BY DEF SerialInv, TypeInv, TypeOK, Idle
<1> QED  BY <1>1 DEF Goto, SameJob, Task, Idle

(* A step to where the handler needs to know no more than it did. *)
LEMMA QuietGoto ==
  ASSUME SerialInv, NEW t \in Tasks, Alone(t), Continue(t), task[t].pc # "idle",
         NEW step \in Steps \ {"idle"}, Goto(t, step),
         UNCHANGED <<resellers, records, nextId>>,
         Uncharged(task'[t]) <=> Uncharged(task[t]), ~Uncredited(task[t]), step # "credit",
         AtRow(task'[t]) => AtRow(task[t]), Measured(task[t]) => Measured(task'[t]),
         step # "commit"
  PROVE  SerialInv' /\ UNCHANGED accountOf
<1>1. /\ SameJob(task'[t], task[t]) /\ task'[t].pc = step
      /\ task'[t].vol = task[t].vol /\ task'[t].id = task[t].id
      /\ task'[t].alloc = task[t].alloc
  BY GotoFields
<1>2. \A r \in Resellers : Owed(task'[t], r) = Owed(task[t], r)
  BY <1>1 DEF Owed, SameJob, Uncredited
<1>3. Knows(task[t])
  BY DEF SerialInv, Known, Idle
<1>4. Knows(task[t])'
  <2>1. Own(task'[t]) = Own(task[t])
    BY <1>1 DEF Own, SameJob
  <2> QED  BY <1>1, <1>3, <2>1 DEF Knows, SameJob
<1> QED  BY <1>2, <1>4, QuietStep

LEMMA SerialStart ==
  ASSUME SerialInv, NEW t \in Tasks, Alone(t), Begin(t),
         NEW o, NEW r \in Resellers, NEW n, NEW v, NEW step, Start(t, o, r, n, v, step),
         \/ o = "create" /\ step = "validate"
         \/ o \in {"add", "remove"} /\ step = "fetch"
         \/ o = "delete" /\ step = "fetch" /\ v = 0
         \/ o = "reset" /\ step = "sum"
         \/ o \in {"shrink", "toggle"} /\ step = "commit"
         \/ /\ o = "set" /\ step = "commit"
            /\ resellers[r].lifetime <= v /\ v <= MaxQuota
         \/ o = "grow" /\ step = "commit" /\ resellers[r].quota + v <= MaxQuota
  PROVE  SerialInv' /\ UNCHANGED accountOf
<1> DEFINE k == [pc |-> step, op |-> o, owner |-> r, name |-> n, vol |-> v, id |-> 0,
                 alloc |-> 0, quota |-> resellers[r].quota,
                 lifetime |-> resellers[r].lifetime, active |-> resellers[r].active]
<1>1. task'[t] = k /\ UNCHANGED <<resellers, records, nextId, panel>> /\ task[t].pc = "idle"
  BY DEF Start, SerialInv, TypeInv, TypeOK
<1>2. \A x \in Resellers : Owed(k, x) = 0 /\ Owed(task[t], x) = 0
  BY <1>1 DEF Owed, Uncharged, Uncredited
<1>3. ~AtRow(k) /\ ~Granted(k) /\ ~(k.op = "reset" /\ k.pc = "commit")
  BY DEF AtRow, Granted
<1>4. Measured(k)
  BY <1>3 DEF Measured
<1>5. Knows(task[t])'
  BY <1>1, <1>3, <1>4 DEF Knows
<1> QED  BY <1>1, <1>2, <1>5, QuietStep

LEMMA SerialBegin ==
  ASSUME SerialInv, NEW t \in Tasks, Alone(t), Begin(t)
  PROVE  SerialInv' /\ UNCHANGED accountOf
<1>1. PICK r \in Resellers :
        \/ \E n \in Names, v \in Volumes :
              CreateBegin(t, r, n, v) \/ AddBegin(t, r, n, v) \/ RemoveBegin(t, r, n, v)
        \/ \E n \in Names : DeleteBegin(t, r, n)
        \/ \E q \in 0..MaxQuota : SetBegin(t, r, q)
        \/ \E v \in Volumes : GrowBegin(t, r, v) \/ ShrinkBegin(t, r, v)
        \/ ResetBegin(t, r)
        \/ ToggleBegin(t, r)
  BY DEF Begin
<1>2. CASE \E n \in Names, v \in Volumes :
              CreateBegin(t, r, n, v) \/ AddBegin(t, r, n, v) \/ RemoveBegin(t, r, n, v)
  BY <1>2, SerialStart DEF CreateBegin, AddBegin, RemoveBegin
<1>3. CASE \E n \in Names : DeleteBegin(t, r, n)
  BY <1>3, SerialStart DEF DeleteBegin
<1>4. CASE \E q \in 0..MaxQuota : SetBegin(t, r, q)
  <2>1. PICK q \in 0..MaxQuota : SetBegin(t, r, q)
    BY <1>4
  <2>2. resellers[r].lifetime <= q /\ q <= MaxQuota
    BY <2>1, LedgerAssumptions DEF SetBegin, SerialInv, TypeInv, TypeOK, ResellerRow
  <2> QED  BY <2>1, <2>2, SerialStart DEF SetBegin
<1>5. CASE \E v \in Volumes : GrowBegin(t, r, v) \/ ShrinkBegin(t, r, v)
  BY <1>5, SerialStart DEF GrowBegin, ShrinkBegin
<1>6. CASE ResetBegin(t, r) \/ ToggleBegin(t, r)
  BY <1>6, SerialStart DEF ResetBegin, ToggleBegin
<1> QED  BY <1>1, <1>2, <1>3, <1>4, <1>5, <1>6

(* The facts about a running handler that the next proofs share. *)
LEMMA Running ==
  ASSUME SerialInv, NEW t \in Tasks, task[t].pc # "idle"
  PROVE  /\ task[t] \in Task \ {Idle} /\ task \in [Tasks -> Task]
         /\ Fits(task[t]) /\ Knows(task[t])
         /\ task[t].owner \in Resellers /\ task[t].vol \in Nat /\ task[t].alloc \in Nat
         /\ task[t].quota \in Nat /\ task[t].lifetime \in Nat
<1>1. task[t] \in Task \ {Idle} /\ task \in [Tasks -> Task] /\ Fits(task[t])
  BY DEF SerialInv, TypeInv, TypeOK, StepFitsOp, Idle
<1> QED  BY <1>1 DEF Task, SerialInv, Known

LEMMA SerialCreate ==
  ASSUME SerialInv, NEW t \in Tasks, Alone(t),
         CreateValidate(t) \/ CreateProbe(t) \/ CreatePanel(t) \/ CreateSubId(t)
  PROVE  SerialInv' /\ UNCHANGED accountOf
<1> USE DEF Steps
<1>0. /\ task[t].pc # "idle" /\ Continue(t) /\ UNCHANGED <<resellers, records, nextId>>
  BY DEF CreateValidate, CreateProbe, CreatePanel, CreateSubId, Continue
<1>1. task[t] \in Task \ {Idle} /\ Fits(task[t]) /\ Knows(task[t]) /\ task[t].op = "create"
  BY <1>0, Running DEF Fits, OpAt, CreateValidate, CreateProbe, CreatePanel, CreateSubId
<1>2. ~Uncredited(task[t])
  BY DEF CreateValidate, CreateProbe, CreatePanel, CreateSubId, Uncredited
<1>3. CASE CreateValidate(t)
  <2>1. CASE Finish(t)
    BY <1>0, <1>2, <1>3, <2>1, QuietEnd DEF CreateValidate, Uncharged
  <2>2. CASE ~Finish(t)
    <3>1. Goto(t, "probe") /\ task[t].vol <= Remaining(task[t])
      BY <1>3, <2>2 DEF CreateValidate, CreateAllowed
    <3>2. /\ SameJob(task'[t], task[t]) /\ task'[t].pc = "probe"
          /\ task'[t].vol = task[t].vol /\ task'[t].alloc = task[t].alloc
      BY <1>0, <3>1, GotoFields
    <3>3. task[t].lifetime + task[t].vol <= task[t].quota
      <4>1. task[t].lifetime <= task[t].quota
        BY <1>0, Running, HeldStep DEF Knows
      <4> QED  BY <1>0, <3>1, <4>1, Running DEF Remaining, Larger
    <3>4. Measured(task'[t])
      BY <1>1, <3>2, <3>3 DEF Measured, SameJob
    <3> QED
      BY <1>0, <1>1, <1>2, <1>3, <3>1, <3>2, <3>4, QuietGoto
         DEF CreateValidate, Uncharged, AtRow, SameJob
  <2> QED  BY <2>1, <2>2
<1>4. CASE CreateProbe(t)
  <2>1. CASE Finish(t)
    BY <1>0, <1>2, <1>4, <2>1, QuietEnd DEF CreateProbe, Uncharged
  <2>2. CASE Goto(t, "insert")
    <3>1. /\ SameJob(task'[t], task[t]) /\ task'[t].pc = "insert"
          /\ task'[t].vol = task[t].vol /\ task'[t].alloc = task[t].alloc
      BY <1>0, <2>2, GotoFields
    <3>2. Measured(task[t]) => Measured(task'[t])
      BY <1>1, <1>4, <3>1 DEF Measured, Granted, SameJob, CreateProbe
    <3> QED
      BY <1>0, <1>1, <1>2, <1>4, <2>2, <3>1, <3>2, QuietGoto
         DEF CreateProbe, Uncharged, AtRow, SameJob
  <2> QED  BY <1>4, <2>1, <2>2 DEF CreateProbe
<1>5. CASE CreatePanel(t) \/ CreateSubId(t)
  <2>1. task[t].pc \in {"panel", "subid"}
    BY <1>5 DEF CreatePanel, CreateSubId
  <2>2. PICK step \in {"subid", "undo", "charge"} : Goto(t, step)
    <3>1. CASE CreatePanel(t)
      BY <3>1 DEF CreatePanel
    <3>2. CASE CreateSubId(t)
      <4>1. Own(task[t]) \in records
        BY <1>1, <2>1 DEF Knows, AtRow
      <4>2. RowExists(task[t].id)
        BY <4>1 DEF RowExists, Own
      <4> QED  BY <3>2, <4>2 DEF CreateSubId
    <3> QED  BY <1>5, <3>1, <3>2
  <2>3. /\ SameJob(task'[t], task[t]) /\ task'[t].pc = step
        /\ task'[t].vol = task[t].vol /\ task'[t].alloc = task[t].alloc
    BY <1>0, <2>2, GotoFields
  <2>4. Measured(task[t]) => Measured(task'[t])
    BY <1>1, <2>1, <2>3 DEF Measured, Granted, SameJob
  <2> QED
    BY <1>0, <1>1, <1>2, <2>1, <2>2, <2>3, <2>4, QuietGoto
       DEF Uncharged, AtRow, SameJob
<1> QED  BY <1>3, <1>4, <1>5

LEMMA SerialFetch ==
  ASSUME SerialInv, NEW t \in Tasks, Alone(t), Fetch(t)
  PROVE  SerialInv' /\ UNCHANGED accountOf
<1>0. /\ task[t].pc = "fetch" /\ Continue(t) /\ UNCHANGED <<resellers, records, nextId>>
      /\ ~Uncredited(task[t]) /\ ~Uncharged(task[t])
  BY DEF Fetch, Continue, Uncredited, Uncharged
<1>1. CASE Finish(t)
  BY <1>0, <1>1, QuietEnd
<1>2. CASE ~Finish(t)
  <2> DEFINE step == IF task[t].op = "add" THEN "panel" ELSE "traffic"
  <2>1. PICK x \in records :
          /\ x.owner = task[t].owner /\ x.name = task[t].name
          /\ task' = [task EXCEPT ![t].id = x.id, ![t].alloc = x.alloc, ![t].pc = step]
    BY <1>2 DEF Fetch, Services
  <2>2. /\ task[t] \in Task \ {Idle} /\ task \in [Tasks -> Task]
        /\ task[t].op \in {"add", "remove", "delete"} /\ Knows(task[t])
    BY <1>0, Running DEF Fits, OpAt
  <2> DEFINE k == task'[t]
  <2>3. /\ SameJob(k, task[t]) /\ k.pc = step /\ k.vol = task[t].vol
        /\ k.id = x.id /\ k.alloc = x.alloc
    BY <2>1, <2>2 DEF SameJob, Task
  <2>4. x = [id |-> x.id, name |-> x.name, owner |-> x.owner, alloc |-> x.alloc]
    BY DEF SerialInv, TypeInv, TypeOK, RecordRow
  <2>5. Own(k) = x
    BY <2>1, <2>2, <2>3, <2>4 DEF Own, SameJob
  <2>6. Measured(k)
    BY <1>0, <2>2, <2>3 DEF Knows, Measured, Granted, SameJob
  <2>7. Knows(task[t])'
    <3> HIDE DEF step
    <3> QED  BY <1>0, <2>2, <2>3, <2>5, <2>6 DEF Knows, SameJob
  <2>8. \A r \in Resellers : Owed(k, r) = Owed(task[t], r)
    BY <1>0, <2>2, <2>3 DEF Owed, Uncharged, Uncredited, SameJob
  <2> QED  BY <1>0, <2>7, <2>8, QuietStep
<1> QED  BY <1>1, <1>2

LEMMA SerialAddPanel ==
  ASSUME SerialInv, NEW t \in Tasks, Alone(t), AddPanel(t)
  PROVE  SerialInv' /\ UNCHANGED accountOf
<1>0. /\ task[t].pc = "panel" /\ task[t].op = "add"
      /\ Continue(t) /\ UNCHANGED <<resellers, records, nextId>>
      /\ ~Uncredited(task[t]) /\ ~Uncharged(task[t])
  BY DEF AddPanel, Continue, Uncredited, Uncharged
<1>1. CASE Finish(t)
  BY <1>0, <1>1, QuietEnd
<1>2. CASE ~Finish(t)
  <2>1. Goto(t, "record") /\ task[t].vol <= Remaining(task[t])
    BY <1>2 DEF AddPanel, AddAllowed
  <2>2. /\ SameJob(task'[t], task[t]) /\ task'[t].pc = "record"
        /\ task'[t].vol = task[t].vol /\ task'[t].alloc = task[t].alloc
    BY <1>0, <2>1, GotoFields DEF Steps
  <2>3. task[t].lifetime <= task[t].quota
    BY <1>0, Running, HeldStep DEF Knows
  <2>4. task[t].lifetime + task[t].vol <= task[t].quota
    BY <1>0, <2>1, <2>3, Running DEF Remaining, Larger
  <2>5. Measured(task'[t])
    BY <1>0, <2>2, <2>4 DEF Measured, SameJob
  <2> QED
    BY <1>0, <2>1, <2>2, <2>5, QuietGoto DEF Steps, Uncharged, AtRow, SameJob
<1> QED  BY <1>1, <1>2

(* The panel's part of a reduced volume and of a deletion. *)
LEMMA SerialTraffic ==
  ASSUME SerialInv, NEW t \in Tasks, Alone(t),
         RemoveTraffic(t) \/ RemovePanel(t) \/ DeletePanel(t)
  PROVE  SerialInv' /\ UNCHANGED accountOf
<1> USE DEF Steps
<1>0. /\ task[t].pc \in {"traffic", "panel", "drop"}
      /\ Continue(t) /\ UNCHANGED <<resellers, records, nextId>>
      /\ ~Uncredited(task[t])
  BY DEF RemoveTraffic, RemovePanel, DeletePanel, Continue, Uncredited
<1>1. task[t].op \in {"remove", "delete"} /\ Knows(task[t])
  BY <1>0, Running DEF Fits, OpAt, RemoveTraffic, RemovePanel, DeletePanel
<1>2. ~Uncharged(task[t])
  BY <1>1 DEF Uncharged
<1>3. CASE Finish(t)
  BY <1>0, <1>2, <1>3, QuietEnd
<1>4. CASE ~Finish(t)
  <2>1. PICK step \in {"panel", "record"} :
          Goto(t, step) /\ (DeletePanel(t) => step = "record")
    <3>1. CASE DeletePanel(t)
      BY <1>4, <3>1 DEF DeletePanel
    <3>2. CASE ~DeletePanel(t)
      BY <1>4, <3>2 DEF RemoveTraffic, RemovePanel
    <3> QED  BY <3>1, <3>2
  <2>2. /\ SameJob(task'[t], task[t]) /\ task'[t].pc = step
        /\ task'[t].vol = task[t].vol /\ task'[t].alloc = task[t].alloc
    BY <1>0, <2>1, GotoFields
  <2>3. Measured(task[t]) => Measured(task'[t])
    <3>1. CASE RemoveTraffic(t)
      <4>1. task[t].op = "remove" /\ task[t].vol <= task[t].alloc
        BY <1>4, <3>1 DEF RemoveTraffic, RemoveAllowed
      <4> QED  BY <2>2, <4>1 DEF Measured, Granted, SameJob
    <3>2. CASE RemovePanel(t)
      BY <2>2, <3>2 DEF RemovePanel, Measured, Granted, SameJob
    <3>3. CASE DeletePanel(t)
      <4>1. task[t].op = "delete"
        BY <3>3, Running DEF DeletePanel, Fits, OpAt
      <4> QED  BY <2>1, <2>2, <3>3, <4>1 DEF DeletePanel, Measured, Granted, SameJob
    <3> QED  BY <3>1, <3>2, <3>3
  <2>4. AtRow(task'[t]) => AtRow(task[t])
    BY <1>0, <1>1 DEF AtRow
  <2>5. ~Uncharged(task'[t])
    BY <1>1, <2>2 DEF Uncharged, SameJob
  <2> QED
    BY <1>0, <1>2, <2>1, <2>3, <2>4, <2>5, QuietGoto
<1> QED  BY <1>3, <1>4

LEMMA SerialDeleteTraffic ==
  ASSUME SerialInv, NEW t \in Tasks, Alone(t), DeleteTraffic(t)
  PROVE  SerialInv' /\ UNCHANGED accountOf
<1>0. /\ task[t].pc = "traffic" /\ task[t].op = "delete"
      /\ Continue(t) /\ UNCHANGED <<resellers, records, nextId>>
      /\ ~Uncredited(task[t]) /\ ~Uncharged(task[t])
  BY DEF DeleteTraffic, Continue, Uncredited, Uncharged
<1>1. CASE Finish(t)
  BY <1>0, <1>1, QuietEnd
<1>2. CASE ~Finish(t)
  <2>1. \/ Goto(t, "drop")
        \/ task' = [task EXCEPT ![t].pc = "drop", ![t].vol = task[t].alloc]
    BY <1>2 DEF DeleteTraffic
  <2> DEFINE k == task'[t]
  <2>2. /\ SameJob(k, task[t]) /\ k.pc = "drop" /\ k.id = task[t].id
        /\ k.alloc = task[t].alloc /\ k.vol \in {task[t].vol, task[t].alloc}
    <3>1. task[t] \in Task \ {Idle} /\ task \in [Tasks -> Task]
      BY <1>0, Running
    <3> QED  BY <2>1, <3>1 DEF Goto, SameJob, Task
  <2>3. k.vol = 0 \/ k.vol = k.alloc
    BY <1>0, <2>2, Running DEF Knows, Measured
  <2>4. Measured(k)
    BY <1>0, <2>2, <2>3 DEF Measured, Granted, SameJob
  <2>5. Knows(task[t])'
    <3>1. Knows(task[t])
      BY <1>0, Running
    <3>2. Own(k) = Own(task[t]) /\ AtRow(task[t])
      BY <1>0, <2>2 DEF Own, AtRow, SameJob
    <3> QED  BY <1>0, <2>2, <2>4, <3>1, <3>2 DEF Knows, SameJob
  <2>6. \A r \in Resellers : Owed(k, r) = Owed(task[t], r)
    BY <1>0, <2>2 DEF Owed, Uncharged, Uncredited, SameJob
  <2> QED  BY <1>0, <2>5, <2>6, QuietStep
<1> QED  BY <1>1, <1>2

LEMMA SerialResetSum ==
  ASSUME SerialInv, NEW t \in Tasks, Alone(t), ResetSum(t)
  PROVE  SerialInv' /\ UNCHANGED accountOf
<1>0. /\ task[t].pc = "sum" /\ Continue(t) /\ UNCHANGED <<resellers, records, nextId>>
      /\ ~Uncredited(task[t])
  BY DEF ResetSum, Continue, Uncredited
<1>1. /\ task[t].op = "reset" /\ task[t] \in Task \ {Idle} /\ task \in [Tasks -> Task]
      /\ Knows(task[t])
  BY <1>0, Running DEF Fits, OpAt
<1> DEFINE k == task'[t]
<1>2. /\ SameJob(k, task[t]) /\ k.pc = "commit" /\ k.vol = ActiveBytes(task[t].owner)
  BY <1>1 DEF ResetSum, SameJob, Task
<1>3. \A r : ActiveBytes(r)' = ActiveBytes(r)
  BY <1>0 DEF ActiveBytes, Services
<1>4. Measured(k) /\ ~AtRow(k)
  BY <1>1, <1>2 DEF Measured, Granted, AtRow, SameJob
<1>5. Knows(task[t])'
  BY <1>0, <1>1, <1>2, <1>3, <1>4 DEF Knows, SameJob
<1>6. \A r \in Resellers : Owed(k, r) = Owed(task[t], r)
  BY <1>0, <1>1, <1>2 DEF Owed, Uncharged, Uncredited, SameJob
<1> QED  BY <1>0, <1>5, <1>6, QuietStep

-----------------------------------------------------------------------------
(* Steps that change a row.                                                *)

LEMMA SerialInsert ==
  ASSUME SerialInv, NEW t \in Tasks, Alone(t), CreateInsert(t)
  PROVE  SerialInv' /\ UNCHANGED accountOf
<1> DEFINE j == task[t]
           k == task'[t]
<1>0. j.pc = "insert" /\ Continue(t) /\ UNCHANGED resellers
  BY DEF CreateInsert, Continue
<1>1. /\ j.op = "create" /\ j \in Task \ {Idle} /\ task \in [Tasks -> Task]
      /\ Knows(j) /\ j.owner \in Resellers /\ j.vol \in Nat /\ j.name \in Names
  BY <1>0, Running DEF Fits, OpAt, ServiceOps
<1>2. ~Uncredited(j) /\ ~Uncharged(j)
  BY <1>0 DEF Uncredited, Uncharged
<1>3. CASE Finish(t) /\ UNCHANGED <<records, nextId>>
  BY <1>0, <1>2, <1>3, QuietEnd
<1>4. CASE ~(Finish(t) /\ UNCHANGED <<records, nextId>>)
  <2>1. PICK i \in 1..MaxId :
          /\ FreshId(i)
          /\ records' = records \cup
               {[id |-> i, name |-> j.name, owner |-> j.owner, alloc |-> j.vol]}
          /\ task' = [task EXCEPT ![t].pc = "panel", ![t].id = i]
          /\ nextId' = IF IdReuse THEN nextId ELSE nextId + 1
    BY <1>4 DEF CreateInsert
  <2> DEFINE x == [id |-> i, name |-> j.name, owner |-> j.owner, alloc |-> j.vol]
  <2>2. x \in RecordRow /\ x.id = i /\ x.owner = j.owner /\ x.alloc = j.vol
    BY <1>1 DEF RecordRow
  <2>3. \A y \in records : y.id \in Nat /\ y.id # i
    <3>1. \A y \in records : y.id \in 1..MaxId
      BY DEF SerialInv, TypeInv, TypeOK, RecordRow
    <3> QED  BY <2>1, <3>1 DEF FreshId, SerialInv, IdsUsed
  <2>4. x \notin records
    BY <2>2, <2>3
  <2>5. UniqueIds'
    BY <2>1, <2>3 DEF SerialInv, UniqueIds
  <2>6. IdsUsed'
    <3>1. nextId \in Nat
      BY DEF SerialInv, TypeInv, TypeOK
    <3> QED  BY <2>1, <2>3, <3>1 DEF FreshId, SerialInv, IdsUsed
  <2>7. /\ SameJob(k, j) /\ k.pc = "panel" /\ k.id = i /\ k.vol = j.vol
    BY <1>1, <2>1 DEF SameJob, Task
  <2>8. Own(k) = x
    BY <1>1, <2>7 DEF Own, SameJob
  <2>9. Measured(k)
    BY <1>0, <1>1, <2>7 DEF Knows, Measured, Granted, SameJob
  <2>10. Knows(task[t])'
    BY <1>0, <1>1, <2>1, <2>7, <2>8, <2>9 DEF Knows, SameJob
  <2>11. ASSUME NEW r \in Resellers PROVE Held(r)' = Held(r)
    <3>1. ActiveBytes(r)' = ActiveBytes(r) + (IF x.owner = r THEN x.alloc ELSE 0)
      <4> HIDE DEF x
      <4>1. records' = records \cup {x}
        BY <2>1 DEF x
      <4> QED  BY <2>2, <2>4, <4>1, RowAdded DEF SerialInv, TypeInv
    <3>2. /\ Owed(j, r) = 0
          /\ Owed(k, r) = IF j.owner = r THEN -j.vol ELSE 0
      BY <1>1, <1>2, <2>7 DEF Owed, Uncharged, SameJob
    <3> QED  BY <1>0, <1>1, <2>2, <3>1, <3>2, HeldStep
  <2>12. UNCHANGED accountOf
    BY <1>0, <2>11, AccountSame
  <2> QED  BY <1>0, <2>5, <2>6, <2>10, <2>12, SerialFrom
<1> QED  BY <1>3, <1>4

(* The handler's row leaves the table. *)
LEMMA OwnGone ==
  ASSUME SerialInv, NEW t \in Tasks, AtRow(task[t]), task[t].pc # "idle",
         records' = WithoutRow(task[t].id), UNCHANGED nextId
  PROVE  /\ UniqueIds' /\ IdsUsed'
         /\ \A r : ActiveBytes(r)' = ActiveBytes(r)
                     - (IF task[t].owner = r THEN Own(task[t]).alloc ELSE 0)
<1>1. Own(task[t]) \in records
  BY Running DEF Knows
<1>2. Own(task[t]).id = task[t].id /\ Own(task[t]).owner = task[t].owner
  BY DEF Own
<1>3. UniqueIds' /\ IdsUsed'
  BY DEF WithoutRow, SerialInv, UniqueIds, IdsUsed
<1>4. ASSUME NEW r
      PROVE ActiveBytes(r)' = ActiveBytes(r)
                - (IF task[t].owner = r THEN Own(task[t]).alloc ELSE 0)
  BY <1>1, <1>2, RowGone DEF SerialInv, TypeInv
<1> QED  BY <1>3, <1>4

(* The handler's row gets another volume. *)
LEMMA OwnWritten ==
  ASSUME SerialInv, NEW t \in Tasks, AtRow(task[t]), task[t].pc # "idle",
         task[t].op # "create", NEW a \in Nat,
         records' = WithAlloc(task[t].id, a), UNCHANGED nextId
  PROVE  /\ UniqueIds' /\ IdsUsed'
         /\ \A r : ActiveBytes(r)' = ActiveBytes(r)
                     + (IF task[t].owner = r THEN a - task[t].alloc ELSE 0)
<1>1. Own(task[t]) \in records
  BY Running DEF Knows
<1>2. /\ Own(task[t]).id = task[t].id /\ Own(task[t]).owner = task[t].owner
      /\ Own(task[t]).alloc = task[t].alloc
  BY DEF Own
<1>3. \A x \in records' : \E y \in records : x.id = y.id /\ (y.id # task[t].id => x = y)
                              /\ (y.id = task[t].id => x = [y EXCEPT !.alloc = a])
  <2> SUFFICES ASSUME NEW x \in records'
               PROVE  \E y \in records : /\ x.id = y.id /\ (y.id # task[t].id => x = y)
                                          /\ (y.id = task[t].id => x = [y EXCEPT !.alloc = a])
    OBVIOUS
  <2>1. PICK y \in records : x = IF y.id = task[t].id THEN [y EXCEPT !.alloc = a] ELSE y
    BY DEF WithAlloc
  <2> QED  BY <2>1 DEF SerialInv, TypeInv, TypeOK, RecordRow
<1>4. UniqueIds' /\ IdsUsed'
  BY <1>3 DEF SerialInv, UniqueIds, IdsUsed
<1>5. ASSUME NEW r
      PROVE ActiveBytes(r)' = ActiveBytes(r)
                + (IF task[t].owner = r THEN a - task[t].alloc ELSE 0)
  BY <1>1, <1>2, RowWritten DEF SerialInv, TypeInv
<1> QED  BY <1>4, <1>5

LEMMA SerialUndo ==
  ASSUME SerialInv, NEW t \in Tasks, Alone(t), CreateUndo(t)
  PROVE  SerialInv' /\ UNCHANGED accountOf
<1> DEFINE j == task[t]
<1>0. /\ j.pc = "undo" /\ Continue(t) /\ Finish(t) /\ records' = WithoutRow(j.id)
      /\ UNCHANGED <<resellers, nextId>>
  BY DEF CreateUndo, Continue
<1>1. j.op = "create" /\ task \in [Tasks -> Task] /\ j.vol \in Nat
  BY <1>0, Running DEF Fits, OpAt
<1>2. AtRow(j) /\ Uncharged(j) /\ Own(j).alloc = j.vol
  BY <1>0, <1>1 DEF AtRow, Uncharged, Own
<1>3. task'[t] = Idle
  BY <1>0, <1>1 DEF Finish
<1>4. ASSUME NEW r \in Resellers PROVE Held(r)' = Held(r)
  <2>1. ActiveBytes(r)' = ActiveBytes(r) - (IF j.owner = r THEN j.vol ELSE 0)
    BY <1>0, <1>2, OwnGone
  <2>2. /\ Owed(j, r) = IF j.owner = r THEN -j.vol ELSE 0
        /\ Owed(task'[t], r) = 0
    BY <1>2, <1>3 DEF Owed, Uncharged, Uncredited, Idle
  <2> QED  BY <1>0, <1>1, <2>1, <2>2, HeldStep
<1> QED  BY <1>0, <1>2, <1>3, <1>4, AccountSame, OwnGone, SerialFrom

(* A record that is written is charged or credited next. *)
LEMMA SerialWritten ==
  ASSUME SerialInv, NEW t \in Tasks, Alone(t), AddRecord(t) \/ RemoveRecord(t)
  PROVE  SerialInv' /\ UNCHANGED accountOf
<1> USE DEF Steps
<1> DEFINE j == task[t]
           k == task'[t]
           a == IF j.op = "add" THEN j.alloc + j.vol ELSE j.alloc - j.vol
           step == IF j.op = "add" THEN "charge" ELSE "credit"
<1>0. /\ j.pc = "record" /\ j.op \in {"add", "remove"} /\ Continue(t)
      /\ UNCHANGED <<resellers, nextId>>
  BY DEF AddRecord, RemoveRecord, Continue
<1>1. /\ j \in Task \ {Idle} /\ task \in [Tasks -> Task] /\ Knows(j)
      /\ j.vol \in Nat /\ j.alloc \in Nat
  BY <1>0, Running
<1>2. AtRow(j) /\ Own(j) \in records
  BY <1>0, <1>1 DEF Knows, AtRow
<1>3. RowExists(j.id)
  BY <1>2 DEF RowExists, Own
<1>4. a \in Nat /\ records' = WithAlloc(j.id, a) /\ Goto(t, step)
  <2>1. CASE AddRecord(t)
    BY <1>1, <1>3, <2>1 DEF AddRecord
  <2>2. CASE RemoveRecord(t)
    <3>1. j.op = "remove" /\ j.vol <= j.alloc
      BY <1>1, <2>2 DEF Knows, Measured, RemoveRecord
    <3>2. Larger(0, j.alloc - j.vol) = j.alloc - j.vol
      BY <1>1, <3>1 DEF Larger
    <3> QED  BY <1>1, <1>3, <2>2, <3>1, <3>2 DEF RemoveRecord
  <2> QED  BY <2>1, <2>2
<1>5. SameJob(k, j) /\ k.pc = step /\ k.vol = j.vol
  BY <1>0, <1>4, GotoFields
<1>6. Knows(task[t])'
  <2>1. ~AtRow(k) /\ ~(k.op = "reset")
    BY <1>0, <1>5 DEF AtRow, SameJob
  <2>2. Measured(k)
    BY <1>0, <1>1, <1>5 DEF Knows, Measured, Granted, SameJob
  <2> QED  BY <1>0, <1>1, <1>5, <2>1, <2>2 DEF Knows, SameJob
<1>7. ASSUME NEW r \in Resellers PROVE Held(r)' = Held(r)
  <2>1. ActiveBytes(r)' = ActiveBytes(r) + (IF j.owner = r THEN a - j.alloc ELSE 0)
    <3> HIDE DEF a
    <3> QED  BY <1>0, <1>2, <1>4, OwnWritten
  <2>2. CASE j.op = "add"
    <3>1. /\ Owed(j, r) = 0
          /\ Owed(k, r) = IF j.owner = r THEN -j.vol ELSE 0
      BY <1>0, <1>5, <2>2 DEF Owed, Uncharged, Uncredited, SameJob
    <3> QED  BY <1>0, <1>1, <2>1, <2>2, <3>1, HeldStep
  <2>3. CASE j.op = "remove"
    <3>1. /\ Owed(j, r) = 0
          /\ Owed(k, r) = IF j.owner = r THEN j.vol ELSE 0
      BY <1>0, <1>5, <2>3 DEF Owed, Uncharged, Uncredited, SameJob
    <3> QED  BY <1>0, <1>1, <2>1, <2>3, <3>1, HeldStep
  <2> QED  BY <1>0, <2>2, <2>3
<1>8. UniqueIds' /\ IdsUsed'
  <2> HIDE DEF a
  <2> QED  BY <1>0, <1>2, <1>4, OwnWritten
<1> QED  BY <1>0, <1>6, <1>7, <1>8, AccountSame, SerialFrom

(* A row that is deleted is credited next, or its volume is forfeit. *)
LEMMA SerialDeleted ==
  ASSUME SerialInv, NEW t \in Tasks, Alone(t), DeleteRecord(t)
  PROVE  SerialInv' /\ [A!Next]_accountOf
<1> USE DEF Steps
<1> DEFINE j == task[t]
           k == task'[t]
<1>0. /\ j.pc = "record" /\ j.op = "delete" /\ Continue(t)
      /\ UNCHANGED <<resellers, nextId>> /\ records' = WithoutRow(j.id)
  BY DEF DeleteRecord, Continue
<1>1. /\ j \in Task \ {Idle} /\ task \in [Tasks -> Task] /\ Knows(j)
      /\ j.vol \in Nat /\ j.alloc \in Nat /\ j.owner \in Resellers
  BY <1>0, Running
<1>2. AtRow(j) /\ Own(j).alloc = j.alloc
  BY <1>0 DEF AtRow, Own
<1>3. /\ UniqueIds' /\ IdsUsed'
      /\ \A r : ActiveBytes(r)' = ActiveBytes(r) - (IF j.owner = r THEN j.alloc ELSE 0)
  BY <1>0, <1>2, OwnGone
<1>4. \A r : Owed(j, r) = 0
  BY <1>0 DEF Owed, Uncharged, Uncredited
<1>5. CASE j.vol > 0
  <2>1. SameJob(k, j) /\ k.pc = "credit" /\ k.vol = j.vol /\ j.vol = j.alloc /\ k.alloc = j.alloc
    <3>1. Goto(t, "credit")
      BY <1>5 DEF DeleteRecord
    <3>2. j.vol = j.alloc
      BY <1>0, <1>1, <1>5 DEF Knows, Measured
    <3> QED  BY <1>0, <3>1, <3>2, GotoFields
  <2>2. Knows(task[t])'
    <3>1. ~AtRow(k) /\ Measured(k)
      BY <1>0, <2>1 DEF AtRow, Measured, Granted, SameJob
    <3> QED  BY <1>0, <1>1, <2>1, <3>1 DEF Knows, SameJob
  <2>3. ASSUME NEW r \in Resellers PROVE Held(r)' = Held(r)
    <3>1. Owed(k, r) = IF j.owner = r THEN j.vol ELSE 0
      BY <1>0, <2>1 DEF Owed, Uncharged, Uncredited, SameJob
    <3> QED  BY <1>0, <1>1, <1>3, <1>4, <2>1, <3>1, HeldStep
  <2> QED  BY <1>0, <1>3, <2>2, <2>3, AccountSame, SerialFrom
<1>6. CASE ~(j.vol > 0)
  <2>1. k = Idle
    BY <1>1, <1>6 DEF DeleteRecord, Finish
  <2>2. \A r : Owed(k, r) = 0
    BY <2>1 DEF Owed, Idle, Uncharged, Uncredited
  <2>3. PICK r0 \in Resellers, a \in Nat : r0 = j.owner /\ a = j.alloc
    BY <1>1
  <2>4. \A r \in Resellers : Held(r)' = Held(r) - (IF r = r0 THEN a ELSE 0)
    BY <1>0, <1>1, <1>3, <1>4, <2>2, <2>3, HeldStep
  <2>5. a <= Held(r0) /\ a \in 0..MaxQuota
    <3>1. Held(r0)' = Held(r0) - a
      BY <2>4
    <3>2. /\ Held(r0)' \in Nat /\ Held(r0) \in Nat /\ Held(r0) <= MaxQuota
      BY <1>0, <1>1, <2>2, HeldStep, LedgerAssumptions
         DEF SerialInv, TypeInv, TypeOK, ResellerRow
    <3> QED  BY <3>1, <3>2, LedgerAssumptions
  <2>6. A!Forfeit(r0, a)
    <3> DEFINE row == [accountOf[r0] EXCEPT !.held = @ - a]
    <3>1. /\ row = [quota |-> resellers[r0].quota, charged |-> resellers[r0].lifetime,
                    held |-> Held(r0) - a]
          /\ a <= accountOf[r0].held
      BY <2>5 DEF accountOf
    <3>2. accountOf' = [accountOf EXCEPT ![r0] = row]
      <4> HIDE DEF row
      <4>1. \A r \in Resellers \ {r0} : resellers'[r] = resellers[r] /\ Held(r)' = Held(r)
        BY <1>0, <2>4, HeldStep
      <4>2. resellers'[r0] = resellers[r0] /\ Held(r0)' = Held(r0) - a
        BY <1>0, <2>4
      <4> QED  BY <3>1, <4>1, <4>2, AccountRow
    <3> QED  BY <3>1, <3>2 DEF A!Forfeit
  <2>7. A!Next
    BY <2>5, <2>6 DEF A!Next
  <2> QED  BY <1>0, <1>3, <2>1, <2>7, SerialFrom
<1> QED  BY <1>5, <1>6

-----------------------------------------------------------------------------
(* Steps that write the reseller's row: the last of a handler.             *)

LEMMA LastStep ==
  ASSUME SerialInv, NEW t \in Tasks, Alone(t), Continue(t), Finish(t), task[t].pc # "idle",
         UNCHANGED <<records, nextId>>, NEW r0 \in Resellers, r0 = task[t].owner,
         NEW new, resellers' = [resellers EXCEPT ![r0] = new]
  PROVE  /\ Held(r0) = ActiveBytes(r0) + Owed(task[t], r0)
         /\ accountOf' = [accountOf EXCEPT ![r0] =
              [quota |-> new.quota, charged |-> new.lifetime, held |-> ActiveBytes(r0)]]
         /\ [A!Next]_accountOf => SerialInv'
<1>1. task'[t] = Idle
  BY Running DEF Finish
<1>2. UniqueIds' /\ IdsUsed'
  BY DEF SerialInv, UniqueIds, IdsUsed
<1>3. \A r \in Resellers : /\ ActiveBytes(r)' = ActiveBytes(r)
                           /\ Held(r) = ActiveBytes(r) + Owed(task[t], r)
                           /\ Held(r)' = ActiveBytes(r)' + Owed(task'[t], r)
                           /\ ActiveBytes(r) \in Nat
  BY HeldStep DEF ActiveBytes, Services
<1>4. \A r \in Resellers : Owed(task'[t], r) = 0
  BY <1>1 DEF Owed, Idle, Uncharged, Uncredited
<1>5. \A r \in Resellers \ {r0} : resellers'[r] = resellers[r] /\ Held(r)' = Held(r)
  <2>1. \A r \in Resellers \ {r0} : Owed(task[t], r) = 0
    BY DEF Owed
  <2>2. \A r \in Resellers \ {r0} : resellers'[r] = resellers[r]
    BY DEF SerialInv, TypeInv, TypeOK
  <2> QED  BY <1>3, <1>4, <2>1, <2>2
<1>6. resellers'[r0] = new /\ Held(r0)' = ActiveBytes(r0)
  BY <1>3, <1>4 DEF SerialInv, TypeInv, TypeOK
<1>7. accountOf' = [accountOf EXCEPT ![r0] =
              [quota |-> new.quota, charged |-> new.lifetime, held |-> ActiveBytes(r0)]]
  BY <1>5, <1>6, AccountRow
<1> QED  BY <1>1, <1>2, <1>3, <1>7, SerialFrom

LEMMA SerialCharge ==
  ASSUME SerialInv, NEW t \in Tasks, Alone(t), Charge(t)
  PROVE  SerialInv' /\ [A!Next]_accountOf
<1>0. /\ task[t].pc = "charge" /\ Continue(t) /\ Finish(t) /\ UNCHANGED <<records, nextId>>
      /\ ChargeLifetime(task[t])
  BY DEF Charge, Continue
<1>1. PICK r0 \in Resellers, v \in Nat : r0 = task[t].owner /\ v = task[t].vol
  BY <1>0, Running
<1>2. /\ task[t].op \in {"create", "add"} /\ Knows(task[t]) /\ task[t].lifetime \in Nat
  BY <1>0, Running DEF Fits, OpAt
<1>3. /\ resellers[r0] \in ResellerRow
      /\ resellers[r0].lifetime = task[t].lifetime
      /\ resellers[r0].lifetime + v <= resellers[r0].quota
  BY <1>0, <1>1, <1>2 DEF Knows, Measured, Granted, SerialInv, TypeInv, TypeOK
<1> DEFINE new == [resellers[r0] EXCEPT !.lifetime = @ + v]
<1>4. resellers' = [resellers EXCEPT ![r0] = new]
  BY <1>0, <1>1, <1>2, <1>3 DEF ChargeLifetime, Put, ResellerRow
<1>5. /\ new.quota = resellers[r0].quota /\ new.lifetime = resellers[r0].lifetime + v
  BY <1>3 DEF ResellerRow
<1> HIDE DEF new
<1>6. /\ Held(r0) = ActiveBytes(r0) + Owed(task[t], r0)
      /\ accountOf' = [accountOf EXCEPT ![r0] =
              [quota |-> new.quota, charged |-> new.lifetime, held |-> ActiveBytes(r0)]]
      /\ [A!Next]_accountOf => SerialInv'
  BY <1>0, <1>1, <1>4, LastStep
<1>7. /\ Held(r0) \in Nat /\ ActiveBytes(r0) \in Nat /\ resellers[r0].quota <= MaxQuota
      /\ resellers[r0].lifetime \in Nat /\ resellers[r0].quota \in Nat
  BY <1>0, <1>3, HeldStep DEF ResellerRow
<1>8. Owed(task[t], r0) = -v
  BY <1>0, <1>1, <1>2 DEF Owed, Uncharged
<1>9. v \in 0..MaxQuota
  BY <1>3, <1>7, LedgerAssumptions
<1>10. A!Buy(r0, v)
  <2>1. PICK acc, q, c, h :
          /\ acc = accountOf[r0] /\ acc = [quota |-> q, charged |-> c, held |-> h]
          /\ q = resellers[r0].quota /\ c = resellers[r0].lifetime /\ h = Held(r0)
    BY DEF accountOf
  <2> DEFINE row == [acc EXCEPT !.charged = @ + v, !.held = @ + v]
  <2>2. row = [quota |-> q, charged |-> c + v, held |-> h + v]
    <3>1. row \in [quota : {q}, charged : {c + v}, held : {h + v}]
      <4>1. acc = [quota |-> q, charged |-> c, held |-> h]
        BY <2>1
      <4> QED  BY <4>1
    <3> HIDE DEF row
    <3> QED  BY <3>1
  <2>3. Held(r0) + v = ActiveBytes(r0)
    BY <1>6, <1>7, <1>8
  <2>4. accountOf' = [accountOf EXCEPT ![r0] = row]
    <3> HIDE DEF row
    <3> QED  BY <1>5, <1>6, <2>1, <2>2, <2>3
  <2>5. accountOf[r0].charged + v <= accountOf[r0].quota
    BY <1>3, <2>1
  <2> QED  BY <2>1, <2>4, <2>5 DEF A!Buy
<1>11. A!Next
  BY <1>9, <1>10 DEF A!Next
<1> QED  BY <1>6, <1>11

LEMMA SerialCredit ==
  ASSUME SerialInv, NEW t \in Tasks, Alone(t), Credit(t)
  PROVE  SerialInv' /\ [A!Next]_accountOf
<1>0. /\ task[t].pc = "credit" /\ Continue(t) /\ Finish(t) /\ UNCHANGED <<records, nextId>>
      /\ CreditLifetime(task[t])
  BY DEF Credit, Continue
<1>1. PICK r0 \in Resellers, v \in Nat : r0 = task[t].owner /\ v = task[t].vol
  BY <1>0, Running
<1>2. Knows(task[t]) /\ task[t].lifetime \in Nat
  BY <1>0, Running
<1>3. /\ resellers[r0] \in ResellerRow
      /\ resellers[r0].lifetime = task[t].lifetime
  BY <1>0, <1>1, <1>2 DEF Knows, SerialInv, TypeInv, TypeOK
<1>4. Owed(task[t], r0) = v
  BY <1>0, <1>1 DEF Owed, Uncharged, Uncredited
<1>5. /\ Held(r0) = ActiveBytes(r0) + v
      /\ Held(r0) \in Nat /\ ActiveBytes(r0) \in Nat /\ resellers[r0].quota <= MaxQuota
      /\ Held(r0) <= resellers[r0].lifetime /\ resellers[r0].lifetime <= resellers[r0].quota
      /\ resellers[r0].lifetime \in Nat /\ resellers[r0].quota \in Nat
  BY <1>0, <1>3, <1>4, HeldStep DEF ResellerRow
<1> DEFINE new == [resellers[r0] EXCEPT !.lifetime = @ - v]
<1>6. resellers' = [resellers EXCEPT ![r0] = new]
  <2>1. Larger(0, task[t].lifetime - v) = task[t].lifetime - v
    BY <1>3, <1>5 DEF Larger
  <2> QED  BY <1>0, <1>1, <1>2, <1>3, <2>1 DEF CreditLifetime, Put, ResellerRow
<1>7. /\ new.quota = resellers[r0].quota /\ new.lifetime = resellers[r0].lifetime - v
  BY <1>3 DEF ResellerRow
<1> HIDE DEF new
<1>8. /\ accountOf' = [accountOf EXCEPT ![r0] =
              [quota |-> new.quota, charged |-> new.lifetime, held |-> ActiveBytes(r0)]]
      /\ [A!Next]_accountOf => SerialInv'
  BY <1>0, <1>1, <1>6, LastStep
<1>9. v \in 0..MaxQuota /\ v <= Held(r0) /\ ActiveBytes(r0) = Held(r0) - v
  BY <1>5, LedgerAssumptions
<1>10. A!GiveBack(r0, v)
  <2>1. PICK acc, q, c, h :
          /\ acc = accountOf[r0] /\ acc = [quota |-> q, charged |-> c, held |-> h]
          /\ q = resellers[r0].quota /\ c = resellers[r0].lifetime /\ h = Held(r0)
    BY DEF accountOf
  <2> DEFINE row == [acc EXCEPT !.charged = @ - v, !.held = @ - v]
  <2>2. row = [quota |-> q, charged |-> c - v, held |-> h - v]
    <3>1. row \in [quota : {q}, charged : {c - v}, held : {h - v}]
      <4>1. acc = [quota |-> q, charged |-> c, held |-> h]
        BY <2>1
      <4> QED  BY <4>1
    <3> HIDE DEF row
    <3> QED  BY <3>1
  <2>3. accountOf' = [accountOf EXCEPT ![r0] = row]
    <3> HIDE DEF row
    <3> QED  BY <1>7, <1>8, <1>9, <2>1, <2>2
  <2>4. v <= accountOf[r0].held
    BY <1>9, <2>1
  <2> QED  BY <2>1, <2>3, <2>4 DEF A!GiveBack
<1>11. A!Next
  BY <1>9, <1>10 DEF A!Next
<1> QED  BY <1>8, <1>11

LEMMA SerialAdmin ==
  ASSUME SerialInv, NEW t \in Tasks, Alone(t), AdminCommit(t)
  PROVE  SerialInv' /\ [A!Next]_accountOf
<1>0. /\ task[t].pc = "commit" /\ Continue(t) /\ Finish(t) /\ UNCHANGED <<records, nextId>>
      /\ resellers' = [resellers EXCEPT ![task[t].owner] = Edited(@, task[t])]
  BY DEF AdminCommit, Continue
<1>1. PICK r0 \in Resellers, v \in Nat, row \in ResellerRow :
        r0 = task[t].owner /\ v = task[t].vol /\ row = resellers[r0]
  BY <1>0, Running DEF SerialInv, TypeInv, TypeOK
<1>2. /\ task[t].op \in AdminOps /\ Knows(task[t])
      /\ task[t].quota = row.quota /\ task[t].lifetime = row.lifetime
  BY <1>0, <1>1, Running DEF Fits, OpAt, Knows
<1>3. /\ Owed(task[t], r0) = 0
  BY <1>0 DEF Owed, Uncharged, Uncredited
<1>4. PICK new : new = Edited(row, task[t]) /\ resellers' = [resellers EXCEPT ![r0] = new]
  BY <1>0, <1>1
<1>5. /\ Held(r0) = ActiveBytes(r0)
      /\ row.lifetime \in Nat /\ row.quota \in Nat /\ row.lifetime <= row.quota
      /\ row.quota <= MaxQuota
  BY <1>0, <1>1, <1>3, HeldStep DEF ResellerRow
<1>6. /\ accountOf' = [accountOf EXCEPT ![r0] =
              [quota |-> new.quota, charged |-> new.lifetime, held |-> Held(r0)]]
      /\ [A!Next]_accountOf => SerialInv'
  <2>1. /\ accountOf' = [accountOf EXCEPT ![r0] =
              [quota |-> new.quota, charged |-> new.lifetime, held |-> ActiveBytes(r0)]]
        /\ [A!Next]_accountOf => SerialInv'
    <3>1. /\ task[t].pc # "idle" /\ Continue(t) /\ Finish(t)
          /\ UNCHANGED <<records, nextId>>
      BY <1>0
    <3>2. r0 = task[t].owner
      BY <1>1
    <3>3. resellers' = [resellers EXCEPT ![r0] = new]
      BY <1>4
    <3> QED  BY <3>1, <3>2, <3>3, LastStep
  <2> QED  BY <1>5, <2>1
<1>7. PICK acc, c, h :
        /\ acc = accountOf[r0] /\ acc = [quota |-> row.quota, charged |-> c, held |-> h]
        /\ c = row.lifetime /\ h = Held(r0)
  BY <1>1 DEF accountOf
<1>8. CASE task[t].op = "reset"
  <2>1. new.quota = row.quota /\ new.lifetime = Held(r0)
    <3>1. v = ActiveBytes(r0)
      BY <1>0, <1>1, <1>2, <1>8 DEF Knows
    <3> QED  BY <1>1, <1>2, <1>4, <1>5, <1>8, <3>1 DEF Edited, Put, ResellerRow
  <2>2. A!Forgive(r0)
    <3>1. [acc EXCEPT !.charged = h] = [quota |-> row.quota, charged |-> h, held |-> h]
      BY <1>7
    <3> QED  BY <1>6, <1>7, <2>1, <3>1 DEF A!Forgive
  <2> QED  BY <1>6, <2>2 DEF A!Next
<1>9. CASE task[t].op # "reset"
  <2>1. new.lifetime = row.lifetime
    BY <1>2, <1>4, <1>9 DEF Edited, AdminOps, ResellerRow
  <2>2. PICK q \in 0..MaxQuota : q = new.quota /\ row.lifetime <= q
    <3>1. CASE task[t].op = "set"
      <4>1. new.quota = v /\ row.lifetime <= v /\ v <= MaxQuota
        BY <1>1, <1>2, <1>4, <3>1 DEF Edited, Put, Knows, Measured, ResellerRow
      <4> QED  BY <1>1, <4>1, LedgerAssumptions
    <3>2. CASE task[t].op = "grow"
      <4>1. new.quota = row.quota + v /\ row.quota + v <= MaxQuota
        BY <1>1, <1>2, <1>4, <3>2 DEF Edited, Put, Knows, Measured, ResellerRow
      <4> QED  BY <1>1, <1>5, <4>1, LedgerAssumptions
    <3>3. CASE task[t].op = "shrink"
      <4>1. new.quota = Larger(row.lifetime, row.quota - v)
        BY <1>1, <1>2, <1>4, <3>3 DEF Edited, Put, ResellerRow
      <4> QED  BY <1>1, <1>5, <4>1, LedgerAssumptions DEF Larger
    <3>4. CASE task[t].op = "toggle"
      <4>1. new.quota = row.quota
        BY <1>1, <1>4, <3>4 DEF Edited, ResellerRow
      <4> QED  BY <1>5, <4>1, LedgerAssumptions
    <3> QED  BY <1>2, <1>9, <3>1, <3>2, <3>3, <3>4 DEF AdminOps
  <2>3. A!SetCap(r0, q)
    <3>1. [acc EXCEPT !.quota = q] = [quota |-> q, charged |-> c, held |-> h]
      BY <1>7
    <3>2. accountOf[r0].charged <= q
      BY <1>7, <2>2
    <3> QED  BY <1>6, <1>7, <2>1, <2>2, <3>1, <3>2 DEF A!SetCap
  <2> QED  BY <1>6, <2>2, <2>3 DEF A!Next
<1> QED  BY <1>8, <1>9

-----------------------------------------------------------------------------
(* Handlers one at a time. *)

LEMMA SerialConsume ==
  ASSUME SerialInv, UNCHANGED <<resellers, records, nextId, task>>, TypeInv'
  PROVE  SerialInv' /\ UNCHANGED accountOf
<1>1. \A r : ActiveBytes(r)' = ActiveBytes(r) /\ Held(r)' = Held(r)
  BY DEF ActiveBytes, Services, Held, PendingCharge, PendingCredit, InFlight
<1>2. UNCHANGED accountOf
  BY <1>1, AccountSame
<1>3. AccountInv'
  BY <1>2, AccountStep DEF SerialInv
<1>4. UniqueIds' /\ IdsUsed' /\ OneBusy'
  BY DEF SerialInv, UniqueIds, IdsUsed, OneBusy
<1>5. Known'
  <2>1. ASSUME NEW t \in Tasks, task'[t] # Idle PROVE Knows(task[t])'
    <3>1. Knows(task[t])
      BY <2>1 DEF SerialInv, Known
    <3> QED  BY <1>1, <3>1 DEF Knows
  <2> QED  BY <2>1 DEF Known
<1> QED  BY <1>2, <1>3, <1>4, <1>5 DEF SerialInv

LEMMA SerialStep ==
  ASSUME SerialInv, [SerialNext]_vars
  PROVE  SerialInv' /\ [A!Next]_accountOf
<1>1. ASSUME NEW t \in Tasks, Alone(t), Continue(t)
      PROVE  SerialInv' /\ [A!Next]_accountOf
  <2>1. CASE CreateValidate(t) \/ CreateProbe(t) \/ CreatePanel(t) \/ CreateSubId(t)
    BY <1>1, <2>1, SerialCreate
  <2>2. CASE CreateInsert(t)
    BY <1>1, <2>2, SerialInsert
  <2>3. CASE CreateUndo(t)
    BY <1>1, <2>3, SerialUndo
  <2>4. CASE Fetch(t)
    BY <1>1, <2>4, SerialFetch
  <2>5. CASE AddPanel(t)
    BY <1>1, <2>5, SerialAddPanel
  <2>6. CASE AddRecord(t) \/ RemoveRecord(t)
    BY <1>1, <2>6, SerialWritten
  <2>7. CASE Charge(t)
    BY <1>1, <2>7, SerialCharge
  <2>8. CASE RemoveTraffic(t) \/ RemovePanel(t) \/ DeletePanel(t)
    BY <1>1, <2>8, SerialTraffic
  <2>9. CASE DeleteTraffic(t)
    BY <1>1, <2>9, SerialDeleteTraffic
  <2>10. CASE DeleteRecord(t)
    BY <1>1, <2>10, SerialDeleted
  <2>11. CASE Credit(t)
    BY <1>1, <2>11, SerialCredit
  <2>12. CASE ResetSum(t)
    BY <1>1, <2>12, SerialResetSum
  <2>13. CASE AdminCommit(t)
    BY <1>1, <2>13, SerialAdmin
  <2> QED  BY <1>1, <2>1, <2>2, <2>3, <2>4, <2>5, <2>6, <2>7, <2>8, <2>9, <2>10, <2>11, <2>12, <2>13
           DEF Continue
<1>2. ASSUME NEW t \in Tasks, Alone(t), Begin(t)
      PROVE  SerialInv' /\ [A!Next]_accountOf
  BY <1>2, SerialBegin
<1>3. TypeInv'
  BY TypeStep DEF SerialInv, SerialNext, Next, vars
<1>4. ASSUME NEW n \in Names, Consume(n) PROVE SerialInv' /\ [A!Next]_accountOf
  BY <1>3, <1>4, SerialConsume DEF Consume
<1>5. CASE UNCHANGED vars
  BY <1>3, <1>5, SerialConsume DEF vars
<1> QED  BY <1>1, <1>2, <1>4, <1>5 DEF SerialNext

(* What services hold stays within the cap, and so does what is charged:   *)
(* the account is sound, and while volume is in a record and not yet       *)
(* charged the cached cap has room for it.                                 *)
LEMMA SerialSound == SerialInv => SharedCap /\ LifetimeWithinQuota
<1> SUFFICES ASSUME SerialInv, NEW r \in Resellers
             PROVE  /\ ActiveBytes(r) <= resellers[r].quota
                    /\ resellers[r].lifetime <= resellers[r].quota
  BY DEF SharedCap, LifetimeWithinQuota
<1>1. accountOf[r] \in A!Account /\ accountOf[r].held <= accountOf[r].charged
      /\ accountOf[r].charged <= accountOf[r].quota
  BY DEF SerialInv, AccountInv, A!AccountTypeOK, A!AccountSound
<1>2. accountOf[r] = [quota |-> resellers[r].quota, charged |-> resellers[r].lifetime,
                      held |-> Held(r)]
  BY DEF accountOf
<1>3. /\ resellers[r].quota \in Nat /\ resellers[r].lifetime \in Nat /\ Held(r) \in Nat
      /\ Held(r) <= resellers[r].lifetime /\ resellers[r].lifetime <= resellers[r].quota
  BY <1>1, <1>2 DEF A!Account
<1>4. ActiveBytes(r) \in Nat
  BY ActiveNat DEF SerialInv, TypeInv
<1>5. CASE \E t \in Tasks : Alone(t)
  <2>1. PICK t \in Tasks : Alone(t)
    BY <1>5
  <2>2. Held(r) = ActiveBytes(r) + Owed(task[t], r)
    BY <2>1, HeldAlone DEF HeldByOne, SerialInv, TypeInv
  <2>3. CASE task[t].owner = r /\ Uncharged(task[t])
    <3>1. /\ task[t].pc # "idle"
      BY <2>3 DEF Uncharged
    <3>2. /\ Knows(task[t]) /\ task[t].vol \in Nat
      BY <3>1, Running
    <3>3. Granted(task[t])
      BY <2>3 DEF Granted, Uncharged
    <3>4. resellers[r].lifetime + task[t].vol <= resellers[r].quota
      BY <2>3, <3>2, <3>3 DEF Knows, Measured
    <3>5. Owed(task[t], r) = -task[t].vol
      BY <2>3 DEF Owed
    <3> QED  BY <1>3, <1>4, <2>2, <3>2, <3>4, <3>5
  <2>4. CASE ~(task[t].owner = r /\ Uncharged(task[t]))
    <3>1. task[t].vol \in Nat
      BY DEF SerialInv, TypeInv, TypeOK, Task, Idle
    <3>2. Owed(task[t], r) \in Nat
      BY <2>4, <3>1 DEF Owed
    <3> QED  BY <1>3, <1>4, <2>2, <3>2
  <2> QED  BY <2>3, <2>4
<1>6. CASE ~\E t \in Tasks : Alone(t)
  <2>1. Tasks = {}
    BY <1>6 DEF SerialInv, OneBusy, Alone
  <2>2. PendingCharge(r) = 0 /\ PendingCredit(r) = 0
    BY <2>1, TotalEmpty DEF PendingCharge, PendingCredit, InFlight
  <2> QED  BY <1>3, <1>4, <2>2 DEF Held
<1> QED  BY <1>5, <1>6

(* Handlers that run one at a time keep the services of a reseller within  *)
(* the cap, whatever the panel answers and the admin edits.                *)
THEOREM SerialSharedCap == SerialSpec => [](SharedCap /\ LifetimeWithinQuota)
BY SerialInit, SerialStep, SerialSound, PTL DEF SerialSpec

(* Each commit of a handler that runs alone is one operation of the        *)
(* account, as its validation saw it, or changes nothing in the account:   *)
(* what the bot does in several commits is, one handler at a time, what    *)
(* QuotaAccount does in one step.                                          *)
THEOREM SerialImplementsAccount == SerialSpec => ImplementsAccount
<1>1. Init => A!Init
  BY InitAccount
<1> QED  BY <1>1, SerialInit, SerialStep, PTL DEF SerialSpec, ImplementsAccount, A!Spec

(* The same of the behaviours MCLedger checks, where some are about        *)
(* something else.                                                         *)
AloneInv == about = "alone" => SerialInv

LEMMA AloneInit == ModesInit => AloneInv
BY SerialInit DEF ModesInit, AloneInv

LEMMA AloneStep ==
  ASSUME AloneInv, [ModesNext]_modeVars
  PROVE  AloneInv' /\ (about = "alone" => [A!Next]_accountOf)
<1>1. CASE about = "alone"
  <2>1. [SerialNext]_vars /\ about' = about
    BY <1>1 DEF ModesNext, modeVars
  <2>2. SerialInv' /\ [A!Next]_accountOf
    BY <1>1, <2>1, SerialStep DEF AloneInv
  <2> QED  BY <2>2 DEF AloneInv
<1>2. CASE about # "alone"
  BY <1>2 DEF ModesNext, modeVars, AloneInv
<1> QED  BY <1>1, <1>2

(* Handlers that run one at a time keep the services within the cap. *)
THEOREM OneAtATimeSharesCap == ModesSpec => []SharedCapAlone
<1>1. AloneInv => SharedCapAlone
  BY SerialSound DEF AloneInv, SharedCapAlone
<1> QED  BY <1>1, AloneInit, AloneStep, PTL DEF ModesSpec

(* Handlers that run one at a time implement the account. *)
THEOREM OneAtATimeImplements == ModesSpec => ImplementsAccountAlone
<1>1. ModesInit => (about = "alone" => A!Init)
  BY InitAccount DEF ModesInit
<1>2. AloneInv /\ [ModesNext]_modeVars => [about = "alone" => [A!Next]_accountOf]_modeVars
  BY AloneStep
<1> QED  BY <1>1, <1>2, AloneInit, AloneStep, PTL DEF ModesSpec, ImplementsAccountAlone

-----------------------------------------------------------------------------
(* Deletions that interleave, with each other and with edits of the cap.   *)

Deleting == {"delete", "set", "grow", "shrink", "toggle"}

(* Nothing is in flight, and what services hold has been charged. *)
Settled == /\ TypeOK /\ UniqueIds
           /\ \A t \in Tasks : task[t] = Idle
           /\ ActiveCovered

DeletionsNext == (Next \/ Crash) /\ Only(Deleting)

(* What the session of a deletion caches: a lifetime from which the volume *)
(* it may give back can still be taken, because its row is there, or       *)
(* because another deletion has taken the row out of what services hold.   *)
Refundable(j) ==
    j.op = "delete" =>
        /\ ActiveBytes(j.owner) <= j.lifetime
        /\ AtRow(j) => \/ Own(j) \in records
                       \/ ActiveBytes(j.owner) + j.alloc <= j.lifetime
        /\ j.pc \in {"fetch", "traffic"} => j.vol = 0
        /\ j.pc \in {"drop", "record"} => j.vol \in {0, j.alloc}
        /\ j.pc = "credit" => ActiveBytes(j.owner) + j.vol <= j.lifetime

ChargedFor == \A r \in Resellers : ActiveBytes(r) <= resellers[r].lifetime

DelInv ==
    /\ TypeInv /\ UniqueIds
    /\ \A t \in Tasks : task[t].op \in Deleting \cup {"none"}
    /\ ChargedFor
    /\ \A t \in Tasks : Refundable(task[t])

LEMMA NoCharges ==
  ASSUME \A t \in Tasks : task[t].op \in Deleting \cup {"none"}
  PROVE  \A r \in Resellers : PendingCharge(r) = 0
<1> SUFFICES ASSUME NEW r \in Resellers PROVE PendingCharge(r) = 0
  OBVIOUS
<1>1. {t \in Tasks : task[t].owner = r /\ Uncharged(task[t])} = {}
  BY DEF Deleting, Uncharged
<1> QED  BY <1>1, TotalEmpty DEF PendingCharge, InFlight

LEMMA SettledInit == Settled => DelInv
<1> SUFFICES ASSUME Settled PROVE DelInv
  OBVIOUS
<1>1. TypeInv
  BY DEF Settled, TypeInv, StepFitsOp, Fits, Idle
<1>2. \A t \in Tasks : task[t].op = "none"
  BY DEF Settled, Idle
<1>3. ChargedFor
  <2> SUFFICES ASSUME NEW r \in Resellers PROVE ActiveBytes(r) <= resellers[r].lifetime
    BY DEF ChargedFor
  <2>1. PendingCharge(r) = 0
    BY <1>2, NoCharges
  <2>2. ActiveBytes(r) <= resellers[r].lifetime + PendingCharge(r)
    BY DEF Settled, ActiveCovered
  <2>3. resellers[r].lifetime \in Nat
    BY DEF Settled, TypeOK, ResellerRow
  <2> QED  BY <2>1, <2>2, <2>3
<1> QED  BY <1>1, <1>2, <1>3 DEF DelInv, Settled, Refundable, Deleting

LEMMA DelCovered == DelInv => ActiveCovered
<1> SUFFICES ASSUME DelInv, NEW r \in Resellers
             PROVE  ActiveBytes(r) <= resellers[r].lifetime + PendingCharge(r)
  BY DEF ActiveCovered
<1>1. PendingCharge(r) = 0
  BY NoCharges DEF DelInv
<1>2. ActiveBytes(r) <= resellers[r].lifetime /\ resellers[r].lifetime \in Nat
  BY DEF DelInv, ChargedFor, TypeInv, TypeOK, ResellerRow
<1> QED  BY <1>1, <1>2

(* Rows only go, and each takes its volume out of the sum. *)
OnlyGone ==
    /\ \A r \in Resellers : ActiveBytes(r)' <= ActiveBytes(r)
    /\ \A x \in records \ records' :
          ActiveBytes(x.owner)' + x.alloc <= ActiveBytes(x.owner)

LEMMA NoneGone == ASSUME DelInv, UNCHANGED records PROVE UniqueIds' /\ OnlyGone
<1>1. \A r : ActiveBytes(r)' = ActiveBytes(r)
  BY DEF ActiveBytes, Services
<1>2. \A r \in Resellers : ActiveBytes(r) \in Nat
  BY ActiveNat DEF DelInv, TypeInv
<1>3. OnlyGone
  BY <1>1, <1>2 DEF OnlyGone
<1> QED  BY <1>3 DEF DelInv, UniqueIds

LEMMA OneGone == ASSUME DelInv, NEW i, records' = WithoutRow(i) PROVE UniqueIds' /\ OnlyGone
<1>1. CASE \E x \in records : x.id = i
  <2>1. PICK x \in records : x.id = i
    BY <1>1
  <2>2. /\ records' = records \ {x}
        /\ \A r : ActiveBytes(r)' = ActiveBytes(r) - (IF x.owner = r THEN x.alloc ELSE 0)
    BY <2>1, RowGone DEF DelInv, TypeInv
  <2>3. \A r \in Resellers : ActiveBytes(r) \in Nat
    BY ActiveNat DEF DelInv, TypeInv
  <2>4. x.owner \in Resellers /\ x.alloc \in Nat
    BY DEF DelInv, TypeInv, TypeOK, RecordRow
  <2>5. OnlyGone
    BY <2>2, <2>3, <2>4 DEF OnlyGone
  <2> QED  BY <2>2, <2>5 DEF DelInv, UniqueIds
<1>2. CASE ~\E x \in records : x.id = i
  <2>1. records' = records
    BY <1>2 DEF WithoutRow
  <2> QED  BY <2>1, NoneGone
<1> QED  BY <1>1, <1>2

(* What another handler's session caches outlives the step. *)
LEMMA OthersRefundable ==
  ASSUME DelInv, TypeInv', OnlyGone, NEW t \in Tasks, task'[t] = task[t]
  PROVE  Refundable(task[t])'
<1> SUFFICES ASSUME task[t].op = "delete" PROVE Refundable(task[t])'
  BY DEF Refundable
<1>1. /\ task[t] \in Task \ {Idle} /\ Refundable(task[t])
  BY DEF DelInv, TypeInv, TypeOK, Idle
<1>2. PICK r0 \in Resellers, a \in Nat, l \in Nat, v \in Nat :
        r0 = task[t].owner /\ a = task[t].alloc /\ l = task[t].lifetime /\ v = task[t].vol
  BY <1>1 DEF Task
<1>3. ActiveBytes(r0) \in Nat /\ ActiveBytes(r0)' \in Nat
  <2>1. TypeOK' /\ ActiveBytes(r0) \in Nat
    BY ActiveNat DEF DelInv, TypeInv
  <2>2. Bytes(records', r0) \in Nat
    BY <2>1, BytesNat DEF TypeOK
  <2> QED  BY <2>1, <2>2 DEF Bytes, ActiveBytes, Services
<1>4. ActiveBytes(r0)' <= ActiveBytes(r0)
  BY DEF OnlyGone
<1>5. ASSUME AtRow(task[t])
      PROVE  Own(task[t]) \in records' \/ ActiveBytes(r0)' + a <= l
  <2>1. CASE Own(task[t]) \in records \ records'
    <3>1. Own(task[t]).owner = r0 /\ Own(task[t]).alloc = a
      BY <1>2 DEF Own
    <3>2. ActiveBytes(r0)' + a <= ActiveBytes(r0)
      BY <2>1, <3>1 DEF OnlyGone
    <3> QED  BY <1>1, <1>2, <1>3, <3>2 DEF Refundable
  <2>2. CASE Own(task[t]) \notin records
    BY <1>1, <1>2, <1>3, <1>4, <1>5, <2>2 DEF Refundable
  <2> QED  BY <2>1, <2>2
<1>6. /\ ActiveBytes(r0)' <= l
      /\ task[t].pc = "credit" => ActiveBytes(r0)' + v <= l
  BY <1>1, <1>2, <1>3, <1>4 DEF Refundable
<1> QED  BY <1>1, <1>2, <1>5, <1>6 DEF Refundable

LEMMA DelFrom ==
  ASSUME DelInv, TypeInv', Only(Deleting), NEW t \in Tasks, Begin(t) \/ Continue(t),
         UniqueIds', OnlyGone, Refundable(task[t])',
         \A r \in Resellers : ActiveBytes(r)' <= resellers'[r].lifetime
  PROVE  DelInv'
<1>1. \A u \in Tasks \ {t} : task'[u] = task[u]
  BY OneIdKept DEF DelInv
<1>2. \A u \in Tasks \ {t} : Refundable(task[u])'
  BY <1>1, OthersRefundable
<1> QED  BY <1>2 DEF DelInv, ChargedFor, Only

LEMMA LifetimeKept ==
  ASSUME DelInv, TypeInv', OnlyGone, \A r \in Resellers : resellers'[r].lifetime = resellers[r].lifetime
  PROVE  \A r \in Resellers : ActiveBytes(r)' <= resellers'[r].lifetime
<1> SUFFICES ASSUME NEW r \in Resellers PROVE ActiveBytes(r)' <= resellers'[r].lifetime
  OBVIOUS
<1>1. TypeOK' /\ ActiveBytes(r) \in Nat
  BY ActiveNat DEF DelInv, TypeInv
<1>2. Bytes(records', r) \in Nat
  BY <1>1, BytesNat DEF TypeOK
<1>3. ActiveBytes(r)' \in Nat
  BY <1>2 DEF Bytes, ActiveBytes, Services
<1>4. ActiveBytes(r) <= resellers[r].lifetime /\ ActiveBytes(r)' <= ActiveBytes(r)
  BY DEF DelInv, ChargedFor, OnlyGone
<1>5. resellers[r].lifetime \in Nat
  BY DEF DelInv, TypeInv, TypeOK, ResellerRow
<1> QED  BY <1>1, <1>3, <1>4, <1>5

LEMMA DelBegin ==
  ASSUME DelInv, TypeInv', Only(Deleting), NEW t \in Tasks, Begin(t)
  PROVE  DelInv'
<1>1. PICK r \in Resellers :
        \/ \E n \in Names, v \in Volumes :
              CreateBegin(t, r, n, v) \/ AddBegin(t, r, n, v) \/ RemoveBegin(t, r, n, v)
        \/ \E n \in Names : DeleteBegin(t, r, n)
        \/ \E q \in 0..MaxQuota : SetBegin(t, r, q)
        \/ \E v \in Volumes : GrowBegin(t, r, v) \/ ShrinkBegin(t, r, v)
        \/ ResetBegin(t, r)
        \/ ToggleBegin(t, r)
  BY DEF Begin
<1>2. PICK o, n, v, step :
        Start(t, o, r, n, v, step) /\ (o = "delete" => step = "fetch" /\ v = 0)
  <2>1. CASE \E n \in Names, v \in Volumes : CreateBegin(t, r, n, v)
    BY <2>1 DEF CreateBegin
  <2>2. CASE \E n \in Names, v \in Volumes : AddBegin(t, r, n, v)
    BY <2>2 DEF AddBegin
  <2>3. CASE \E n \in Names, v \in Volumes : RemoveBegin(t, r, n, v)
    BY <2>3 DEF RemoveBegin
  <2>4. CASE \E n \in Names : DeleteBegin(t, r, n)
    BY <2>4 DEF DeleteBegin
  <2>5. CASE \E q \in 0..MaxQuota : SetBegin(t, r, q)
    BY <2>5 DEF SetBegin
  <2>6. CASE \E v \in Volumes : GrowBegin(t, r, v)
    BY <2>6 DEF GrowBegin
  <2>7. CASE \E v \in Volumes : ShrinkBegin(t, r, v)
    BY <2>7 DEF ShrinkBegin
  <2>8. CASE ResetBegin(t, r) \/ ToggleBegin(t, r)
    BY <2>8 DEF ResetBegin, ToggleBegin
  <2> QED  BY <1>1, <2>1, <2>2, <2>3, <2>4, <2>5, <2>6, <2>7, <2>8
<1>3. UNCHANGED <<resellers, records, nextId, panel>>
  BY <1>2 DEF Start
<1>4. UniqueIds' /\ OnlyGone
  BY <1>3, NoneGone
<1>5. task'[t] = [pc |-> step, op |-> o, owner |-> r, name |-> n, vol |-> v, id |-> 0,
                  alloc |-> 0, quota |-> resellers[r].quota,
                  lifetime |-> resellers[r].lifetime, active |-> resellers[r].active]
  BY <1>2 DEF Start, DelInv, TypeInv, TypeOK
<1>6. ActiveBytes(r)' = ActiveBytes(r) /\ ActiveBytes(r) <= resellers[r].lifetime
  BY <1>3 DEF ActiveBytes, Services, DelInv, ChargedFor
<1>7. Refundable(task[t])'
  BY <1>2, <1>5, <1>6 DEF Refundable, AtRow
<1> QED  BY <1>3, <1>4, <1>7, LifetimeKept, DelFrom

(* The facts about a running handler, as above. *)
LEMMA DelRunning ==
  ASSUME DelInv, NEW t \in Tasks, task[t].pc # "idle"
  PROVE  /\ task[t] \in Task \ {Idle} /\ task \in [Tasks -> Task]
         /\ Fits(task[t]) /\ Refundable(task[t]) /\ task[t].op \in Deleting
         /\ task[t].owner \in Resellers /\ task[t].vol \in Nat /\ task[t].alloc \in Nat
         /\ task[t].lifetime \in Nat
<1>1. task[t] \in Task \ {Idle} /\ task \in [Tasks -> Task] /\ Fits(task[t])
  BY DEF DelInv, TypeInv, TypeOK, StepFitsOp, Idle
<1>2. task[t].op # "none"
  BY <1>1 DEF Fits, OpAt, AdminOps
<1> QED  BY <1>1, <1>2 DEF Task, DelInv

LEMMA EndRefundable ==
  ASSUME DelInv, NEW t \in Tasks, Finish(t)
  PROVE  Refundable(task[t])'
<1>1. task'[t] = Idle
  BY DEF Finish, DelInv, TypeInv, TypeOK
<1> QED  BY <1>1 DEF Refundable, Idle

LEMMA DelFetch ==
  ASSUME DelInv, TypeInv', Only(Deleting), NEW t \in Tasks, Fetch(t)
  PROVE  DelInv'
<1>0. /\ task[t].pc = "fetch" /\ Continue(t) /\ UNCHANGED <<resellers, records, nextId, panel>>
  BY DEF Fetch, Continue
<1>1. /\ task[t] \in Task \ {Idle} /\ task \in [Tasks -> Task]
      /\ Refundable(task[t]) /\ task[t].op = "delete"
  BY <1>0, DelRunning DEF Fits, OpAt, Deleting
<1>2. UniqueIds' /\ OnlyGone
  BY <1>0, NoneGone
<1>3. Refundable(task[t])'
  <2>1. CASE Finish(t)
    BY <2>1, EndRefundable
  <2>2. CASE ~Finish(t)
    <3>1. PICK x \in records :
            /\ x.owner = task[t].owner /\ x.name = task[t].name
            /\ task' = [task EXCEPT ![t].id = x.id, ![t].alloc = x.alloc, ![t].pc = "traffic"]
      BY <1>1, <2>2 DEF Fetch, Services
    <3>2. /\ task'[t].op = "delete" /\ task'[t].pc = "traffic" /\ task'[t].vol = task[t].vol
          /\ task'[t].owner = task[t].owner /\ task'[t].name = task[t].name
          /\ task'[t].id = x.id /\ task'[t].alloc = x.alloc
          /\ task'[t].lifetime = task[t].lifetime
      BY <1>1, <3>1 DEF Task
    <3>3. Own(task'[t]) = x
      <4>1. x \in RecordRow
        BY DEF DelInv, TypeInv, TypeOK
      <4> QED  BY <3>1, <3>2, <4>1 DEF Own, RecordRow
    <3>4. \A r : ActiveBytes(r)' = ActiveBytes(r)
      BY <1>0 DEF ActiveBytes, Services
    <3> QED  BY <1>0, <1>1, <3>2, <3>3, <3>4 DEF Refundable
  <2> QED  BY <2>1, <2>2
<1> QED  BY <1>0, <1>2, <1>3, LifetimeKept, DelFrom

LEMMA DelTraffic ==
  ASSUME DelInv, TypeInv', Only(Deleting), NEW t \in Tasks, DeleteTraffic(t) \/ DeletePanel(t)
  PROVE  DelInv'
<1>0. /\ task[t].pc \in {"traffic", "drop"} /\ Continue(t) /\ UNCHANGED <<resellers, records, nextId>>
  BY DEF DeleteTraffic, DeletePanel, Continue
<1>1. /\ task[t] \in Task \ {Idle} /\ task \in [Tasks -> Task]
      /\ Refundable(task[t]) /\ task[t].op = "delete"
  BY <1>0, DelRunning DEF Fits, OpAt, DeleteTraffic, DeletePanel
<1>2. UniqueIds' /\ OnlyGone
  BY <1>0, NoneGone
<1>3. Refundable(task[t])'
  <2>1. CASE Finish(t)
    BY <2>1, EndRefundable
  <2>2. CASE ~Finish(t)
    <3>1. \/ /\ task[t].pc = "traffic"
             /\ \/ Goto(t, "drop")
                \/ task' = [task EXCEPT ![t].pc = "drop", ![t].vol = task[t].alloc]
          \/ task[t].pc = "drop" /\ Goto(t, "record")
      BY <2>2 DEF DeleteTraffic, DeletePanel
    <3>2. /\ task'[t].op = "delete" /\ task'[t].pc \in {"drop", "record"}
          /\ task'[t].owner = task[t].owner /\ task'[t].name = task[t].name
          /\ task'[t].id = task[t].id /\ task'[t].alloc = task[t].alloc
          /\ task'[t].lifetime = task[t].lifetime
          /\ task'[t].vol \in {task[t].vol, task[t].alloc}
      BY <1>1, <3>1 DEF Task, Goto
    <3>3. Own(task'[t]) = Own(task[t]) /\ AtRow(task[t])
      BY <1>0, <1>1, <3>2 DEF Own, AtRow
    <3>4. \A r : ActiveBytes(r)' = ActiveBytes(r)
      BY <1>0 DEF ActiveBytes, Services
    <3>5. task'[t].vol \in {0, task'[t].alloc}
      BY <1>0, <1>1, <3>2 DEF Refundable
    <3> QED  BY <1>0, <1>1, <3>2, <3>3, <3>4, <3>5 DEF Refundable
  <2> QED  BY <2>1, <2>2
<1> QED  BY <1>0, <1>2, <1>3, LifetimeKept, DelFrom

(* The row goes: its volume, if it was still there, leaves the sum before  *)
(* the lifetime is credited.                                               *)
LEMMA DelRecord ==
  ASSUME DelInv, TypeInv', Only(Deleting), NEW t \in Tasks, DeleteRecord(t)
  PROVE  DelInv'
<1>0. /\ task[t].pc = "record" /\ task[t].op = "delete" /\ Continue(t)
      /\ records' = WithoutRow(task[t].id) /\ UNCHANGED <<resellers, nextId>>
  BY DEF DeleteRecord, Continue
<1>1. /\ task[t] \in Task \ {Idle} /\ task \in [Tasks -> Task] /\ Refundable(task[t])
  BY <1>0, DelRunning
<1>2. PICK i : i = task[t].id /\ records' = WithoutRow(i)
  BY <1>0
<1>3. UniqueIds' /\ OnlyGone
  BY <1>2, OneGone
<1>4. Refundable(task[t])'
  <2>1. CASE Finish(t)
    BY <2>1, EndRefundable
  <2>2. CASE ~Finish(t)
    <3>1. Goto(t, "credit") /\ task[t].vol > 0
      BY <2>2 DEF DeleteRecord
    <3>2. PICK r0 \in Resellers, a \in Nat, l \in Nat :
            r0 = task[t].owner /\ a = task[t].alloc /\ l = task[t].lifetime
      BY <1>1 DEF Task
    <3>3. /\ task'[t].op = "delete" /\ task'[t].pc = "credit" /\ task'[t].owner = r0
          /\ task'[t].lifetime = l /\ task'[t].vol = a
      BY <1>0, <1>1, <3>1, <3>2 DEF Task, Goto, Refundable
    <3>4. /\ ActiveBytes(r0) \in Nat /\ ActiveBytes(r0)' \in Nat
          /\ ActiveBytes(r0)' <= ActiveBytes(r0)
      <4>1. TypeOK' /\ ActiveBytes(r0) \in Nat
        BY ActiveNat DEF DelInv, TypeInv
      <4>2. Bytes(records', r0) \in Nat
        BY <4>1, BytesNat DEF TypeOK
      <4> QED  BY <1>3, <4>1, <4>2 DEF Bytes, ActiveBytes, Services, OnlyGone
    <3>5. ActiveBytes(r0)' + a <= l
      <4>1. CASE Own(task[t]) \in records
        <5>1. /\ Own(task[t]).owner = r0 /\ Own(task[t]).alloc = a /\ Own(task[t]).id = i
          BY <1>0, <1>2, <3>2 DEF Own
        <5>2. Own(task[t]) \in records \ records'
          BY <1>2, <4>1, <5>1 DEF WithoutRow
        <5>3. ActiveBytes(r0)' + a <= ActiveBytes(r0)
          BY <1>3, <5>1, <5>2 DEF OnlyGone
        <5> QED  BY <1>0, <1>1, <3>2, <3>4, <5>3 DEF Refundable
      <4>2. CASE Own(task[t]) \notin records
        <5>1. AtRow(task[t])
          BY <1>0 DEF AtRow
        <5> QED  BY <1>0, <1>1, <3>2, <3>4, <4>2, <5>1 DEF Refundable
      <4> QED  BY <4>1, <4>2
    <3> QED  BY <3>2, <3>3, <3>4, <3>5 DEF Refundable, AtRow
  <2> QED  BY <2>1, <2>2
<1> QED  BY <1>0, <1>3, <1>4, LifetimeKept, DelFrom

(* What is given back leaves enough for what is left. *)
LEMMA DelCredit ==
  ASSUME DelInv, TypeInv', Only(Deleting), NEW t \in Tasks, Credit(t)
  PROVE  DelInv'
<1>0. /\ task[t].pc = "credit" /\ Continue(t) /\ Finish(t) /\ UNCHANGED <<records, nextId>>
      /\ CreditLifetime(task[t])
  BY DEF Credit, Continue
<1>1. /\ Refundable(task[t]) /\ task[t].op = "delete"
  BY <1>0, DelRunning DEF Fits, OpAt, Deleting
<1>2. PICK r0 \in Resellers, v \in Nat, l \in Nat :
        r0 = task[t].owner /\ v = task[t].vol /\ l = task[t].lifetime
  BY <1>0, DelRunning
<1>3. /\ ActiveBytes(r0) + v <= l /\ ActiveBytes(r0) \in Nat
  BY <1>0, <1>1, <1>2, ActiveNat DEF Refundable, DelInv, TypeInv
<1>4. /\ \A r \in Resellers \ {r0} : resellers'[r].lifetime = resellers[r].lifetime
      /\ resellers'[r0].lifetime \in {resellers[r0].lifetime, l - v}
  <2>1. Larger(0, l - v) = l - v
    BY <1>3 DEF Larger
  <2> QED  BY <1>0, <1>2, <2>1 DEF CreditLifetime, Put, DelInv, TypeInv, TypeOK, ResellerRow
<1>5. UniqueIds' /\ OnlyGone
  BY <1>0, NoneGone
<1>6. \A r \in Resellers : ActiveBytes(r)' <= resellers'[r].lifetime
  <2>1. \A r \in Resellers : ActiveBytes(r)' = ActiveBytes(r) /\ ActiveBytes(r) <= resellers[r].lifetime
    BY <1>0 DEF ActiveBytes, Services, DelInv, ChargedFor
  <2>2. ActiveBytes(r0) <= l - v
    BY <1>3
  <2> QED  BY <1>4, <2>1, <2>2
<1> QED  BY <1>0, <1>5, <1>6, EndRefundable, DelFrom

LEMMA DelAdmin ==
  ASSUME DelInv, TypeInv', Only(Deleting), NEW t \in Tasks, AdminCommit(t)
  PROVE  DelInv'
<1>0. /\ task[t].pc = "commit" /\ Continue(t) /\ Finish(t) /\ UNCHANGED <<records, nextId>>
      /\ resellers' = [resellers EXCEPT ![task[t].owner] = Edited(@, task[t])]
  BY DEF AdminCommit, Continue
<1>1. task[t].op \in {"set", "grow", "shrink", "toggle"}
  BY <1>0, DelRunning DEF Fits, OpAt, Deleting, AdminOps
<1>2. \A row \in ResellerRow : Edited(row, task[t]).lifetime = row.lifetime
  BY <1>1 DEF Edited, ResellerRow
<1>3. \A r \in Resellers : resellers'[r].lifetime = resellers[r].lifetime
  BY <1>0, <1>2 DEF DelInv, TypeInv, TypeOK
<1>4. UniqueIds' /\ OnlyGone
  BY <1>0, NoneGone
<1> QED  BY <1>0, <1>3, <1>4, LifetimeKept, EndRefundable, DelFrom

LEMMA DelStep ==
  ASSUME DelInv, [DeletionsNext]_vars
  PROVE  DelInv'
<1>0. TypeInv'
  BY TypeStep DEF DelInv, DeletionsNext
<1>1. ASSUME NEW t \in Tasks, Only(Deleting), Continue(t)
      PROVE  DelInv'
  <2>1. task[t].pc # "idle"
    BY <1>1 DEF Continue, CreateValidate, CreateProbe, CreateInsert, CreatePanel, CreateSubId,
       CreateUndo, Fetch, AddPanel, AddRecord, Charge, RemoveTraffic, RemovePanel, RemoveRecord,
       DeleteTraffic, DeletePanel, DeleteRecord, Credit, ResetSum, AdminCommit
  <2>2. task[t].op \in Deleting /\ OpAt(task[t].pc, task[t].op)
    BY <2>1, DelRunning DEF Fits
  <2>3. ~(CreateValidate(t) \/ CreateProbe(t) \/ CreateInsert(t) \/ CreatePanel(t)
          \/ CreateSubId(t) \/ CreateUndo(t))
    BY <2>2 DEF OpAt, Deleting, CreateValidate, CreateProbe, CreateInsert, CreatePanel,
       CreateSubId, CreateUndo
  <2>4. ~(AddPanel(t) \/ AddRecord(t) \/ Charge(t) \/ RemoveTraffic(t) \/ RemovePanel(t)
          \/ RemoveRecord(t) \/ ResetSum(t))
    BY <2>2 DEF OpAt, Deleting, AddPanel, AddRecord, Charge, RemoveTraffic, RemovePanel,
       RemoveRecord, ResetSum
  <2>5. Fetch(t) \/ DeleteTraffic(t) \/ DeletePanel(t) \/ DeleteRecord(t) \/ Credit(t)
          \/ AdminCommit(t)
    BY <1>1, <2>3, <2>4 DEF Continue
  <2> QED  BY <1>0, <1>1, <2>5, DelFetch, DelTraffic, DelRecord, DelCredit, DelAdmin
<1>2. ASSUME NEW t \in Tasks, Only(Deleting), Begin(t) PROVE DelInv'
  BY <1>0, <1>2, DelBegin
<1>3. ASSUME UNCHANGED <<resellers, records>>,
             \A t \in Tasks : task'[t] = task[t] \/ task'[t] = Idle
      PROVE  DelInv'
  <2>1. UniqueIds' /\ OnlyGone
    BY <1>3, NoneGone
  <2>2. \A t \in Tasks : Refundable(task[t])'
    <3>1. ASSUME NEW t \in Tasks, task'[t] = Idle PROVE Refundable(task[t])'
      BY <3>1 DEF Refundable, Idle
    <3> QED  BY <1>0, <1>3, <2>1, <3>1, OthersRefundable
  <2>3. ChargedFor'
    BY <1>0, <1>3, <2>1, LifetimeKept DEF ChargedFor
  <2>4. \A t \in Tasks : task'[t].op \in Deleting \cup {"none"}
    BY <1>3 DEF DelInv, Idle
  <2> QED  BY <1>0, <2>1, <2>2, <2>3, <2>4 DEF DelInv
<1>4. CASE Crash
  BY <1>3, <1>4 DEF Crash
<1>5. CASE \E n \in Names : Consume(n)
  BY <1>3, <1>5 DEF Consume
<1>6. CASE UNCHANGED vars
  BY <1>3, <1>6 DEF vars
<1> QED  BY <1>1, <1>2, <1>4, <1>5, <1>6 DEF DeletionsNext, Next

(* However many deletions run at once, of one service or of several, with  *)
(* edits of the cap and crashes between their steps: what the services     *)
(* that are left hold stays charged, from any state in which nothing is in *)
(* flight and what services hold is charged.  No volume is given back      *)
(* twice.                                                                  *)
THEOREM DeletionsKeepCovered == Settled /\ [][DeletionsNext]_vars => []ActiveCovered
BY SettledInit, DelStep, DelCovered, PTL

(* The deletions MCLedger checks: three handlers, two services. *)
LEMMA SoldTwoSettled == SoldTwo => Settled
<1> SUFFICES ASSUME SoldTwo PROVE Settled
  OBVIOUS
<1> DEFINE names == <<n1, n2>>
           sold(i) == [id |-> i, name |-> names[i], owner |-> r1, alloc |-> 2]
<1>0. Len(names) = 2 /\ DOMAIN names = {1, 2} /\ names[1] = n1 /\ names[2] = n2
  OBVIOUS
<1>1. records = {sold(1), sold(2)}
  BY <1>0 DEF SoldTwo, SoldAt
<1>2. sold(1) \in RecordRow /\ sold(2) \in RecordRow
  BY <1>0, SaleAssumptions, LedgerAssumptions DEF RecordRow
<1>3. sold(1).id = 1 /\ sold(2).id = 2 /\ sold(1).owner = r1 /\ sold(2).owner = r1
      /\ sold(1).alloc = 2 /\ sold(2).alloc = 2
  OBVIOUS
<1> HIDE DEF sold
<1>4. UniqueIds
  BY <1>1, <1>3 DEF UniqueIds
<1>5. \A t \in Tasks : task[t] = Idle
  BY DEF SoldTwo, SoldAt
<1>6. IsFiniteSet({}) /\ IsFiniteSet({sold(1)}) /\ IsFiniteSet({sold(1), sold(2)})
  BY FS_EmptySet, FS_AddElement
<1>7. /\ resellers \in [Resellers -> ResellerRow]
      /\ \A r \in Resellers : resellers[r].lifetime = IF r = r1 THEN 4 ELSE 0
  BY <1>0, LedgerAssumptions DEF SoldTwo, SoldAt, ResellerRow
<1>8. TypeOK
  <2>1. nextId = 3
    BY <1>0 DEF SoldTwo, SoldAt
  <2>2. panel \in [Names -> PanelClient]
    BY DEF SoldTwo, SoldAt, PanelClient
  <2>3. task \in [Tasks -> Task]
    BY DEF SoldTwo, SoldAt, Task
  <2> QED  BY <1>1, <1>2, <1>6, <1>7, <2>1, <2>2, <2>3 DEF TypeOK
<1>9. ASSUME NEW r \in Resellers PROVE ActiveBytes(r) <= resellers[r].lifetime
  <2>1. Bytes({}, r) = 0
    BY TotalEmpty DEF Bytes
  <2>2. Bytes({} \cup {sold(1)}, r) = Bytes({}, r) + (IF r1 = r THEN 2 ELSE 0)
    BY <1>2, <1>3, <1>6, BytesAdd
  <2>3. /\ {sold(1)} \in SUBSET RecordRow /\ sold(2) \notin {sold(1)}
        /\ {} \cup {sold(1)} = {sold(1)}
    BY <1>2, <1>3
  <2>4. Bytes({sold(1)} \cup {sold(2)}, r) = Bytes({sold(1)}, r) + (IF r1 = r THEN 2 ELSE 0)
    BY <1>2, <1>3, <1>6, <2>3, BytesAdd
  <2>5. records = {sold(1)} \cup {sold(2)} /\ ActiveBytes(r) = Bytes(records, r)
    BY <1>1 DEF Bytes, ActiveBytes, Services
  <2> QED  BY <1>7, <2>1, <2>2, <2>3, <2>4, <2>5
<1>10. ActiveCovered
  <2> SUFFICES ASSUME NEW r \in Resellers
               PROVE  ActiveBytes(r) <= resellers[r].lifetime + PendingCharge(r)
    BY DEF ActiveCovered
  <2>1. PendingCharge(r) = 0
    BY <1>5, NoCharges DEF Idle
  <2> QED  BY <1>7, <1>9, <2>1 DEF ResellerRow
<1> QED  BY <1>4, <1>5, <1>8, <1>10 DEF Settled

(* Interleaved deletions never give back more than what is left is charged *)
(* for.                                                                    *)
THEOREM InterleavedDeletionsCovered == ModesSpec => []DeletionsCovered
<1> DEFINE Inv == about = "deletions" => DelInv
<1>1. ModesInit => Inv
  BY SoldTwoSettled, SettledInit DEF ModesInit
<1>2. Inv /\ [ModesNext]_modeVars => Inv'
  <2> SUFFICES ASSUME about = "deletions", DelInv, [ModesNext]_modeVars
               PROVE  DelInv'
    BY DEF ModesNext, modeVars
  <2>1. CASE UNCHANGED modeVars
    BY <2>1, DelStep DEF modeVars
  <2>2. CASE ModesNext
    <3>1. Handlers(3) /\ Only({"delete"})
      BY <2>2 DEF ModesNext
    <3>2. Only(Deleting)
      BY <3>1 DEF Only, Deleting
    <3>3. Next
      BY <3>1 DEF Handlers, Next
    <3> QED  BY <3>2, <3>3, DelStep DEF DeletionsNext
  <2> QED  BY <2>1, <2>2
<1>3. Inv => DeletionsCovered
  BY DelCovered DEF DeletionsCovered
<1> QED  BY <1>1, <1>2, <1>3, PTL DEF ModesSpec
=============================================================================
