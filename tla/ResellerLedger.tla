--------------------------- MODULE ResellerLedger ---------------------------
(***************************************************************************)
(* The reseller ledger: the operations of services/reseller_service.py and *)
(* services/reseller_edit.py as the tasks that run them.                   *)
(*                                                                         *)
(* aiogram starts a task for every update, so handlers interleave at every *)
(* await.  A task opens one database session, and the session keeps every  *)
(* row it has read (expire_on_commit=False): the reseller row a task       *)
(* changes at its end is the row it read at its beginning.  A task here is *)
(* the record of what its session caches and of how far it has come; a     *)
(* step is what happens between two awaits: a database commit, the reads   *)
(* that precede one, or a call to the 3x-ui panel.                         *)
(*                                                                         *)
(* Abstractions.  Volumes are small numbers of units.  Services are names  *)
(* (an email on its panel); one name belongs to one panel.  Which panel    *)
(* and which inbounds a reseller may use is left out: a start that those   *)
(* checks refuse changes nothing.  The steps between two reads that        *)
(* nothing separates but other reads are joined.                           *)
(***************************************************************************)
EXTENDS Integers, FiniteSets

CONSTANTS
    Tasks,          \* handler tasks that may run at the same time
    Resellers,      \* telegram ids with a row in resellers
    Names,          \* service names (client_records.email)
    Volumes,        \* volumes a user or the admin may enter
    MinVolume,      \* MIN_CLIENT_VOLUME_GB
    RefundBelow,    \* quota_refund_max_traffic_gb
    MaxClients,     \* max_clients of the reseller's assignment to the panel
    Attempts,       \* XuiClient.max_retries
    IdReuse,        \* TRUE for a table made by create_all, FALSE after migration 005
    Ops,            \* the operations the users of this instance perform
    InitQuota,      \* quota_bytes of a new reseller
    MaxQuota,       \* bound: largest cap an admin enters
    MaxAlloc,       \* bound: largest volume of a record or a panel client
    MaxUsed,        \* bound: largest traffic of a panel client
    MaxId           \* bound: ids of client_records

ServiceOps == {"create", "add", "remove", "delete"}
AdminOps == {"set", "grow", "shrink", "reset", "toggle"}

ASSUME LedgerAssumptions ==
    /\ Volumes \subseteq Nat \ {0}
    /\ MinVolume \in Nat
    /\ RefundBelow \in Nat
    /\ MaxClients \in Nat
    /\ Attempts \in Nat \ {0}
    /\ IdReuse \in BOOLEAN
    /\ Ops \subseteq ServiceOps \cup AdminOps
    /\ MaxQuota \in Nat
    /\ InitQuota \in 0..MaxQuota
    /\ MaxAlloc \in Nat
    /\ MaxUsed \in Nat
    /\ MaxId \in Nat

VARIABLES
    resellers,      \* committed rows: [quota, lifetime, active]
    records,        \* table client_records, a set of rows
    nextId,         \* sqlite_sequence of an AUTOINCREMENT table
    panel,          \* clients the 3x-ui panel has: [total, used]
    task            \* the handler tasks and their sessions

vars == <<resellers, records, nextId, panel, task>>

ResellerRow == [quota : Nat, lifetime : Nat, active : BOOLEAN]
RecordRow == [id : 1..MaxId, name : Names, owner : Resellers, alloc : Nat]

NoClient == [total |-> -1, used |-> 0]
PanelClient == [total : Nat, used : Nat] \cup {NoClient}

Steps == {"idle", "fetch", "validate", "probe", "insert", "panel", "subid",
          "undo", "record", "charge", "traffic", "drop", "credit", "sum", "commit"}

(* A handler that is not running. *)
Idle == [pc |-> "idle", op |-> "none", owner |-> "none", name |-> "none",
         vol |-> 0, id |-> 0, alloc |-> 0,
         quota |-> 0, lifetime |-> 0, active |-> FALSE]

Task == [pc : Steps \ {"idle"}, op : Ops, owner : Resellers, name : Names \cup {"none"},
         vol : Nat, id : 0..MaxId, alloc : Nat,
         quota : Nat, lifetime : Nat, active : BOOLEAN] \cup {Idle}

TypeOK ==
    /\ resellers \in [Resellers -> ResellerRow]
    /\ records \subseteq RecordRow /\ IsFiniteSet(records)
    /\ nextId \in Nat \ {0}
    /\ panel \in [Names -> PanelClient]
    /\ task \in [Tasks -> Task]

Init ==
    /\ resellers = [r \in Resellers |->
                      [quota |-> InitQuota, lifetime |-> 0, active |-> TRUE]]
    /\ records = {}
    /\ nextId = 1
    /\ panel = [n \in Names |-> NoClient]
    /\ task = [t \in Tasks |-> Idle]

-----------------------------------------------------------------------------
(* The tables. *)

(* The sum of the volumes amount[x]: how many units there are of them.     *)
Total(amount) == Cardinality(UNION {{x} \X (1..amount[x]) : x \in DOMAIN amount})

Services(r) == {x \in records : x.owner = r}
ActiveBytes(r) == Total([x \in Services(r) |-> x.alloc])
NameTaken(n) == \E x \in records : x.name = n
RowExists(i) == \E x \in records : x.id = i

(* Mistaken variants of a definition, each of which a run must refute, stand *)
(* before the definition they vary and are used by none.                     *)

(* The id SQLite gives the next row: one more than the largest in the      *)
(* table, or a number never used before when the table has AUTOINCREMENT.  *)
FreshId(i) ==
    /\ i \in 1..MaxId
    /\ IF IdReuse THEN /\ \A x \in records : x.id < i
                       /\ i = 1 \/ RowExists(i - 1)
                  ELSE i = nextId

WithoutRow(i) == {x \in records : x.id # i}
WithAlloc(i, a) == {IF x.id = i THEN [x EXCEPT !.alloc = a] ELSE x : x \in records}

(* A commit writes a column only when the task changed the value it read.  *)
Put(committed, read, new) == IF new = read THEN committed ELSE new

Larger(a, b) == IF a < b THEN b ELSE a

-----------------------------------------------------------------------------
(* Steps every handler is made of. *)

Finish(t) == task' = [task EXCEPT ![t] = Idle]
Goto(t, step) == task' = [task EXCEPT ![t].pc = step]

(* The handler opens its session and reads the reseller row. *)
Start(t, o, r, n, v, step) ==
    /\ task[t].pc = "idle"
    /\ o \in Ops
    /\ task' = [task EXCEPT ![t] =
         [pc |-> step, op |-> o, owner |-> r, name |-> n, vol |-> v, id |-> 0, alloc |-> 0,
          quota |-> resellers[r].quota, lifetime |-> resellers[r].lifetime,
          active |-> resellers[r].active]]
    /\ UNCHANGED <<resellers, records, nextId, panel>>

(* QuotaService.global_status on the row the session caches. *)
Remaining(j) == Larger(0, j.quota - j.lifetime)

(* mistake: the volume is added to whatever is committed *)
ChargeCommitted(j) ==
    resellers' = [resellers EXCEPT ![j.owner].lifetime = @ + j.vol]
(* mistake: the volume is taken from whatever is committed *)
CreditCommitted(j) ==
    resellers' = [resellers EXCEPT ![j.owner].lifetime = Larger(0, @ - j.vol)]
(* mistake: no floor at zero *)
CreditUnclamped(j) ==
    resellers' = [resellers EXCEPT ![j.owner].lifetime =
                    Put(@, j.lifetime, j.lifetime - j.vol)]

(* add_lifetime_allocated and subtract_lifetime_allocated: the new value   *)
(* is computed from the cached row and written over whatever is committed. *)
ChargeLifetime(j) ==
    resellers' = [resellers EXCEPT ![j.owner].lifetime =
                    Put(@, j.lifetime, j.lifetime + j.vol)]
CreditLifetime(j) ==
    resellers' = [resellers EXCEPT ![j.owner].lifetime =
                    Put(@, j.lifetime, Larger(0, j.lifetime - j.vol))]

-----------------------------------------------------------------------------
(* confirm_create and ResellerService.create_service.                      *)

CreateBegin(t, r, n, v) ==
    /\ resellers[r].active
    /\ Start(t, "create", r, n, v, "validate")

(* validate_create and email_exists: the cached row against the tables.    *)
CreateAllowed(j) ==
    /\ j.vol >= MinVolume
    /\ Cardinality(Services(j.owner)) < MaxClients
    /\ j.vol <= Remaining(j)
    /\ ~NameTaken(j.name)

CreateValidate(t) ==
    /\ task[t].pc = "validate"
    /\ IF CreateAllowed(task[t]) THEN Goto(t, "probe") ELSE Finish(t)
    /\ UNCHANGED <<resellers, records, nextId, panel>>

(* xui.get_client: the panel has no client of that name, or it has one, or *)
(* it does not answer.                                                     *)
CreateProbe(t) ==
    /\ task[t].pc = "probe"
    /\ \/ panel[task[t].name] = NoClient /\ Goto(t, "insert")
       \/ Finish(t)
    /\ UNCHANGED <<resellers, records, nextId, panel>>

(* client_repo.add; a name taken meanwhile breaks the UNIQUE constraint.   *)
(* Bound: no row is added when the ids 1..MaxId are used up.               *)
CreateInsert(t) ==
    LET j == task[t] IN
    /\ j.pc = "insert"
    /\ \/ /\ ~NameTaken(j.name)
          /\ \E i \in 1..MaxId :
               /\ FreshId(i)
               /\ records' = records \cup
                    {[id |-> i, name |-> j.name, owner |-> j.owner, alloc |-> j.vol]}
               /\ task' = [task EXCEPT ![t].pc = "panel", ![t].id = i]
          /\ nextId' = IF IdReuse THEN nextId ELSE nextId + 1
       \/ /\ NameTaken(j.name) \/ \A i \in 1..MaxId : ~FreshId(i)
          /\ Finish(t)
          /\ UNCHANGED <<records, nextId>>
    /\ UNCHANGED <<resellers, panel>>

(* xui.create_client.  The POST is repeated on any error: once a lost      *)
(* answer hid a success, the repetition is refused and the call fails.     *)
CreatePanel(t) ==
    LET j == task[t] IN
    /\ j.pc = "panel"
    /\ j.op = "create"
    /\ \/ /\ panel[j.name] = NoClient
          /\ panel' = [panel EXCEPT ![j.name] = [total |-> j.vol, used |-> 0]]
          /\ Goto(t, "subid") \/ Goto(t, "undo")
       \/ Goto(t, "undo") /\ UNCHANGED panel
    /\ UNCHANGED <<resellers, records, nextId>>

(* mistake: the handler waits for a row that is gone *)
CreateSubIdStuck(t) ==
    /\ task[t].pc = "subid"
    /\ RowExists(task[t].id) /\ (Goto(t, "charge") \/ Goto(t, "undo"))
    /\ UNCHANGED <<resellers, records, nextId, panel>>

(* set_sub_id, then get_client_delivery.  When the row is gone the UPDATE  *)
(* matches nothing: StaleDataError, and the session of the handler refuses *)
(* the commit of its except branch too.                                    *)
CreateSubId(t) ==
    /\ task[t].pc = "subid"
    /\ \/ RowExists(task[t].id) /\ (Goto(t, "charge") \/ Goto(t, "undo"))
       \/ ~RowExists(task[t].id) /\ Finish(t)
    /\ UNCHANGED <<resellers, records, nextId, panel>>

(* mistake: the newest record goes, whoever added it *)
CreateUndoNewest(t) ==
    /\ task[t].pc = "undo"
    /\ records' = {x \in records : \E y \in records : x.id < y.id}
    /\ Finish(t)
    /\ UNCHANGED <<resellers, nextId, panel>>

(* mistake: the record of a failed creation stays *)
CreateUndoNothing(t) ==
    /\ task[t].pc = "undo"
    /\ Finish(t)
    /\ UNCHANGED <<resellers, records, nextId, panel>>

(* The except branch: the record goes, the panel's client does not.        *)
CreateUndo(t) ==
    /\ task[t].pc = "undo"
    /\ records' = WithoutRow(task[t].id)
    /\ Finish(t)
    /\ UNCHANGED <<resellers, nextId, panel>>

-----------------------------------------------------------------------------
(* open_service_context: the record of an existing service.                *)

Fetch(t) ==
    LET j == task[t]
        own == {x \in Services(j.owner) : x.name = j.name}
    IN
    /\ j.pc = "fetch"
    /\ \/ \E x \in own :
            task' = [task EXCEPT ![t].id = x.id, ![t].alloc = x.alloc,
                                 ![t].pc = IF j.op = "add" THEN "panel" ELSE "traffic"]
       \/ own = {} /\ Finish(t)
    /\ UNCHANGED <<resellers, records, nextId, panel>>

-----------------------------------------------------------------------------
(* add_traffic_confirm and ResellerService.add_service_traffic.            *)

AddBegin(t, r, n, v) == Start(t, "add", r, n, v, "fetch")

(* mistake: no look at the remaining volume *)
AddAnything(j) == j.active

AddAllowed(j) == j.active /\ j.vol <= Remaining(j)

(* add_client_traffic_bytes.  Each of the attempts may take effect before  *)
(* its answer is lost, so a call applies the addition up to Attempts       *)
(* times; the panel skips a client it does not have and answers all right. *)
AddPanel(t) ==
    LET j == task[t]
        c == panel[j.name]
    IN
    /\ j.pc = "panel"
    /\ j.op = "add"
    /\ \/ /\ AddAllowed(j)
          /\ j.alloc + j.vol <= MaxAlloc
          /\ \/ /\ c = NoClient
                /\ UNCHANGED panel
                /\ Goto(t, "record") \/ Finish(t)
             \/ /\ c # NoClient
                /\ \E k \in 0..Attempts :
                     /\ c.total + k * j.vol <= MaxAlloc
                     /\ panel' = [panel EXCEPT ![j.name].total = @ + k * j.vol]
                     /\ \/ k > 0 /\ Goto(t, "record")
                        \/ Finish(t)
       \/ /\ ~(AddAllowed(j) /\ j.alloc + j.vol <= MaxAlloc)
          /\ Finish(t)
          /\ UNCHANGED panel
    /\ UNCHANGED <<resellers, records, nextId>>

(* add_allocated_bytes; no row to update is a StaleDataError.              *)
AddRecord(t) ==
    LET j == task[t] IN
    /\ j.pc = "record"
    /\ j.op = "add"
    /\ \/ /\ RowExists(j.id)
          /\ records' = WithAlloc(j.id, j.alloc + j.vol)
          /\ Goto(t, "charge")
       \/ /\ ~RowExists(j.id)
          /\ Finish(t)
          /\ UNCHANGED records
    /\ UNCHANGED <<resellers, nextId, panel>>

(* The last commit of a creation and of an added volume.                   *)
Charge(t) ==
    /\ task[t].pc = "charge"
    /\ ChargeLifetime(task[t])
    /\ Finish(t)
    /\ UNCHANGED <<records, nextId, panel>>

-----------------------------------------------------------------------------
(* reduce_traffic_confirm and ResellerService.remove_service_traffic.      *)

RemoveBegin(t, r, n, v) == Start(t, "remove", r, n, v, "fetch")

(* validate_remove_traffic, with the traffic the panel has just reported.  *)
RemoveAllowed(j, used) ==
    /\ j.active
    /\ j.vol <= j.alloc
    /\ j.alloc - j.vol >= used

RemoveTraffic(t) ==
    LET j == task[t] IN
    /\ j.pc = "traffic"
    /\ j.op = "remove"
    /\ \/ /\ RemoveAllowed(j, panel[j.name].used)
          /\ Goto(t, "panel")
       \/ Finish(t)
    /\ UNCHANGED <<resellers, records, nextId, panel>>

(* subtract_client_traffic_bytes: repeated like the addition; an answer    *)
(* that lists the client as skipped is an error.                           *)
RemovePanel(t) ==
    LET j == task[t]
        c == panel[j.name]
    IN
    /\ j.pc = "panel"
    /\ j.op = "remove"
    /\ \/ /\ c # NoClient
          /\ \E k \in 1..Attempts :
               panel' = [panel EXCEPT ![j.name].total = Larger(0, @ - k * j.vol)]
          /\ Goto(t, "record") \/ Finish(t)
       \/ Finish(t) /\ UNCHANGED panel
    /\ UNCHANGED <<resellers, records, nextId>>

RemoveRecord(t) ==
    LET j == task[t] IN
    /\ j.pc = "record"
    /\ j.op = "remove"
    /\ \/ /\ RowExists(j.id)
          /\ records' = WithAlloc(j.id, Larger(0, j.alloc - j.vol))
          /\ Goto(t, "credit")
       \/ /\ ~RowExists(j.id)
          /\ Finish(t)
          /\ UNCHANGED records
    /\ UNCHANGED <<resellers, nextId, panel>>

-----------------------------------------------------------------------------
(* service_delete_confirm and ResellerService.delete_service.              *)

DeleteBegin(t, r, n) == Start(t, "delete", r, n, 0, "fetch")

(* The refund is the record's volume when the client has used less than    *)
(* the threshold, nothing when the panel reports an error; an unreachable  *)
(* panel ends the handler.                                                 *)
DeleteTraffic(t) ==
    LET j == task[t]
        c == panel[j.name]
    IN
    /\ j.pc = "traffic"
    /\ j.op = "delete"
    /\ \/ /\ c.used < RefundBelow
          /\ task' = [task EXCEPT ![t].pc = "drop", ![t].vol = j.alloc]
       \/ Goto(t, "drop")
       \/ Finish(t)
    /\ UNCHANGED <<resellers, records, nextId, panel>>

(* xui.delete_client: an error the panel reports is swallowed, whether or  *)
(* not a lost answer hid a removal; a panel out of reach ends the handler. *)
(* The alerts sent for the service, which the handler then forgets, are    *)
(* not part of this state.                                                 *)
DeletePanel(t) ==
    /\ task[t].pc = "drop"
    /\ Goto(t, "record") \/ Finish(t)
    /\ panel' = [panel EXCEPT ![task[t].name] = NoClient] \/ UNCHANGED panel
    /\ UNCHANGED <<resellers, records, nextId>>

(* client_repo.delete; a DELETE that matches nothing only warns.           *)
DeleteRecord(t) ==
    /\ task[t].pc = "record"
    /\ task[t].op = "delete"
    /\ records' = WithoutRow(task[t].id)
    /\ IF task[t].vol > 0 THEN Goto(t, "credit") ELSE Finish(t)
    /\ UNCHANGED <<resellers, nextId, panel>>

(* The last commit of a refund and of a reduced volume.                    *)
Credit(t) ==
    /\ task[t].pc = "credit"
    /\ CreditLifetime(task[t])
    /\ Finish(t)
    /\ UNCHANGED <<records, nextId, panel>>

-----------------------------------------------------------------------------
(* The admin's edits (services/reseller_edit.py, reseller_toggle).         *)

(* mistake: no floor at the use *)
SetBeginNoFloor(t, r, q) == Start(t, "set", r, "none", q, "commit")

(* apply_quota: a floor at the use, read at the beginning. *)
SetBegin(t, r, q) ==
    /\ q >= resellers[r].lifetime
    /\ Start(t, "set", r, "none", q, "commit")

(* apply_add_quota *)
GrowBegin(t, r, v) ==
    /\ resellers[r].quota + v <= MaxQuota
    /\ Start(t, "grow", r, "none", v, "commit")

(* apply_subtract_quota: the same floor. *)
ShrinkBegin(t, r, v) ==
    /\ resellers[r].quota - v >= resellers[r].lifetime
    /\ Start(t, "shrink", r, "none", v, "commit")

(* apply_reset_quota_usage and reseller_toggle *)
ResetBegin(t, r) == Start(t, "reset", r, "none", 0, "sum")
ToggleBegin(t, r) == Start(t, "toggle", r, "none", 0, "commit")

(* reset_lifetime_to_active first sums the services it finds.              *)
ResetSum(t) ==
    /\ task[t].pc = "sum"
    /\ task' = [task EXCEPT ![t].pc = "commit", ![t].vol = ActiveBytes(task[t].owner)]
    /\ UNCHANGED <<resellers, records, nextId, panel>>

(* The row an edit writes, from the row it read; upsert, which apply_quota *)
(* calls, makes the reseller active again.                                 *)
Edited(row, j) ==
    CASE j.op = "set" -> [row EXCEPT !.quota = Put(@, j.quota, j.vol),
                                     !.active = Put(@, j.active, TRUE)]
      [] j.op = "grow" -> [row EXCEPT !.quota = Put(@, j.quota, j.quota + j.vol)]
      [] j.op = "shrink" ->
           [row EXCEPT !.quota = Put(@, j.quota, Larger(j.lifetime, j.quota - j.vol))]
      [] j.op = "reset" -> [row EXCEPT !.lifetime = Put(@, j.lifetime, j.vol)]
      [] j.op = "toggle" -> [row EXCEPT !.active = Put(@, j.active, ~j.active)]

AdminCommit(t) ==
    LET j == task[t] IN
    /\ j.pc = "commit"
    /\ resellers' = [resellers EXCEPT ![j.owner] = Edited(@, j)]
    /\ Finish(t)
    /\ UNCHANGED <<records, nextId, panel>>

-----------------------------------------------------------------------------
(* The client on the panel is used.                                        *)
Consume(n) ==
    /\ panel[n] # NoClient
    /\ panel[n].used < MaxUsed
    /\ panel[n].used < panel[n].total
    /\ panel' = [panel EXCEPT ![n].used = @ + 1]
    /\ UNCHANGED <<resellers, records, nextId, task>>

Begin(t) ==
    \E r \in Resellers :
        \/ \E n \in Names, v \in Volumes :
              CreateBegin(t, r, n, v) \/ AddBegin(t, r, n, v) \/ RemoveBegin(t, r, n, v)
        \/ \E n \in Names : DeleteBegin(t, r, n)
        \/ \E q \in 0..MaxQuota : SetBegin(t, r, q)
        \/ \E v \in Volumes : GrowBegin(t, r, v) \/ ShrinkBegin(t, r, v)
        \/ ResetBegin(t, r)
        \/ ToggleBegin(t, r)

Continue(t) ==
    \/ CreateValidate(t) \/ CreateProbe(t) \/ CreateInsert(t) \/ CreatePanel(t)
    \/ CreateSubId(t) \/ CreateUndo(t)
    \/ Fetch(t)
    \/ AddPanel(t) \/ AddRecord(t) \/ Charge(t)
    \/ RemoveTraffic(t) \/ RemovePanel(t) \/ RemoveRecord(t)
    \/ DeleteTraffic(t) \/ DeletePanel(t) \/ DeleteRecord(t) \/ Credit(t)
    \/ ResetSum(t) \/ AdminCommit(t)

Next == \/ \E t \in Tasks : Begin(t) \/ Continue(t)
        \/ \E n \in Names : Consume(n)

Spec == Init /\ [][Next]_vars

(* The process ends: sessions and tasks are gone, what was committed and   *)
(* what the panel did remain.                                              *)
Crash ==
    /\ task' = [t \in Tasks |-> Idle]
    /\ UNCHANGED <<resellers, records, nextId, panel>>

CrashSpec == Init /\ [][Next \/ Crash]_vars

(* A handler that has begun is scheduled until it ends: database calls     *)
(* return, and a panel call gives up after its timeouts.                   *)
FairSpec == Spec /\ \A t \in Tasks : WF_vars(Continue(t))

-----------------------------------------------------------------------------
(* What the ledger is for.                                                 *)

(* What the bot has charged a reseller never exceeds the cap: the check of *)
(* validate_create and validate_add_traffic, made on the row the task read *)
(* at its beginning, still holds for the row its last commit overwrites.   *)
LifetimeWithinQuota ==
    \A r \in Resellers : resellers[r].lifetime <= resellers[r].quota

(* The services a reseller has hold no more than the cap ("one shared cap  *)
(* of volume for all panels", CHANGELOG.md:80).                            *)
SharedCap == \A r \in Resellers : ActiveBytes(r) <= resellers[r].quota

(* Volume of r that a running handler has put into a record and not yet    *)
(* charged, and volume it has taken out of a record and not yet credited.  *)
Uncharged(j) == \/ j.op = "create" /\ j.pc \in {"panel", "subid", "undo", "charge"}
                \/ j.op = "add" /\ j.pc = "charge"
Uncredited(j) == j.pc = "credit"
InFlight(jobs) == Total([t \in jobs |-> task[t].vol])
PendingCharge(r) == InFlight({t \in Tasks : task[t].owner = r /\ Uncharged(task[t])})
PendingCredit(r) == InFlight({t \in Tasks : task[t].owner = r /\ Uncredited(task[t])})

(* Every unit a service holds has been charged, or a running handler is    *)
(* about to charge it: no volume is given back twice, no charge is lost.   *)
ActiveCovered ==
    \A r \in Resellers : ActiveBytes(r) <= resellers[r].lifetime + PendingCharge(r)

(* Every handler ends, whatever other handlers did to its row meanwhile.   *)
HandlersFinish ==
    \A t \in Tasks : task[t].pc # "idle" ~> task[t].pc = "idle"
=============================================================================
