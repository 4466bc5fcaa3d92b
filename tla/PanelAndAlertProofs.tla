------------------------ MODULE PanelAndAlertProofs -------------------------
(***************************************************************************)
(* Proofs about the registry of panel clients, about the calls of one      *)
(* client and about the usage monitor, for any number of panels, resellers,*)
(* services, handlers at once and attempts.                                *)
(***************************************************************************)
EXTENDS PanelRegistry, XuiClient, UsageAlerts, TLAPS

-----------------------------------------------------------------------------
(* The registry.                                                           *)

(* What the registry should have for a panel, and who is about to see to it. *)
Expected(p) == IF rows[p].active THEN rows[p].version ELSE NoConn
Settling(p) == {v \in Busy(p) : visit[v].pc \in {"reread", "reload", "install"}}

(* Since a handler last wrote p alone, whoever is at work on it has read   *)
(* what the table has, and what is not yet as it should be is on its way.  *)
Agreeing(p) ==
    /\ \A v \in Busy(p) : visit[v].row = rows[p]
    /\ Settling(p) = {} => clients[p] = Expected(p)
    /\ \A v \in Busy(p) : visit[v].pc = "install" => clients[p] \in {NoConn, Expected(p)}
RegistryInv == RegistryTypeOK /\ \A p \in PanelIds \ raced : Agreeing(p)

LEMMA RowFacts ==
    ASSUME NEW row \in PanelRow
    PROVE  row.active => row.version \in Versions /\ row # NoRow
  BY DEF PanelRow, NoRow

LEMMA ReadKeeps ==
    ASSUME RegistryInv, NEW v \in Visitors, NEW p \in PanelIds,
           NEW step \in {"edit", "toggle", "lookup"}, ReadRow(v, p, step)
    PROVE  RegistryInv'
<1> USE RegistryAssumptions DEF RegistryAssumptions
<1>1. /\ visit[v] = Away /\ rows' = rows /\ clients' = clients /\ raced' = raced
      /\ visit' = [visit EXCEPT ![v] = [pc |-> step, panel |-> p, row |-> rows[p]]]
  BY DEF RegistryInv, RegistryTypeOK, ReadRow, Step, Doing, Away
<1>2. RegistryTypeOK'
  BY <1>1 DEF RegistryInv, RegistryTypeOK
<1>3. ASSUME NEW q \in PanelIds \ raced
      PROVE  Agreeing(q)'
  BY <1>1 DEF RegistryInv, RegistryTypeOK, Agreeing, Busy, Settling, Expected, Away
<1> QED
  BY <1>1, <1>2, <1>3 DEF RegistryInv

(* A handler writes the row, alone or not. *)
LEMMA CommitKeeps ==
    ASSUME RegistryInv, NEW v \in Visitors, NEW p \in PanelIds, NEW row \in PanelRow,
           NEW step \in {"reload", "reread"},
           visit[v] = Away \/ visit[v].panel = p,
           Commit(v, p, row), Step(v, step, p, row)
    PROVE  RegistryInv'
<1> USE RegistryAssumptions DEF RegistryAssumptions
<1>1. /\ rows' = [rows EXCEPT ![p] = row]
      /\ raced' = IF Busy(p) \subseteq {v} THEN raced \ {p} ELSE raced \cup {p}
      /\ clients' = clients
      /\ visit' = [visit EXCEPT ![v] = [pc |-> step, panel |-> p, row |-> row]]
  BY DEF Commit, Step
<1>2. RegistryTypeOK'
  BY <1>1 DEF RegistryInv, RegistryTypeOK
<1>3. ASSUME NEW q \in PanelIds \ raced', q # p
      PROVE  Agreeing(q)'
  BY <1>1, <1>3 DEF RegistryInv, RegistryTypeOK, Agreeing, Busy, Settling, Expected, Away
<1>4. ASSUME p \notin raced'
      PROVE  Agreeing(p)'
  BY <1>1, <1>4 DEF RegistryInv, RegistryTypeOK, Agreeing, Busy, Settling, Expected, Away
<1> QED
  BY <1>2, <1>3, <1>4 DEF RegistryInv

(* A handler leaves without a word, or reads the row again. *)
LEMMA LeaveKeeps ==
    ASSUME RegistryInv, NEW v \in Visitors, visit[v].pc \in {"edit", "toggle"},
           Leave(v), UNCHANGED <<rows, clients, raced>>
    PROVE  RegistryInv'
<1>1. visit' = [visit EXCEPT ![v] = Away]
  BY DEF Leave
<1>2. RegistryTypeOK'
  BY <1>1 DEF RegistryInv, RegistryTypeOK
<1>3. ASSUME NEW q \in PanelIds \ raced
      PROVE  Agreeing(q)'
  BY <1>1, RegistryAssumptions
     DEF RegistryAssumptions, RegistryInv, RegistryTypeOK, Agreeing, Busy, Settling, Expected, Away
<1> QED
  BY <1>2, <1>3 DEF RegistryInv

LEMMA RereadKeeps ==
    ASSUME RegistryInv, NEW v \in Visitors, Reread(v)
    PROVE  RegistryInv'
<1> DEFINE p == visit[v].panel
<1>1. /\ visit[v].pc = "reread" /\ p \in PanelIds
      /\ visit' = [visit EXCEPT ![v] = [pc |-> "reload", panel |-> p, row |-> rows[p]]]
      /\ rows' = rows /\ clients' = clients /\ raced' = raced
  BY DEF RegistryInv, RegistryTypeOK, Reread, Doing, Step, Away
<1>2. RegistryTypeOK'
  BY <1>1 DEF RegistryInv, RegistryTypeOK
<1>3. ASSUME NEW q \in PanelIds \ raced
      PROVE  Agreeing(q)'
  BY <1>1 DEF RegistryInv, RegistryTypeOK, Agreeing, Busy, Settling, Expected, Away
<1> QED
  BY <1>1, <1>2, <1>3 DEF RegistryInv

(* The client is taken out, or put in. *)
LEMMA ReloadKeeps ==
    ASSUME RegistryInv, NEW v \in Visitors, Reload(v)
    PROVE  RegistryInv'
<1> USE RegistryAssumptions DEF RegistryAssumptions
<1> DEFINE p == visit[v].panel
           row == visit[v].row
<1>1. /\ visit[v].pc = "reload" /\ p \in PanelIds /\ row \in PanelRow
      /\ rows' = rows /\ raced' = raced
  BY DEF RegistryInv, RegistryTypeOK, Reload, Doing, Away
<1>2. CASE /\ clients[p] # NoConn
           /\ clients' = [clients EXCEPT ![p] = NoConn]
           /\ Step(v, "install", p, row)
  <2>1. visit' = [visit EXCEPT ![v] = [pc |-> "install", panel |-> p, row |-> row]]
    BY <1>2 DEF Step
  <2>2. RegistryTypeOK'
    BY <1>1, <1>2, <2>1 DEF RegistryInv, RegistryTypeOK
  <2>3. ASSUME NEW q \in PanelIds \ raced
        PROVE  Agreeing(q)'
    BY <1>1, <1>2, <2>1
       DEF RegistryInv, RegistryTypeOK, Agreeing, Busy, Settling, Expected, Away
  <2> QED
    BY <1>1, <2>2, <2>3 DEF RegistryInv
<1>3. CASE /\ clients[p] = NoConn /\ row.active /\ Leave(v)
           /\ clients' = [clients EXCEPT ![p] = row.version]
  <2>1. visit' = [visit EXCEPT ![v] = Away]
    BY <1>3 DEF Leave
  <2>2. RegistryTypeOK'
    BY <1>1, <1>3, <2>1, RowFacts DEF RegistryInv, RegistryTypeOK
  <2>3. ASSUME NEW q \in PanelIds \ raced
        PROVE  Agreeing(q)'
    BY <1>1, <1>3, <2>1
       DEF RegistryInv, RegistryTypeOK, Agreeing, Busy, Settling, Expected, Away
  <2> QED
    BY <1>1, <2>2, <2>3 DEF RegistryInv
<1>4. CASE clients[p] = NoConn /\ ~row.active /\ Leave(v) /\ UNCHANGED clients
  <2>1. visit' = [visit EXCEPT ![v] = Away]
    BY <1>4 DEF Leave
  <2>2. RegistryTypeOK'
    BY <1>1, <1>4, <2>1 DEF RegistryInv, RegistryTypeOK
  <2>3. ASSUME NEW q \in PanelIds \ raced
        PROVE  Agreeing(q)'
    BY <1>1, <1>4, <2>1
       DEF RegistryInv, RegistryTypeOK, Agreeing, Busy, Settling, Expected, Away
  <2> QED
    BY <1>1, <2>2, <2>3 DEF RegistryInv
<1> QED
  BY <1>2, <1>3, <1>4 DEF Reload

LEMMA InstallKeeps ==
    ASSUME RegistryInv, NEW v \in Visitors, Install(v)
    PROVE  RegistryInv'
<1> USE RegistryAssumptions DEF RegistryAssumptions
<1> DEFINE p == visit[v].panel
           row == visit[v].row
<1>1. /\ visit[v].pc = "install" /\ p \in PanelIds /\ row \in PanelRow
      /\ rows' = rows /\ raced' = raced /\ visit' = [visit EXCEPT ![v] = Away]
      /\ clients' = IF row.active THEN [clients EXCEPT ![p] = row.version] ELSE clients
  BY DEF RegistryInv, RegistryTypeOK, Install, Doing, Leave, Away
<1>2. RegistryTypeOK'
  BY <1>1, RowFacts DEF RegistryInv, RegistryTypeOK
<1>3. ASSUME NEW q \in PanelIds \ raced
      PROVE  Agreeing(q)'
  BY <1>1 DEF RegistryInv, RegistryTypeOK, Agreeing, Busy, Settling, Expected, Away
<1> QED
  BY <1>1, <1>2, <1>3 DEF RegistryInv

(* A handler that only needs the client. *)
LEMMA FindKeeps ==
    ASSUME RegistryInv, NEW v \in Visitors, FindClient(v)
    PROVE  RegistryInv'
<1> USE RegistryAssumptions DEF RegistryAssumptions
<1> DEFINE p == visit[v].panel
           row == visit[v].row
<1>1. /\ visit[v].pc = "lookup" /\ p \in PanelIds /\ row \in PanelRow
      /\ rows' = rows /\ raced' = raced /\ visit' = [visit EXCEPT ![v] = Away]
      /\ clients' = IF row.active /\ clients[p] = NoConn
                    THEN [clients EXCEPT ![p] = row.version] ELSE clients
  BY DEF RegistryInv, RegistryTypeOK, FindClient, Doing, Leave, Away
<1>2. RegistryTypeOK'
  BY <1>1, RowFacts DEF RegistryInv, RegistryTypeOK
<1>3. ASSUME NEW q \in PanelIds \ raced
      PROVE  Agreeing(q)'
  BY <1>1 DEF RegistryInv, RegistryTypeOK, Agreeing, Busy, Settling, Expected, Away
<1> QED
  BY <1>1, <1>2, <1>3 DEF RegistryInv

LEMMA SaveKeeps ==
    ASSUME RegistryInv, NEW v \in Visitors, NEW p \in PanelIds, SaveReseller(v, p)
    PROVE  RegistryInv'
<1> USE RegistryAssumptions DEF RegistryAssumptions
<1>1. /\ visit[v] = Away /\ rows' = rows /\ clients' = clients
      /\ visit' = [visit EXCEPT ![v] = [pc |-> "reload", panel |-> p, row |-> rows[p]]]
      /\ raced' = IF Busy(p) = {} THEN raced \ {p} ELSE raced
  BY DEF RegistryInv, RegistryTypeOK, SaveReseller, Step, Doing, Away
<1>2. RegistryTypeOK'
  BY <1>1 DEF RegistryInv, RegistryTypeOK
<1>3. ASSUME NEW q \in PanelIds \ raced'
      PROVE  Agreeing(q)'
  BY <1>1 DEF RegistryInv, RegistryTypeOK, Agreeing, Busy, Settling, Expected, Away
<1> QED
  BY <1>2, <1>3 DEF RegistryInv

LEMMA RestartKeeps == ASSUME RegistryInv, Restart PROVE RegistryInv'
<1>1. /\ clients' = [p \in PanelIds |-> IF rows[p].active THEN rows[p].version ELSE NoConn]
      /\ visit' = [v \in Visitors |-> Away] /\ raced' = {} /\ rows' = rows
  BY DEF Restart
<1>2. RegistryTypeOK'
  BY <1>1, RowFacts DEF RegistryInv, RegistryTypeOK
<1>3. ASSUME NEW q \in PanelIds
      PROVE  Agreeing(q)'
  BY <1>1, RegistryAssumptions
     DEF RegistryAssumptions, Agreeing, Busy, Settling, Expected, Away
<1> QED
  BY <1>2, <1>3 DEF RegistryInv

LEMMA RegistryInitInv == RegistryInit => RegistryInv
  BY RegistryAssumptions
     DEF RegistryAssumptions, RegistryInit, RegistryInv, RegistryTypeOK, Agreeing, Busy, Settling,
         Expected, Away, NoRow, PanelRow

LEMMA RegistryNextInv == ASSUME RegistryInv, [RegistryNext]_registryVars PROVE RegistryInv'
<1> USE RegistryAssumptions DEF RegistryAssumptions
<1>1. CASE UNCHANGED registryVars
  BY <1>1 DEF registryVars, RegistryInv, RegistryTypeOK, Agreeing, Busy, Settling, Expected
<1>2. CASE Restart
  BY <1>2, RestartKeeps
<1>3. ASSUME NEW v \in Visitors, NEW p \in PanelIds,
             NEW step \in {"edit", "toggle", "lookup"}, ReadRow(v, p, step)
      PROVE  RegistryInv'
  BY <1>3, ReadKeeps
<1>4. ASSUME NEW v \in Visitors, NEW p \in PanelIds, AddPanel(v, p)
      PROVE  RegistryInv'
  <2> DEFINE row == [version |-> 1, active |-> TRUE]
  <2>1. /\ visit[v] = Away /\ Commit(v, p, row) /\ rows'[p] = row
        /\ Step(v, "reload", p, row)
    BY <1>4 DEF RegistryInv, RegistryTypeOK, AddPanel, Doing, Away, Commit
  <2>2. row \in PanelRow
    BY DEF PanelRow, Versions
  <2> QED
    BY <2>1, <2>2, CommitKeeps
<1>5. ASSUME NEW v \in Visitors, NEW p \in PanelIds, DropPanel(v, p)
      PROVE  RegistryInv'
  <2>1. visit[v] = Away
    BY <1>5 DEF RegistryInv, RegistryTypeOK, DropPanel, Doing, Away
  <2> QED
    BY <1>5, <2>1, CommitKeeps DEF DropPanel, PanelRow
<1>6. ASSUME NEW v \in Visitors, NEW p \in PanelIds, SaveReseller(v, p)
      PROVE  RegistryInv'
  BY <1>6, SaveKeeps
<1>7. ASSUME NEW v \in Visitors, EditPanel(v)
      PROVE  RegistryInv'
  <2> DEFINE p == visit[v].panel
             row == [rows[p] EXCEPT !.version = @ + 1]
  <2>1. visit[v].pc = "edit" /\ p \in PanelIds
    BY <1>7 DEF RegistryInv, RegistryTypeOK, EditPanel, Doing, Away
  <2>2. CASE Leave(v) /\ UNCHANGED <<rows, clients, raced>>
    BY <2>1, <2>2, LeaveKeeps
  <2>3. CASE /\ rows[p] # NoRow /\ rows[p].version < MaxVersion
             /\ Commit(v, p, row) /\ Step(v, "reload", p, rows'[p])
    <3>1. row \in PanelRow
      BY <2>1, <2>3 DEF RegistryInv, RegistryTypeOK, PanelRow, Versions
    <3>2. rows'[p] = row
      BY <2>1, <2>3 DEF Commit, RegistryInv, RegistryTypeOK
    <3> QED
      BY <2>1, <2>3, <3>1, <3>2, CommitKeeps
  <2> QED
    BY <1>7, <2>2, <2>3 DEF EditPanel
<1>8. ASSUME NEW v \in Visitors, TogglePanel(v)
      PROVE  RegistryInv'
  <2> DEFINE p == visit[v].panel
             row == [rows[p] EXCEPT !.active = ~visit[v].row.active]
  <2>1. visit[v].pc = "toggle" /\ p \in PanelIds /\ visit[v].row \in PanelRow
    BY <1>8 DEF RegistryInv, RegistryTypeOK, TogglePanel, Doing, Away
  <2>2. CASE Leave(v) /\ UNCHANGED <<rows, clients, raced>>
    BY <2>1, <2>2, LeaveKeeps
  <2>3. CASE /\ rows[p] # NoRow /\ visit[v].row # NoRow
             /\ Commit(v, p, row) /\ Step(v, "reload", p, rows'[p])
    <3>1. row \in PanelRow
      BY <2>1, <2>3 DEF RegistryInv, RegistryTypeOK, PanelRow
    <3>2. rows'[p] = row
      BY <2>1, <2>3 DEF Commit, RegistryInv, RegistryTypeOK
    <3> QED
      BY <2>1, <2>3, <3>1, <3>2, CommitKeeps
  <2> QED
    BY <1>8, <2>2, <2>3 DEF TogglePanel
<1>9. ASSUME NEW v \in Visitors, Reread(v) \/ Reload(v) \/ Install(v) \/ FindClient(v)
      PROVE  RegistryInv'
  BY <1>9, RereadKeeps, ReloadKeeps, InstallKeeps, FindKeeps
<1> QED
  BY <1>1, <1>2, <1>3, <1>4, <1>5, <1>6, <1>7, <1>8, <1>9 DEF RegistryNext

LEMMA RegistrySpecInv == RegistrySpec => []RegistryInv
<1>1. RegistryInit => RegistryInv
  BY RegistryInitInv
<1>2. RegistryInv /\ [RegistryNext]_registryVars => RegistryInv'
  BY RegistryNextInv
<1> QED
  BY <1>1, <1>2, PTL DEF RegistrySpec

(* A client is always made from settings the panel once had.               *)
THEOREM RegistryTypeCorrect == RegistrySpec => []RegistryTypeOK
<1>1. RegistryInv => RegistryTypeOK
  BY DEF RegistryInv
<1> QED
  BY <1>1, RegistrySpecInv, PTL

(* services/panel_registry.py: with nobody at work on a panel, its client  *)
(* is there if and only if the panel is active, and has the settings of    *)
(* the row, however many handlers reloaded it, unless the row was last     *)
(* written while others were at work on the panel.                         *)
THEOREM RegistryFollowsRows == RegistrySpec => []RegistryAgrees
<1>1. RegistryInv => RegistryAgrees
  BY DEF RegistryInv, Agreeing, RegistryAgrees, Settling, Expected
<1> QED
  BY <1>1, RegistrySpecInv, PTL

-----------------------------------------------------------------------------
(* Calls.                                                                  *)

Kinds == Updates \cup {"create", "delete", "add", "subtract"}
Arguments == Volumes \cup Fields \cup BOOLEAN \cup {0}
Jobs == [pc : {"get", "post", "done", "failed"}, op : Kinds, email : Emails,
         arg : Arguments, read : Present \cup {Missing},
         tries : 0..MaxRetries - 1, hits : 0..MaxRetries, absent : BOOLEAN]

(* What is asked for suits the operation.                                  *)
Argument(op, arg) ==
    CASE op \in {"create", "add", "subtract"} -> arg \in Volumes
      [] op = "delete" -> arg = 0
      [] op = "field" -> arg \in Fields
      [] op = "switch" -> arg \in BOOLEAN

(* What a call has behind it at each step. *)
DoneSound(j) ==
    j.hits <= j.tries + 1 /\ (j.hits > 0 \/ (j.op = "add" /\ j.absent))
CallSound(j) ==
    /\ j.pc \in {"get", "post"} => Argument(j.op, j.arg)
    /\ j.pc = "get" => j.op \in Updates /\ j.hits = 0
    /\ j.pc = "post" => j.hits <= j.tries /\ (j.op \in Updates => j.read \in Present)
    /\ j.pc = "done" => DoneSound(j)

(* Unless the service is mixed, a copy that is held differs from it at     *)
(* most in what the call has set itself.                                   *)
Holds(j) == j.pc = "post" /\ j.op \in Updates
CopyTrue(j) ==
    Holds(j) /\ j.email \notin mixed /\ remote[j.email] # Missing =>
        Payload(j) = WithField(j.op, j.arg, remote[j.email])

CallTyped ==
    /\ remote \in [Emails -> Present \cup {Missing}]
    /\ due \in [Emails -> Present \cup {Missing}]
    /\ mixed \subseteq Emails
    /\ call \in [Callers -> Jobs \cup {NoCall}]
CallInv ==
    /\ CallTyped
    /\ \A c \in Callers : call[c] # NoCall => CallSound(call[c]) /\ CopyTrue(call[c])
    /\ NothingOverwritten

LEMMA NoCallFacts == NoCall.pc = "none" /\ NoCall \notin Jobs
  BY DEF NoCall, Jobs

LEMMA FirstTry == 0 \in 0..MaxRetries - 1 /\ 0 \in 0..MaxRetries
  BY CallAssumptions DEF CallAssumptions

LEMMA FreshField == Fresh \in Fields
  BY CallAssumptions DEF CallAssumptions, Fresh

LEMMA MissingAway == Missing \notin Present
  BY DEF Missing, Present

(* Volumes stay volumes. *)
LEMMA FieldSet ==
    ASSUME NEW op \in Updates, NEW arg, Argument(op, arg), NEW s \in Present
    PROVE  /\ WithField(op, arg, s) \in Present
           /\ WithField(op, arg, WithField(op, arg, s)) = WithField(op, arg, s)
<1>1. CASE op = "field"
  BY <1>1 DEF Argument, Present, WithField
<1>2. CASE op = "switch"
  BY <1>2 DEF Argument, Present, WithField
<1> QED
  BY <1>1, <1>2 DEF Updates

LEMMA Changes ==
    ASSUME NEW op \in Kinds, NEW arg, Argument(op, arg), NEW s \in Present \cup {Missing},
           Accepts(op, s)
    PROVE  /\ Change(op, arg, s) \in Present \cup {Missing}
           /\ Change(op, arg, s) = Missing <=> op = "delete"
           /\ op \in Updates => s \in Present /\ Change(op, arg, s) = WithField(op, arg, s)
<1> USE CallAssumptions DEF CallAssumptions
<1>1. CASE op = "create"
  <2>1. [total |-> arg, field |-> Fresh, on |-> TRUE] \in Present
    BY <1>1, FreshField DEF Argument, Present
  <2> QED
    BY <1>1, <2>1, MissingAway DEF Change, Updates
<1>2. CASE op = "delete"
  BY <1>2 DEF Change, Updates
<1>3. CASE op = "add"
  <2>1. s \in Present /\ s.total \in Nat /\ arg \in Nat
    BY <1>3 DEF Accepts, Argument, Present
  <2>2. [s EXCEPT !.total = @ + arg] \in Present
    BY <2>1 DEF Present
  <2> QED
    BY <1>3, <2>2, MissingAway DEF Change, Updates
<1>4. CASE op = "subtract"
  <2>1. s \in Present /\ s.total \in Nat /\ arg \in Nat
    BY <1>4 DEF Accepts, Argument, Present
  <2>2. Positive(s.total - arg) \in Nat
    BY <2>1 DEF Positive
  <2>3. [s EXCEPT !.total = Positive(@ - arg)] \in Present
    BY <2>1, <2>2 DEF Present
  <2> QED
    BY <1>4, <2>3, MissingAway DEF Change, Updates
<1>5. CASE op \in Updates
  <2>1. s \in Present /\ Change(op, arg, s) = WithField(op, arg, s)
    BY <1>5 DEF Accepts, Change, Updates
  <2> QED
    BY <1>5, <2>1, FieldSet, MissingAway DEF Updates
<1> QED
  BY <1>1, <1>2, <1>3, <1>4, <1>5 DEF Kinds

-----------------------------------------------------------------------------
(* A step of one call that leaves the panel alone.                         *)
LEMMA CallKept ==
    ASSUME CallInv, NEW c \in Callers, NEW j \in Jobs, CallSound(j), CopyTrue(j),
           call' = [call EXCEPT ![c] = j], UNCHANGED <<remote, due, mixed>>
    PROVE  CallInv'
<1>1. CallTyped'
  BY DEF CallInv, CallTyped
<1>2. \A d \in Callers : call'[d] # NoCall => CallSound(call'[d]) /\ CopyTrue(call'[d])
  BY DEF CallInv, CallTyped
<1>3. \A d \in Callers : CopyTrue(call'[d]) => CopyTrue(call[d])'
  BY DEF CopyTrue, Holds
<1> QED
  BY <1>1, <1>2, <1>3 DEF CallInv, NothingOverwritten, CallSound, Argument

(* What is left of a call after an attempt that failed.                    *)
Awaiting(j) ==
    /\ j \in Jobs /\ j.pc \in {"get", "post"} /\ Argument(j.op, j.arg)
    /\ j.pc = "get" => j.op \in Updates /\ j.hits = 0
    /\ j.pc = "post" => j.hits <= j.tries + 1 /\ (j.op \in Updates => j.read \in Present)
SameCopy(j, k) ==
    k.op = j.op /\ k.email = j.email /\ k.arg = j.arg /\ k.read = j.read

LEMMA Returned ==
    ASSUME NEW c \in Callers, NEW j \in Jobs, NEW result \in {"done", "failed"},
           Return(c, j, result), result = "done" => DoneSound(j)
    PROVE  \E k \in Jobs : /\ call' = [call EXCEPT ![c] = k] /\ CallSound(k) /\ k.pc = result
<1> DEFINE k == [NoCall EXCEPT !.pc = result, !.op = j.op, !.email = j.email,
                               !.tries = j.tries, !.hits = j.hits, !.absent = j.absent]
<1>1. /\ k \in Jobs /\ k.pc = result /\ k.hits = j.hits /\ k.tries = j.tries
      /\ k.op = j.op /\ k.absent = j.absent
  BY DEF NoCall, Jobs, Arguments
<1>2. call' = [call EXCEPT ![c] = k]
  BY DEF Return
<1> HIDE DEF k
<1>3. CallSound(k)
  BY <1>1 DEF CallSound, DoneSound
<1> QED
  BY <1>1, <1>2, <1>3

LEMMA Retried ==
    ASSUME NEW c \in Callers, NEW j, Awaiting(j), Retry(c, j)
    PROVE  \E k \in Jobs : /\ call' = [call EXCEPT ![c] = k] /\ CallSound(k)
                           /\ (k.pc = j.pc /\ SameCopy(j, k)) \/ k.pc = "failed"
<1> USE CallAssumptions DEF CallAssumptions
<1>1. CASE j.tries + 1 < MaxRetries
  <2> DEFINE k == [j EXCEPT !.tries = @ + 1]
  <2>1. k \in Jobs /\ k.tries = j.tries + 1 /\ k.hits = j.hits /\ k.pc = j.pc /\ SameCopy(j, k)
    BY <1>1 DEF Awaiting, Jobs, SameCopy
  <2>2. call' = [call EXCEPT ![c] = k]
    BY <1>1 DEF Retry
  <2> HIDE DEF k
  <2>3. CallSound(k)
    BY <2>1 DEF CallSound, Awaiting, SameCopy, Jobs
  <2> QED
    BY <2>1, <2>2, <2>3
<1>2. CASE ~(j.tries + 1 < MaxRetries)
  BY <1>2, Returned DEF Retry, Awaiting
<1> QED
  BY <1>1, <1>2

LEMMA KnownCall ==
    ASSUME CallInv, NEW c \in Callers, call[c].pc \in {"get", "post"}
    PROVE  /\ call[c] \in Jobs /\ CallSound(call[c]) /\ CopyTrue(call[c])
           /\ Awaiting(call[c])
<1>1. call[c] \in Jobs /\ CallSound(call[c]) /\ CopyTrue(call[c])
  BY NoCallFacts DEF CallInv, CallTyped
<1>2. Awaiting(call[c])
  BY <1>1 DEF CallSound, Awaiting, Jobs
<1> QED
  BY <1>1, <1>2

LEMMA BeginKeeps ==
    ASSUME CallInv, NEW c \in Callers, NEW op \in Kinds, NEW e \in Emails,
           NEW arg, Argument(op, arg), Begin(c, op, e, arg)
    PROVE  CallInv'
<1> DEFINE j == [NoCall EXCEPT !.pc = IF op \in Updates THEN "get" ELSE "post",
                               !.op = op, !.email = e, !.arg = arg]
<1>1. arg \in Arguments
  BY DEF Argument, Kinds, Updates, Arguments
<1>2. /\ j \in Jobs /\ j.op = op /\ j.arg = arg /\ j.hits = 0 /\ j.tries = 0
      /\ j.pc = IF op \in Updates THEN "get" ELSE "post"
  BY <1>1, FirstTry DEF NoCall, Jobs
<1>3. call' = [call EXCEPT ![c] = j] /\ UNCHANGED <<remote, due, mixed>>
  BY DEF Begin
<1> HIDE DEF j
<1>4. CallSound(j) /\ CopyTrue(j)
  BY <1>2 DEF CallSound, CopyTrue, Holds
<1> QED
  BY <1>2, <1>3, <1>4, CallKept

LEMMA RetryKeeps ==
    ASSUME CallInv, NEW c \in Callers, call[c].pc \in {"get", "post"}, Retry(c, call[c]),
           UNCHANGED <<remote, due, mixed>>
    PROVE  CallInv'
<1> DEFINE j == call[c]
<1>1. Awaiting(j) /\ CopyTrue(j)
  BY KnownCall
<1>2. PICK k \in Jobs : /\ call' = [call EXCEPT ![c] = k] /\ CallSound(k)
                        /\ (k.pc = j.pc /\ SameCopy(j, k)) \/ k.pc = "failed"
  BY <1>1, Retried
<1>3. CopyTrue(k)
  BY <1>1, <1>2 DEF CopyTrue, Holds, SameCopy, Payload
<1> QED
  BY <1>2, <1>3, CallKept

LEMMA GetKeeps == ASSUME CallInv, NEW c \in Callers, Get(c) PROVE CallInv'
<1> DEFINE j == call[c]
           k == [j EXCEPT !.pc = "post", !.tries = 0, !.read = remote[j.email]]
<1>1. j.pc = "get" /\ UNCHANGED <<remote, due, mixed>>
  BY DEF Get
<1>2. j \in Jobs /\ CallSound(j)
  BY <1>1, KnownCall
<1>3. CASE remote[j.email] # Missing /\ call' = [call EXCEPT ![c] = k]
  <2>1. remote[j.email] \in Present
    BY <1>2, <1>3 DEF CallInv, CallTyped, Jobs
  <2>2. /\ k \in Jobs /\ k.pc = "post" /\ k.op = j.op /\ k.arg = j.arg /\ k.hits = j.hits
        /\ k.tries = 0 /\ k.read = remote[j.email] /\ k.email = j.email
    BY <1>2, <2>1, FirstTry DEF Jobs
  <2> HIDE DEF k
  <2>3. CallSound(k) /\ CopyTrue(k)
    BY <1>1, <1>2, <2>1, <2>2 DEF CallSound, CopyTrue, Payload
  <2> QED
    BY <1>1, <1>3, <2>2, <2>3, CallKept
<1>4. CASE Retry(c, j)
  BY <1>1, <1>4, RetryKeeps
<1> QED
  BY <1>3, <1>4 DEF Get

LEMMA SkipKeeps == ASSUME CallInv, NEW c \in Callers, PostSkips(c) PROVE CallInv'
<1> DEFINE j == [call[c] EXCEPT !.absent = TRUE]
           result == IF call[c].op = "add" THEN "done" ELSE "failed"
<1>1. /\ j \in Jobs /\ j.absent /\ j.hits <= j.tries + 1
      /\ j.op = call[c].op /\ Return(c, j, result)
  BY KnownCall DEF PostSkips, Jobs, Awaiting
<1>4. result \in {"done", "failed"} /\ (result = "done" => DoneSound(j))
  BY <1>1 DEF DoneSound
<1> HIDE DEF j, result
<1>2. PICK k \in Jobs : call' = [call EXCEPT ![c] = k] /\ CallSound(k) /\ k.pc = result
  BY <1>1, <1>4, Returned
<1>3. CopyTrue(k)
  BY <1>2, <1>4 DEF CopyTrue, Holds
<1> QED
  BY <1>2, <1>3, CallKept DEF PostSkips

(* The panel acts. *)
LEMMA ActsKeeps == ASSUME CallInv, NEW c \in Callers, PostActs(c) PROVE CallInv'
<1> DEFINE j == call[c]
           e == j.email
           a == Acted(j)
           hit == [j EXCEPT !.hits = @ + 1]
<1>1. /\ j.pc = "post" /\ Accepts(j.op, remote[e])
      /\ remote' = [remote EXCEPT ![e] = a]
      /\ mixed' = IF remote'[e] = Missing THEN mixed \ {e}
                  ELSE IF CopyHeld(c, e) THEN mixed \cup {e} ELSE mixed
      /\ due' = [due EXCEPT ![e] = IF e \in mixed' THEN remote'[e] ELSE Change(j.op, j.arg, @)]
      /\ Return(c, hit, "done") \/ Retry(c, hit)
  BY DEF PostActs
<1>2. /\ j \in Jobs /\ CallSound(j) /\ CopyTrue(j) /\ Argument(j.op, j.arg)
      /\ e \in Emails /\ j.op \in Kinds /\ remote[e] \in Present \cup {Missing}
      /\ j.op \in Updates => j.read \in Present
  BY <1>1, KnownCall DEF CallSound, CallInv, CallTyped, Jobs
<1>3. /\ a \in Present \cup {Missing} /\ (a = Missing <=> j.op = "delete")
      /\ j.op \in Updates => a \in Present /\ a = Payload(j) /\ WithField(j.op, j.arg, a) = a
      /\ j.op \notin Updates => a = Change(j.op, j.arg, remote[e])
  <2>1. CASE j.op \in Updates
    <3>1. a = WithField(j.op, j.arg, j.read)
      BY <2>1 DEF Acted, Payload
    <3>2. a \in Present /\ WithField(j.op, j.arg, a) = a
      BY <1>2, <2>1, <3>1, FieldSet
    <3> QED
      BY <2>1, <3>1, <3>2, MissingAway DEF Payload, Updates
  <2>2. CASE j.op \notin Updates
    BY <1>1, <1>2, <2>2, Changes DEF Acted
  <2> QED
    BY <2>1, <2>2
<1>4. remote'[e] = a
  BY <1>1, <1>2 DEF CallInv, CallTyped
<1> HIDE DEF a
<1>5. e \notin mixed' => a = Change(j.op, j.arg, due[e])
  <2> SUFFICES ASSUME e \notin mixed' PROVE a = Change(j.op, j.arg, due[e])
    OBVIOUS
  <2>1. CASE a = Missing
    BY <1>3, <2>1 DEF Change
  <2>2. CASE a # Missing
    <3>1. e \notin mixed /\ remote[e] = due[e]
      BY <1>1, <1>2, <1>4, <2>2 DEF CallInv, NothingOverwritten
    <3>2. CASE j.op \in Updates
      <4>1. remote[e] # Missing /\ Change(j.op, j.arg, remote[e]) = WithField(j.op, j.arg, remote[e])
        BY <1>1, <1>2, <3>2, Changes, MissingAway
      <4> QED
        BY <1>1, <1>2, <1>3, <3>1, <3>2, <4>1 DEF CopyTrue, Holds
    <3>3. CASE j.op \notin Updates
      BY <1>3, <3>1, <3>3
    <3> QED
      BY <3>2, <3>3
  <2> QED
    BY <2>1, <2>2
<1>6. due'[e] = a
  BY <1>1, <1>2, <1>4, <1>5 DEF CallInv, CallTyped
<1>7. Awaiting(hit) /\ SameCopy(j, hit) /\ hit.hits = j.hits + 1 /\ hit.tries = j.tries
      /\ hit.pc = "post"
  BY <1>1, <1>2, CallAssumptions DEF CallAssumptions, CallSound, Awaiting, Jobs, SameCopy
<1> HIDE DEF hit
<1>8. PICK k \in Jobs : /\ call' = [call EXCEPT ![c] = k] /\ CallSound(k)
                        /\ SameCopy(j, k) \/ k.pc \in {"done", "failed"}
  <2>1. CASE Return(c, hit, "done")
    <3>1. hit \in Jobs /\ DoneSound(hit)
      BY <1>1, <1>2, <1>7 DEF Awaiting, CallSound, DoneSound, Jobs
    <3> QED
      BY <2>1, <3>1, Returned
  <2>2. CASE Retry(c, hit)
    <3>1. PICK k \in Jobs : /\ call' = [call EXCEPT ![c] = k] /\ CallSound(k)
                            /\ (k.pc = hit.pc /\ SameCopy(hit, k)) \/ k.pc = "failed"
      BY <1>7, <2>2, Retried
    <3> QED
      BY <1>7, <3>1 DEF SameCopy
  <2> QED
    BY <1>1, <2>1, <2>2
<1>9. CallTyped'
  BY <1>1, <1>2, <1>3, <1>4, <1>6, <1>8 DEF CallInv, CallTyped
<1>10. CopyTrue(k)'
  <2> SUFFICES ASSUME Holds(k), k.email \notin mixed', remote'[k.email] # Missing
               PROVE  Payload(k) = WithField(k.op, k.arg, remote'[k.email])
    BY DEF CopyTrue, Holds, Payload
  <2>1. SameCopy(j, k) /\ k.op \in Updates
    BY <1>8 DEF Holds
  <2> QED
    BY <1>3, <1>4, <2>1 DEF SameCopy, Payload
<1>11. ASSUME NEW d \in Callers \ {c}, CopyTrue(call[d])
       PROVE  CopyTrue(call[d])'
  <2>1. call'[d] = call[d]
    BY <1>8 DEF CallInv, CallTyped
  <2>2. CASE Holds(call[d]) /\ call[d].email = e
    <3>1. CopyHeld(c, e)
      BY <2>2 DEF CopyHeld, Holds
    <3>2. e \in mixed' \/ remote'[e] = Missing
      BY <1>1, <1>2, <3>1 DEF CallInv, CallTyped
    <3> QED
      BY <2>1, <2>2, <3>2 DEF CopyTrue
  <2>3. CASE call[d].email # e
    <3>1. /\ remote'[call[d].email] = remote[call[d].email]
          /\ call[d].email \in mixed' <=> call[d].email \in mixed
      BY <1>1, <2>3 DEF CallInv, CallTyped
    <3> QED
      BY <1>11, <2>1, <3>1 DEF CopyTrue, Holds, Payload
  <2>4. CASE ~Holds(call[d])
    BY <2>1, <2>4 DEF CopyTrue, Holds
  <2> QED
    BY <2>2, <2>3, <2>4
<1>12. ASSUME NEW d \in Callers, call'[d] # NoCall
       PROVE  CallSound(call'[d]) /\ CopyTrue(call[d])'
  <2>1. CASE d = c
    <3>1. call'[c] = k
      BY <1>8 DEF CallInv, CallTyped
    <3> QED
      BY <1>8, <1>10, <2>1, <3>1 DEF CopyTrue, Holds, Payload
  <2>2. CASE d # c
    BY <1>8, <1>11, <1>12, <2>2 DEF CallInv, CallTyped
  <2> QED
    BY <2>1, <2>2
<1>13. NothingOverwritten'
  <2>1. ASSUME NEW f \in Emails \ mixed', f # e PROVE remote'[f] = due'[f]
    BY <1>1, <2>1 DEF CallInv, CallTyped, NothingOverwritten
  <2> QED
    BY <1>4, <1>6, <2>1 DEF NothingOverwritten
<1> QED
  BY <1>9, <1>12, <1>13 DEF CallInv, CallSound, Argument

LEMMA CallInitInv == CallInit => CallInv
  BY DEF CallInit, CallInv, CallTyped, NothingOverwritten

LEMMA CallNextInv == ASSUME CallInv, [CallNext]_callVars PROVE CallInv'
<1>1. CASE UNCHANGED callVars
  BY <1>1 DEF callVars, CallInv, CallTyped, CallSound, CopyTrue, Holds, Payload, NothingOverwritten
<1>2. ASSUME NEW c \in Callers, NEW e \in Emails,
             \/ \E op \in {"create", "add", "subtract"}, v \in Volumes : Begin(c, op, e, v)
             \/ Begin(c, "delete", e, 0)
             \/ \E f \in Fields : Begin(c, "field", e, f)
             \/ \E b \in BOOLEAN : Begin(c, "switch", e, b)
      PROVE  CallInv'
  BY <1>2, BeginKeeps DEF Kinds, Updates, Argument
<1>3. ASSUME NEW c \in Callers, Get(c) \/ PostRefused(c) \/ PostActs(c) \/ PostSkips(c)
      PROVE  CallInv'
  BY <1>3, GetKeeps, RetryKeeps, ActsKeeps, SkipKeeps DEF PostRefused
<1> QED
  BY <1>1, <1>2, <1>3 DEF CallNext

LEMMA CallSpecInv == CallSpec => []CallInv
<1>1. CallInit => CallInv
  BY CallInitInv
<1>2. CallInv /\ [CallNext]_callVars => CallInv'
  BY CallNextInv
<1> QED
  BY <1>1, <1>2, PTL DEF CallSpec

(* No call sends more requests than max_retries, and volumes on the panel  *)
(* stay volumes.                                                           *)
THEOREM CallTypeCorrect == CallSpec => []CallTypeOK
<1>1. CallInv => CallTypeOK
  BY DEF CallInv, CallTyped, CallTypeOK, CallSound, Jobs, Kinds
<1> QED
  BY <1>1, CallSpecInv, PTL

(* xui/client.py, _get_client_dict_for_update: limits, comments, expiry    *)
(* and switches do not undo volumes or each other, whatever is repeated,   *)
(* unless the service changes between the read and the write.              *)
THEOREM ChangesKept == CallSpec => []NothingOverwritten
<1>1. CallInv => NothingOverwritten
  BY DEF CallInv
<1> QED
  BY <1>1, CallSpecInv, PTL

(* xui/client.py, _request: what is reported as done was done, as often as *)
(* attempts before failed with their answer lost, and once more, or is an  *)
(* addition to a service the panel does not have.                          *)
THEOREM SuccessTrue == CallSpec => []SuccessMeansDone
<1>1. CallInv => SuccessMeansDone
  BY NoCallFacts DEF CallInv, CallTyped, CallSound, DoneSound, SuccessMeansDone
<1> QED
  BY <1>1, CallSpecInv, PTL

-----------------------------------------------------------------------------
(* The monitor.                                                            *)

MonitorRecord ==
    [pc : {"sleep", "reseller", "traffic", "thresholds", "send", "mark"},
     owners : SUBSET AlertResellers,
     caps : [AlertResellers -> Percents \cup {Gone}],
     services : SUBSET Services, email : Services \cup {"none"},
     seen : Percents \cup {Gone}, pending : Seq(Alerts), broken : BOOLEAN]

AlertTyped ==
    /\ percent \in [Subjects -> Percents \cup {Gone}]
    /\ enabled \in [AlertResellers -> BOOLEAN]
    /\ sent \subseteq Alerts /\ told \subseteq Alerts /\ unmarked \subseteq Alerts
    /\ leaving \subseteq Subjects /\ crossed \subseteq Subjects
    /\ monitor \in MonitorRecord
    /\ faults \in 0..MaxFaults

(* What a task has in hand fits the step it is at. *)
AtItsStep(m) ==
    /\ m.pc = "thresholds" => m.email \in m.services /\ m.seen \in Percents
    /\ m.pc \in {"send", "mark"} => m.pending # <<>>
    /\ \A n \in m.services : OwnerOf[n] \notin m.owners

(* The list has no alert about a subject that is still to be looked at,    *)
(* none twice and none that was sent.                                      *)
FromNow(q, s) == \A i \in DOMAIN q : q[i].subject # s
Distinct(q) == \A i, j \in DOMAIN q : q[i] = q[j] => i = j
ListSound(m) ==
    /\ \A r \in m.owners : FromNow(m.pending, Cap(r))
    /\ \A n \in Services :
          OwnerOf[n] \in m.owners \/ n \in m.services => FromNow(m.pending, Service(n))
    /\ Distinct(m.pending)
    /\ \A i \in DOMAIN m.pending :
          /\ m.pending[i] \notin sent
          /\ m.pending[i] \in Settled => i = 1 /\ m.pc = "mark"

(* The table and what was delivered and can be marked differ by the alert  *)
(* being marked, and by what is deleted with its alert on its way.         *)
TableSound ==
    /\ \A a \in Settled : a \in sent \/ BeingMarked(a)
    /\ \A a \in sent : a \in Settled \/ a.subject \in crossed
    /\ monitor.pc = "mark" =>
          Head(monitor.pending) \in told \/ Head(monitor.pending).subject \in crossed

(* What is deleted has no alert sent or listed, or its deletion has        *)
(* crossed the alert.                                                      *)
DeletionsSound ==
    /\ \A s \in leaving \ crossed :
          FromNow(monitor.pending, s) /\ \A a \in sent : a.subject # s
    /\ \A s \in Subjects \ crossed : percent[s] = Gone =>
          /\ FromNow(monitor.pending, s)
          /\ monitor.pc = "thresholds" => s # Service(monitor.email)
          /\ \A r \in monitor.owners : s = Cap(r) => monitor.caps[r] = Gone

AlertInv == AlertTyped /\ AtItsStep(monitor) /\ ListSound(monitor) /\ TableSound /\ DeletionsSound

LEMMA SubjectFacts ==
    /\ \A r \in AlertResellers : Cap(r) \in Subjects
    /\ \A n \in Services : Service(n) \in Subjects /\ OwnerOf[n] \in AlertResellers
    /\ \A r, o \in AlertResellers : Cap(r) = Cap(o) => r = o
    /\ \A n, k \in Services : Service(n) = Service(k) => n = k
    /\ \A r \in AlertResellers, n \in Services : Cap(r) # Service(n)
    /\ \A n \in Services : Service(n).owner = OwnerOf[n]
    /\ \A r \in AlertResellers : Cap(r).owner = r /\ Cap(r).name = "cap"
    /\ \A s \in Subjects : (\E r \in AlertResellers : s = Cap(r)) \/ \E n \in Services : s = Service(n)
    /\ \A a \in Alerts : a.subject \in Subjects
    /\ \A p \in Percents : p \in Int /\ p # Gone
  BY AlertAssumptions DEF AlertAssumptions, Subjects, Cap, Service, Alerts, Gone

LEMMA NewAlertFacts ==
    ASSUME NEW s \in Subjects, NEW d \in Thresholds, NEW p \in Percents \cup {Gone}
    PROVE  /\ NewAlert(s, d, p, sent) \in Seq(Alerts)
           /\ Len(NewAlert(s, d, p, sent)) \in {0, 1}
           /\ \A i \in DOMAIN NewAlert(s, d, p, sent) :
                 LET a == NewAlert(s, d, p, sent)[i] IN
                 a.subject = s /\ a.threshold = d /\ a \notin sent
           /\ p = Gone => NewAlert(s, d, p, sent) = <<>>
<1> DEFINE a == [subject |-> s, threshold |-> d]
<1>1. a \in Alerts
  BY DEF Alerts
<1>2. CASE NewAlert(s, d, p, sent) = <<a>> /\ p >= ResetBelow /\ a \notin sent
  BY <1>1, <1>2 DEF ResetBelow, Gone
<1>3. CASE NewAlert(s, d, p, sent) = <<>>
  BY <1>3
<1> QED
  BY <1>2, <1>3 DEF NewAlert

(* What pending_thresholds returns is new, about its subject and distinct. *)
LEMMA PendingFacts ==
    ASSUME NEW s \in Subjects, NEW p \in Percents \cup {Gone}
    PROVE  /\ Pending(s, p) \in Seq(Alerts)
           /\ \A i \in DOMAIN Pending(s, p) :
                 Pending(s, p)[i].subject = s /\ Pending(s, p)[i] \notin sent
           /\ Distinct(Pending(s, p))
           /\ p = Gone => Pending(s, p) = <<>>
<1> DEFINE low == NewAlert(s, 80, p, sent)
           high == NewAlert(s, 90, p, sent)
<1>1. /\ low \in Seq(Alerts) /\ Len(low) \in {0, 1}
      /\ \A i \in DOMAIN low : low[i].subject = s /\ low[i].threshold = 80 /\ low[i] \notin sent
      /\ p = Gone => low = <<>>
  BY NewAlertFacts DEF Thresholds
<1>2. /\ high \in Seq(Alerts) /\ Len(high) \in {0, 1}
      /\ \A i \in DOMAIN high : high[i].subject = s /\ high[i].threshold = 90 /\ high[i] \notin sent
      /\ p = Gone => high = <<>>
  BY NewAlertFacts DEF Thresholds
<1>3. Pending(s, p) = low \o high
  BY DEF Pending
<1> HIDE DEF low, high
<1>4. /\ low \o high \in Seq(Alerts)
      /\ Len(low \o high) = Len(low) + Len(high)
      /\ \A i \in DOMAIN (low \o high) :
            (low \o high)[i] = IF i <= Len(low) THEN low[i] ELSE high[i - Len(low)]
  BY <1>1, <1>2
<1>5. \A i \in DOMAIN (low \o high) :
         IF i <= Len(low) THEN i \in DOMAIN low ELSE i - Len(low) \in DOMAIN high
  BY <1>1, <1>2, <1>4
<1>6. \A i \in DOMAIN (low \o high) :
         (low \o high)[i].subject = s /\ (low \o high)[i] \notin sent
  BY <1>1, <1>2, <1>4, <1>5
<1>7. Distinct(low \o high)
  BY <1>1, <1>2, <1>4, <1>5 DEF Distinct
<1>8. p = Gone => low \o high = <<>>
  BY <1>1, <1>2
<1> QED
  BY <1>3, <1>4, <1>6, <1>7, <1>8

(* A list put behind one that says nothing about its subject. *)
LEMMA JoinFacts ==
    ASSUME NEW q \in Seq(Alerts), NEW new \in Seq(Alerts), NEW s,
           FromNow(q, s), Distinct(q), Distinct(new),
           \A i \in DOMAIN new : new[i].subject = s
    PROVE  /\ q \o new \in Seq(Alerts)
           /\ Distinct(q \o new)
           /\ \A i \in DOMAIN (q \o new) :
                 \/ i \in DOMAIN q /\ (q \o new)[i] = q[i]
                 \/ \E j \in DOMAIN new : (q \o new)[i] = new[j]
           /\ \A u : FromNow(q, u) /\ (u # s \/ new = <<>>) => FromNow(q \o new, u)
<1>1. /\ q \o new \in Seq(Alerts)
      /\ Len(q \o new) = Len(q) + Len(new)
      /\ \A i \in DOMAIN (q \o new) :
            (q \o new)[i] = IF i <= Len(q) THEN q[i] ELSE new[i - Len(q)]
  OBVIOUS
<1>2. \A i \in DOMAIN (q \o new) :
         IF i <= Len(q) THEN i \in DOMAIN q ELSE i - Len(q) \in DOMAIN new
  BY <1>1
<1>3. Distinct(q \o new)
  BY <1>1, <1>2 DEF Distinct, FromNow
<1>4. \A i \in DOMAIN (q \o new) :
         \/ i \in DOMAIN q /\ (q \o new)[i] = q[i]
         \/ \E j \in DOMAIN new : (q \o new)[i] = new[j]
  BY <1>1, <1>2
<1>5. new = <<>> => DOMAIN new = {}
  OBVIOUS
<1>6. \A u : FromNow(q, u) /\ (u # s \/ new = <<>>) => FromNow(q \o new, u)
  BY <1>4, <1>5 DEF FromNow
<1> QED
  BY <1>1, <1>3, <1>4, <1>6

LEMMA TailFacts ==
    ASSUME NEW q \in Seq(Alerts), q # <<>>
    PROVE  /\ 1 \in DOMAIN q /\ Head(q) = q[1] /\ Head(q) \in Alerts
           /\ Tail(q) \in Seq(Alerts)
           /\ Len(q) # 1 => Tail(q) # <<>>
           /\ \A i \in DOMAIN Tail(q) : i + 1 \in DOMAIN q /\ Tail(q)[i] = q[i + 1] /\ i + 1 # 1
<1>1. Len(q) \in Nat /\ Len(q) > 0 /\ DOMAIN q = 1..Len(q)
  OBVIOUS
<1> QED
  BY <1>1

LEMMA AsleepFacts ==
    /\ Asleep \in MonitorRecord /\ AtItsStep(Asleep) /\ Asleep.pc = "sleep"
    /\ Asleep.pending = <<>> /\ Asleep.owners = {} /\ Asleep.services = {}
    /\ \A s : FromNow(Asleep.pending, s)
    /\ Distinct(Asleep.pending) /\ DOMAIN Asleep.pending = {}
<1>1. Asleep \in MonitorRecord
  BY DEF Asleep, MonitorRecord
<1> QED
  BY <1>1 DEF Asleep, AtItsStep, FromNow, Distinct

LEMMA AsleepKeeps ==
    ASSUME AlertInv, monitor' = Asleep, UNCHANGED <<percent, sent, crossed, enabled>>,
           leaving' \in {leaving, {}}, faults' \in 0..MaxFaults,
           told' = told, unmarked' \subseteq Alerts,
           Settled' = IF monitor.pc = "mark" THEN Settled \ {Head(monitor.pending)} ELSE Settled
    PROVE  AlertInv'
<1>1. AlertTyped'
  BY AsleepFacts DEF AlertInv, AlertTyped
<1>2. AtItsStep(monitor)' /\ ListSound(monitor)'
  BY AsleepFacts DEF AtItsStep, ListSound
<1>3. monitor.pc = "mark" => Head(monitor.pending) \notin sent
  BY TailFacts DEF AlertInv, AlertTyped, MonitorRecord, AtItsStep, ListSound
<1>4. TableSound'
  BY <1>3, AsleepFacts DEF AlertInv, TableSound, BeingMarked
<1>5. DeletionsSound'
  BY AsleepFacts DEF AlertInv, DeletionsSound
<1> QED
  BY <1>1, <1>2, <1>4, <1>5 DEF AlertInv

LEMMA JudgeKeeps ==
    ASSUME AlertInv, NEW s \in Subjects, NEW p \in Percents \cup {Gone},
           NEW m \in MonitorRecord, Judge(s, p, m),
           UNCHANGED <<Env, faults>>,
           monitor.pc \in {"reseller", "thresholds"}, m.pc = "traffic",
           AtItsStep(m), ListSound(m),
           m.pending = monitor.pending, FromNow(m.pending, s),
           \A r \in m.owners : Cap(r) # s /\ r \in monitor.owners /\ m.caps[r] = monitor.caps[r],
           \A n \in Services : OwnerOf[n] \in m.owners \/ n \in m.services => Service(n) # s,
           percent[s] = Gone /\ s \notin crossed => p = Gone
    PROVE  AlertInv'
<1> DEFINE new == Pending(s, p)
<1>1. /\ new \in Seq(Alerts) /\ Distinct(new)
      /\ \A i \in DOMAIN new : new[i].subject = s /\ new[i] \notin sent
      /\ p = Gone => new = <<>>
  BY PendingFacts
<1> HIDE DEF new
<1>2. /\ m.pending \in Seq(Alerts) /\ Distinct(m.pending)
      /\ \A i \in DOMAIN m.pending : m.pending[i] \notin sent \cup Settled
  BY DEF AlertInv, ListSound, MonitorRecord
<1>3. /\ m.pending \o new \in Seq(Alerts)
      /\ Distinct(m.pending \o new)
      /\ \A i \in DOMAIN (m.pending \o new) :
            \/ i \in DOMAIN m.pending /\ (m.pending \o new)[i] = m.pending[i]
            \/ \E j \in DOMAIN new : (m.pending \o new)[i] = new[j]
      /\ \A u : FromNow(m.pending, u) /\ (u # s \/ new = <<>>) => FromNow(m.pending \o new, u)
  BY <1>1, <1>2, JoinFacts
<1>4. Settled \subseteq sent
  BY DEF AlertInv, TableSound, BeingMarked
<1>5. \A i \in DOMAIN (m.pending \o new) : (m.pending \o new)[i] \notin sent \cup Settled
  BY <1>1, <1>2, <1>3, <1>4
<1>6. /\ monitor' = [m EXCEPT !.pending = m.pending \o new]
      /\ monitor'.pending = m.pending \o new /\ monitor'.pc = "traffic"
      /\ monitor'.owners = m.owners /\ monitor'.services = m.services
      /\ monitor'.caps = m.caps
      /\ monitor' \in MonitorRecord
      /\ percent' = percent /\ leaving' = leaving /\ enabled' = enabled /\ faults' = faults
  BY <1>3 DEF Judge, MonitorRecord, new, Env
<1>14. /\ sent' \subseteq sent /\ told' \subseteq told /\ unmarked' \subseteq unmarked
       /\ Settled' \subseteq Settled /\ crossed' \subseteq Subjects
  BY DEF Judge, Forget, Settled, About, AlertInv, AlertTyped
<1>7. \/ /\ sent' = sent \ About(s, sent) /\ Settled' = Settled \ About(s, Settled)
         /\ crossed' = crossed \ {s} /\ p \in 0..ResetBelow - 1
      \/ sent' = sent /\ Settled' = Settled /\ crossed' = crossed \cup ({s} \cap leaving)
  BY DEF Judge, Forget, Settled, About
<1>8. AlertTyped'
  BY <1>6, <1>14 DEF AlertInv, AlertTyped
<1>9. AtItsStep(monitor)'
  BY <1>6 DEF AtItsStep
<1>10. ListSound(monitor)'
  <2>1. \A r \in m.owners : FromNow(m.pending \o new, Cap(r))
    BY <1>3 DEF ListSound, AlertInv
  <2>2. \A n \in Services : OwnerOf[n] \in m.owners \/ n \in m.services
           => FromNow(m.pending \o new, Service(n))
    <3>1. \A n \in Services : OwnerOf[n] \in m.owners \/ n \in m.services
             => FromNow(m.pending, Service(n))
      BY DEF ListSound, MonitorRecord
    <3> QED
      BY <3>1, <1>3
  <2> QED
    BY <2>1, <2>2, <1>3, <1>5, <1>6, <1>14 DEF ListSound
<1>11. TableSound'
  BY <1>4, <1>6, <1>7, <1>14 DEF AlertInv, TableSound, About, AlertTyped, Alerts
<1>13. p \in 0..ResetBelow - 1 => new = <<>>
  BY DEF new, Pending, NewAlert, ResetBelow
<1>12. DeletionsSound'
  <2>1. ASSUME NEW u \in leaving, u \notin crossed'
        PROVE  FromNow(m.pending \o new, u) /\ \A a \in sent' : a.subject # u
    <3>1. CASE sent' = sent /\ crossed' = crossed \cup ({s} \cap leaving)
      BY <2>1, <3>1, <1>3 DEF AlertInv, DeletionsSound
    <3>2. CASE /\ sent' = sent \ About(s, sent) /\ crossed' = crossed \ {s}
               /\ p \in 0..ResetBelow - 1
      <4>1. new = <<>>
        BY <3>2, <1>13
      <4>2. u # s => u \notin crossed
        BY <2>1, <3>2
      <4> QED
        BY <2>1, <3>2, <4>1, <4>2, <1>3 DEF AlertInv, DeletionsSound, About
    <3> QED
      BY <3>1, <3>2, <1>7
  <2>2. ASSUME NEW u \in Subjects, u \notin crossed', percent[u] = Gone
        PROVE  /\ FromNow(m.pending \o new, u)
               /\ \A r \in m.owners : u = Cap(r) => m.caps[r] = Gone
    <3>1. u # s => u \notin crossed
      BY <2>2, <1>7
    <3>2. u = s => p = Gone \/ p \in 0..ResetBelow - 1
      BY <2>2, <1>7
    <3>3. p \in 0..ResetBelow - 1 => new = <<>>
      BY <1>13
    <3>4. u = s => new = <<>>
      BY <1>1, <3>2, <3>3
    <3> QED
      BY <2>2, <3>1, <3>4, <1>3 DEF AlertInv, DeletionsSound
  <2> QED
    BY <2>1, <2>2, <1>6, SubjectFacts DEF DeletionsSound
<1> QED
  BY <1>8, <1>9, <1>10, <1>11, <1>12 DEF AlertInv

(* The list without its first alert, which is in the table when it was     *)
(* delivered and marked, and that no row needs to stand for otherwise.     *)
LEMMA NextKeeps ==
    ASSUME AlertInv, NEW b \in BOOLEAN, NextMessage(b), monitor.pc \in {"send", "mark"},
           UNCHANGED <<Env, crossed>>, faults' \in 0..MaxFaults,
           told' \subseteq Alerts, unmarked' \subseteq Alerts,
           \/ /\ sent' = sent \cup {Head(monitor.pending)} /\ monitor.pc = "mark"
              /\ Settled' = Settled \cup ({Head(monitor.pending)} \cap told)
           \/ /\ sent' = sent /\ Settled' = Settled \ {Head(monitor.pending)}
    PROVE  AlertInv'
<1> DEFINE q == monitor.pending
           h == Head(q)
<1>1. /\ q \in Seq(Alerts) /\ q # <<>> /\ monitor \in MonitorRecord
      /\ h = q[1] /\ h \in Alerts /\ 1 \in DOMAIN q /\ Distinct(q)
      /\ h \notin sent
      /\ Tail(q) \in Seq(Alerts) /\ (Len(q) # 1 => Tail(q) # <<>>)
      /\ \A i \in DOMAIN Tail(q) : i + 1 \in DOMAIN q /\ Tail(q)[i] = q[i + 1] /\ i + 1 # 1
  BY TailFacts DEF AlertInv, AlertTyped, MonitorRecord, AtItsStep, ListSound
<1>2. \A i \in DOMAIN Tail(q) : Tail(q)[i] # h /\ Tail(q)[i] \notin sent \cup Settled
  BY <1>1 DEF AlertInv, ListSound, Distinct
<1>3. Distinct(Tail(q))
  BY <1>1, DOMAIN Tail(q) \subseteq Int DEF Distinct
<1>4. \A u : FromNow(q, u) => FromNow(Tail(q), u)
  BY <1>1 DEF FromNow
<1>5. \A a \in Settled \ {h} : a \in sent
  BY DEF AlertInv, TableSound, BeingMarked
<1>6. /\ \A a \in Settled' : a \in sent'
      /\ \A a \in sent' : a \in Settled' \/ a.subject \in crossed
      /\ sent' \subseteq Alerts
  BY <1>1, <1>5 DEF AlertInv, TableSound, AlertTyped
<1>7. CASE monitor' = Asleep
  <2>1. AlertTyped'
    BY <1>6, <1>7, AsleepFacts DEF AlertInv, AlertTyped, Env
  <2>2. AtItsStep(monitor)' /\ ListSound(monitor)' /\ TableSound'
    BY <1>6, <1>7, AsleepFacts DEF AtItsStep, ListSound, TableSound
  <2>3. DeletionsSound'
    BY <1>1, <1>7, AsleepFacts DEF AlertInv, DeletionsSound, Env, FromNow
  <2> QED
    BY <2>1, <2>2, <2>3 DEF AlertInv
<1>8. CASE Len(q) # 1 /\ monitor' = [monitor EXCEPT !.pc = "send", !.pending = Tail(@), !.broken = b]
  <2>1. /\ monitor' \in MonitorRecord /\ monitor'.pc = "send" /\ monitor'.pending = Tail(q)
        /\ monitor'.owners = monitor.owners /\ monitor'.services = monitor.services
        /\ monitor'.caps = monitor.caps
    BY <1>1, <1>8 DEF MonitorRecord
  <2> HIDE DEF q, h
  <2>2. AlertTyped'
    BY <1>6, <2>1 DEF AlertInv, AlertTyped, Env
  <2>3. AtItsStep(monitor)'
    BY <1>1, <1>8, <2>1 DEF AlertInv, AtItsStep
  <2>4. ListSound(monitor)'
    <3>1. \A i \in DOMAIN Tail(q) : Tail(q)[i] \notin sent' /\ Tail(q)[i] \notin Settled'
      BY <1>2 DEF q, h
    <3> QED
      BY <1>3, <1>4, <2>1, <3>1 DEF AlertInv, ListSound, q
  <2>5. TableSound'
    BY <1>6, <2>1 DEF TableSound
  <2>6. DeletionsSound'
    <3>1. \A u \in leaving \ crossed : FromNow(q, u) /\ \A a \in sent' : a.subject # u
      BY <1>1 DEF AlertInv, DeletionsSound, FromNow, q, h
    <3> QED
      BY <1>4, <2>1, <3>1 DEF AlertInv, DeletionsSound, Env, q
  <2> QED
    BY <2>2, <2>3, <2>4, <2>5, <2>6 DEF AlertInv
<1> QED
  BY <1>7, <1>8 DEF NextMessage

(* Steps of the task that neither judge nor go on to the next message.     *)
LEMMA LookKeeps ==
    ASSUME AlertInv,
           Wake \/ Advance \/ (\E n \in Services : ReadTraffic(n) \/ SkipService(n))
    PROVE  AlertInv'
<1>1. CASE Wake
  <2> DEFINE m == [Asleep EXCEPT !.pc = "traffic",
                                 !.owners = {r \in AlertResellers : enabled[r]},
                                 !.caps = [r \in AlertResellers |-> percent[Cap(r)]]]
  <2>1. /\ m \in MonitorRecord /\ m.pc = "traffic" /\ m.services = {}
        /\ m.pending = <<>> /\ DOMAIN m.pending = {}
        /\ m.owners \subseteq AlertResellers
        /\ m.caps = [r \in AlertResellers |-> percent[Cap(r)]]
    <3>1. /\ [r \in AlertResellers |-> percent[Cap(r)]] \in [AlertResellers -> Percents \cup {Gone}]
          /\ DOMAIN <<>> = {}
      BY SubjectFacts DEF AlertInv, AlertTyped
    <3> QED
      BY <3>1, AsleepFacts DEF AlertInv, AlertTyped, MonitorRecord
  <2>2. monitor' = m /\ monitor.pc = "sleep"
    BY <1>1 DEF Wake
  <2> HIDE DEF m
  <2>3. AlertTyped'
    BY <1>1, <2>1, <2>2 DEF AlertInv, AlertTyped, Wake, Env
  <2>4. AtItsStep(monitor)' /\ ListSound(monitor)' /\ TableSound'
    <3>1. AtItsStep(monitor)'
      BY <2>1, <2>2 DEF AtItsStep
    <3>2. ListSound(monitor)'
      BY <2>1, <2>2 DEF ListSound, FromNow, Distinct
    <3>3. TableSound'
      BY <1>1, <2>1, <2>2 DEF AlertInv, TableSound, BeingMarked, Settled, Wake
    <3> QED
      BY <3>1, <3>2, <3>3
  <2>5. DeletionsSound'
    <3>1. \A r \in monitor'.owners : monitor'.caps[r] = percent[Cap(r)]
      BY <2>1, <2>2
    <3>2. \A s : FromNow(monitor'.pending, s)
      BY <2>1, <2>2 DEF FromNow
    <3>3. /\ percent' = percent /\ leaving' = leaving /\ sent' = sent
          /\ crossed' = crossed /\ monitor'.pc = "traffic"
      BY <1>1, <2>1, <2>2 DEF Wake, Env
    <3> QED
      BY <3>1, <3>2, <3>3 DEF AlertInv, DeletionsSound
  <2> QED
    BY <2>3, <2>4, <2>5 DEF AlertInv
<1>2. CASE Advance
  <2>1. CASE monitor' = Asleep
    BY <1>2, <2>1, AsleepKeeps DEF Advance, Env, AlertInv, AlertTyped, Settled
  <2>2. CASE \/ monitor.owners # {} /\ monitor' = [monitor EXCEPT !.pc = "reseller"]
             \/ monitor.pending # <<>> /\ monitor' = [monitor EXCEPT !.pc = "send"]
    <3>1. /\ monitor' \in MonitorRecord /\ monitor'.pending = monitor.pending
          /\ monitor'.owners = monitor.owners /\ monitor'.services = monitor.services
          /\ monitor'.caps = monitor.caps /\ monitor'.pc \in {"reseller", "send"}
          /\ monitor'.pc = "send" => monitor.pending # <<>>
      BY <2>2 DEF AlertInv, AlertTyped, MonitorRecord
    <3>2. AlertTyped'
      BY <1>2, <3>1 DEF AlertInv, AlertTyped, Advance, Env
    <3>3. AtItsStep(monitor)' /\ ListSound(monitor)' /\ TableSound'
      BY <1>2, <3>1 DEF AlertInv, AtItsStep, ListSound, TableSound, BeingMarked, Settled, Advance
    <3>4. DeletionsSound'
      BY <1>2, <3>1 DEF AlertInv, DeletionsSound, Advance, Env
    <3> QED
      BY <3>2, <3>3, <3>4 DEF AlertInv
  <2> QED
    BY <1>2, <2>1, <2>2 DEF Advance
<1>3. ASSUME NEW n \in Services, ReadTraffic(n)
      PROVE  AlertInv'
  <2>1. /\ monitor' \in MonitorRecord /\ monitor'.pending = monitor.pending
        /\ monitor'.owners = monitor.owners /\ monitor'.services = monitor.services
        /\ monitor'.caps = monitor.caps /\ monitor'.pc = "thresholds" /\ monitor.pc = "traffic"
        /\ monitor'.email = n /\ monitor'.seen = percent[Service(n)] /\ n \in monitor.services
        /\ percent[Service(n)] \in Percents /\ percent[Service(n)] # Gone
    BY <1>3, SubjectFacts DEF AlertInv, AlertTyped, MonitorRecord, ReadTraffic
  <2>2. AlertTyped'
    BY <1>3, <2>1 DEF AlertInv, AlertTyped, ReadTraffic, Env
  <2>3. AtItsStep(monitor)' /\ ListSound(monitor)' /\ TableSound'
    <3>1. AtItsStep(monitor)'
      BY <2>1 DEF AlertInv, AtItsStep
    <3>2. ListSound(monitor)'
      <4>1. sent' = sent /\ Settled' = Settled
        BY <1>3 DEF ReadTraffic, Settled
      <4> QED
        BY <2>1, <4>1 DEF AlertInv, ListSound
    <3>3. TableSound'
      BY <1>3, <2>1 DEF AlertInv, TableSound, BeingMarked, Settled, ReadTraffic
    <3> QED
      BY <3>1, <3>2, <3>3
  <2>4. DeletionsSound'
    BY <1>3, <2>1 DEF AlertInv, DeletionsSound, ReadTraffic, Env
  <2> QED
    BY <2>2, <2>3, <2>4 DEF AlertInv
<1>4. ASSUME NEW n \in Services, SkipService(n)
      PROVE  AlertInv'
  <2>1. /\ monitor' \in MonitorRecord /\ monitor'.pending = monitor.pending
        /\ monitor'.owners = monitor.owners /\ monitor'.services = monitor.services \ {n}
        /\ monitor'.caps = monitor.caps /\ monitor'.pc = "traffic" /\ monitor.pc = "traffic"
    BY <1>4 DEF AlertInv, AlertTyped, MonitorRecord, SkipService
  <2>2. AlertTyped'
    BY <1>4, <2>1 DEF AlertInv, AlertTyped, SkipService, Env
  <2>3. AtItsStep(monitor)' /\ ListSound(monitor)' /\ TableSound'
    BY <1>4, <2>1 DEF AlertInv, AtItsStep, ListSound, TableSound, BeingMarked, Settled, SkipService
  <2>4. DeletionsSound'
    BY <1>4, <2>1 DEF AlertInv, DeletionsSound, SkipService, Env
  <2> QED
    BY <2>2, <2>3, <2>4 DEF AlertInv
<1> QED
  BY <1>1, <1>2, <1>3, <1>4

(* The alert being marked is on its way. *)
LEMMA MarkedOnItsWay ==
    ASSUME AlertInv, monitor.pc = "mark"
    PROVE  /\ Head(monitor.pending) \in Alerts
           /\ \A s : FromNow(monitor.pending, s) => Head(monitor.pending).subject # s
<1>1. monitor.pending \in Seq(Alerts) /\ monitor.pending # <<>>
  BY DEF AlertInv, AlertTyped, MonitorRecord, AtItsStep
<1> QED
  BY <1>1, TailFacts DEF FromNow

LEMMA SendKeeps ==
    ASSUME AlertInv,
           \/ \E a \in Alerts : Deliver(a)
           \/ DeliveryFails \/ MarkSent \/ MarkFails
    PROVE  AlertInv'
<1>1. ASSUME NEW a \in Alerts, Deliver(a)
      PROVE  AlertInv'
  <2>1. /\ monitor' \in MonitorRecord /\ monitor'.pending = monitor.pending
        /\ monitor'.owners = monitor.owners /\ monitor'.services = monitor.services
        /\ monitor'.caps = monitor.caps /\ monitor'.pc = "mark" /\ monitor.pc = "send"
        /\ a = Head(monitor.pending) /\ told' = told \cup {a}
        /\ Settled \subseteq Settled' /\ Settled' \subseteq Settled \cup {a}
        /\ sent' = sent /\ crossed' = crossed
    BY <1>1 DEF AlertInv, AlertTyped, MonitorRecord, Deliver, Settled
  <2>2. AlertTyped'
    BY <1>1, <2>1 DEF AlertInv, AlertTyped, Deliver, Env
  <2>3. AtItsStep(monitor)'
    BY <2>1 DEF AlertInv, AtItsStep
  <2>4. ListSound(monitor)'
    <3>1. monitor.pending \in Seq(Alerts) /\ monitor.pending # <<>>
      BY <2>1 DEF AlertInv, AlertTyped, MonitorRecord, AtItsStep
    <3>2. a = monitor.pending[1] /\ 1 \in DOMAIN monitor.pending
      BY <2>1, <3>1, TailFacts
    <3>3. \A i \in DOMAIN monitor.pending :
             /\ monitor.pending[i] \notin sent
             /\ monitor.pending[i] \in Settled \cup {a} => i = 1
      BY <2>1, <3>2 DEF AlertInv, ListSound, Distinct
    <3> QED
      BY <2>1, <3>3 DEF AlertInv, ListSound
  <2>5. TableSound'
    BY <2>1 DEF AlertInv, TableSound, BeingMarked
  <2>6. DeletionsSound'
    BY <1>1, <2>1 DEF AlertInv, DeletionsSound, Deliver, Env
  <2> QED
    BY <2>2, <2>3, <2>4, <2>5, <2>6 DEF AlertInv
<1>2. CASE DeliveryFails
  <2>1. Head(monitor.pending) \notin Settled /\ Head(monitor.pending) \in Alerts
    <3>1. monitor.pending \in Seq(Alerts) /\ monitor.pending # <<>>
      BY <1>2 DEF AlertInv, AlertTyped, MonitorRecord, AtItsStep, DeliveryFails
    <3> QED
      BY <1>2, <3>1, TailFacts DEF AlertInv, ListSound, DeliveryFails
  <2>2. /\ Settled' = Settled \ {Head(monitor.pending)} /\ monitor.broken \in BOOLEAN
        /\ told' \subseteq Alerts /\ unmarked' \subseteq Alerts /\ sent' = sent
    BY <1>2, <2>1 DEF DeliveryFails, Settled, AlertInv, AlertTyped, MonitorRecord
  <2>3. faults' \in 0..MaxFaults
    BY <1>2, AlertAssumptions DEF DeliveryFails, AlertInv, AlertTyped, AlertAssumptions
  <2> QED
    BY <1>2, <2>2, <2>3, NextKeeps DEF DeliveryFails, Env
<1>3. CASE MarkSent
  <2>1. /\ Settled' = Settled \cup ({Head(monitor.pending)} \cap told)
        /\ told' \subseteq Alerts /\ unmarked' \subseteq Alerts
    BY <1>3 DEF MarkSent, Settled, AlertInv, AlertTyped
  <2> QED
    BY <1>3, <2>1, NextKeeps DEF MarkSent, Env, AlertInv, AlertTyped
<1>4. CASE MarkFails
  <2>1. faults' \in 0..MaxFaults
    BY <1>4, AlertAssumptions DEF MarkFails, AlertInv, AlertTyped, AlertAssumptions
  <2>2. Head(monitor.pending) \in Alerts
    BY <1>4, MarkedOnItsWay DEF MarkFails
  <2>3. /\ Settled' = Settled \ {Head(monitor.pending)}
        /\ told' \subseteq Alerts /\ unmarked' \subseteq Alerts
    BY <1>4, <2>2 DEF MarkFails, Settled, AlertInv, AlertTyped
  <2> QED
    BY <1>4, <2>1, <2>3, NextKeeps DEF MarkFails, Env
<1> QED
  BY <1>1, <1>2, <1>3, <1>4

LEMMA CheckResellerKeeps ==
    ASSUME AlertInv, NEW r \in AlertResellers, CheckReseller(r)
    PROVE  AlertInv'
<1> DEFINE m == [monitor EXCEPT !.pc = "traffic", !.owners = @ \ {r},
                     !.services = {n \in Services : /\ OwnerOf[n] = r
                                                    /\ percent[Service(n)] # Gone}]
<1>1. /\ m \in MonitorRecord /\ m.pc = "traffic" /\ m.pending = monitor.pending
      /\ m.owners = monitor.owners \ {r} /\ m.caps = monitor.caps
      /\ m.services \subseteq Services /\ \A n \in m.services : OwnerOf[n] = r
      /\ r \in monitor.owners /\ monitor.owners \subseteq AlertResellers
      /\ monitor.caps[r] \in Percents \cup {Gone}
  BY DEF AlertInv, AlertTyped, MonitorRecord, CheckReseller
<1>2. Judge(Cap(r), monitor.caps[r], m) /\ monitor.pc = "reseller" /\ UNCHANGED <<Env, faults>>
  BY DEF CheckReseller
<1> HIDE DEF m
<1>3. AtItsStep(m)
  BY <1>1 DEF AtItsStep
<1>4. \A n \in Services : OwnerOf[n] \in m.owners \/ n \in m.services => OwnerOf[n] \in monitor.owners
  BY <1>1
<1>5. ListSound(m)
  <2>1. \A i \in DOMAIN m.pending : m.pending[i] \notin sent /\ m.pending[i] \notin Settled
    BY <1>1, <1>2 DEF AlertInv, ListSound
  <2> QED
    BY <1>1, <1>4, <2>1 DEF AlertInv, ListSound
<1>6. FromNow(m.pending, Cap(r)) /\ Cap(r) \in Subjects
  BY <1>1, SubjectFacts DEF AlertInv, ListSound
<1>7. \A o \in m.owners : Cap(o) # Cap(r) /\ o \in monitor.owners /\ m.caps[o] = monitor.caps[o]
  BY <1>1, SubjectFacts
<1>8. \A n \in Services : Service(n) # Cap(r)
  BY SubjectFacts
<1>9. percent[Cap(r)] = Gone /\ Cap(r) \notin crossed => monitor.caps[r] = Gone
  BY <1>1, <1>6 DEF AlertInv, DeletionsSound
<1> QED
  BY <1>1, <1>2, <1>3, <1>5, <1>6, <1>7, <1>8, <1>9, JudgeKeeps

LEMMA CheckServiceKeeps ==
    ASSUME AlertInv, CheckService
    PROVE  AlertInv'
<1> DEFINE n == monitor.email
           m == [monitor EXCEPT !.pc = "traffic", !.services = @ \ {n},
                                !.email = "none", !.seen = Gone]
<1>1. /\ m \in MonitorRecord /\ m.pc = "traffic" /\ m.pending = monitor.pending
      /\ m.owners = monitor.owners /\ m.caps = monitor.caps
      /\ m.services = monitor.services \ {n} /\ monitor.services \subseteq Services
      /\ n \in monitor.services /\ monitor.seen \in Percents
      /\ monitor.owners \subseteq AlertResellers
  BY DEF AlertInv, AlertTyped, MonitorRecord, AtItsStep, CheckService
<1>2. Judge(Service(n), monitor.seen, m) /\ monitor.pc = "thresholds" /\ UNCHANGED <<Env, faults>>
  BY DEF CheckService
<1> HIDE DEF m
<1>3. AtItsStep(m)
  BY <1>1 DEF AtItsStep, AlertInv
<1>5. ListSound(m)
  <2>1. \A i \in DOMAIN m.pending : m.pending[i] \notin sent /\ m.pending[i] \notin Settled
    BY <1>1, <1>2 DEF AlertInv, ListSound
  <2> QED
    BY <1>1, <2>1 DEF AlertInv, ListSound
<1>6. FromNow(m.pending, Service(n)) /\ Service(n) \in Subjects
  BY <1>1, SubjectFacts DEF AlertInv, ListSound
<1>7. \A o \in m.owners : Cap(o) # Service(n) /\ o \in monitor.owners /\ m.caps[o] = monitor.caps[o]
  BY <1>1, SubjectFacts
<1>8. \A k \in Services : OwnerOf[k] \in m.owners \/ k \in m.services => Service(k) # Service(n)
  BY <1>1, SubjectFacts DEF AlertInv, AtItsStep
<1>9. percent[Service(n)] = Gone => Service(n) \in crossed
  BY <1>2, <1>6 DEF AlertInv, DeletionsSound
<1> QED
  BY <1>1, <1>2, <1>3, <1>5, <1>6, <1>7, <1>8, <1>9, JudgeKeeps

(* The task is as it was: what a deletion takes from both the table and    *)
(* the messages delivered leaves the list sound.                           *)
LEMMA EnvKeeps ==
    ASSUME AlertInv, AlertTyped', monitor' = monitor,
           sent' \subseteq sent, Settled' \subseteq Settled, TableSound', DeletionsSound'
    PROVE  AlertInv'
  BY DEF AlertInv, AtItsStep, ListSound

LEMMA OnItsWayFacts ==
    ASSUME NEW s \in Subjects, Cross(s), crossed \subseteq Subjects
    PROVE  /\ crossed \subseteq crossed' /\ crossed' \subseteq Subjects
           /\ s \notin crossed' =>
                 /\ FromNow(monitor.pending, s)
                 /\ monitor.pc = "thresholds" => s # Service(monitor.email)
                 /\ \A r \in monitor.owners : s # Cap(r)
<1>1. crossed \subseteq crossed' /\ crossed' \subseteq Subjects /\ (OnItsWay(s) => s \in crossed')
  BY DEF Cross
<1>2. ~OnItsWay(s) => /\ FromNow(monitor.pending, s)
                      /\ monitor.pc = "thresholds" => s # Service(monitor.email)
                      /\ \A r \in monitor.owners : s # Cap(r)
  BY DEF OnItsWay, FromNow, Cap
<1> QED
  BY <1>1, <1>2

LEMMA UseKeeps ==
    ASSUME AlertInv,
           \/ \E s \in Subjects, p \in Percents : Use(s, p)
           \/ \E r \in AlertResellers : Switch(r)
    PROVE  AlertInv'
<1>1. /\ AlertTyped' /\ monitor' = monitor /\ sent' = sent /\ <<told, Settled>>' = <<told, Settled>>
      /\ crossed' = crossed /\ leaving' = leaving
      /\ \A u \in Subjects : percent'[u] = Gone => percent[u] = Gone
  <2>1. ASSUME NEW s \in Subjects, NEW p \in Percents, Use(s, p)
        PROVE  /\ AlertTyped' /\ monitor' = monitor /\ sent' = sent /\ <<told, Settled>>' = <<told, Settled>>
               /\ crossed' = crossed /\ leaving' = leaving
               /\ \A u \in Subjects : percent'[u] = Gone => percent[u] = Gone
    BY <2>1, SubjectFacts DEF AlertInv, AlertTyped, Use, Settled
  <2>2. ASSUME NEW r \in AlertResellers, Switch(r)
        PROVE  /\ AlertTyped' /\ monitor' = monitor /\ sent' = sent /\ <<told, Settled>>' = <<told, Settled>>
               /\ crossed' = crossed /\ leaving' = leaving
               /\ \A u \in Subjects : percent'[u] = Gone => percent[u] = Gone
    BY <2>2 DEF AlertInv, AlertTyped, Switch, Settled
  <2> QED
    BY <2>1, <2>2
<1>2. TableSound'
  BY <1>1 DEF AlertInv, TableSound, BeingMarked
<1>3. DeletionsSound'
  BY <1>1 DEF AlertInv, DeletionsSound
<1> QED
  BY <1>1, <1>2, <1>3, EnvKeeps

LEMMA ClearKeeps ==
    ASSUME AlertInv, NEW n \in Services, ClearAlerts(n)
    PROVE  AlertInv'
<1> DEFINE s == Service(n)
<1>1. s \in Subjects
  BY SubjectFacts
<1> HIDE DEF s
<1>2. /\ leaving' = leaving \cup {s} /\ percent' = percent /\ monitor' = monitor
      /\ sent' = {a \in sent : a.subject # s} /\ told' = {a \in told : a.subject # s}
      /\ Settled' = {a \in Settled : a.subject # s} /\ unmarked' \subseteq unmarked
      /\ crossed \subseteq crossed'
      /\ s \notin crossed' => FromNow(monitor.pending, s)
  BY <1>1, OnItsWayFacts DEF ClearAlerts, Forget, Settled, About, s, AlertInv, AlertTyped
<1>3. AlertTyped'
  BY <1>1, <1>2, OnItsWayFacts DEF ClearAlerts, AlertInv, AlertTyped, s
<1>4. TableSound'
  BY <1>2, MarkedOnItsWay DEF AlertInv, TableSound, BeingMarked
<1>5. DeletionsSound'
  BY <1>2 DEF AlertInv, DeletionsSound
<1> QED
  BY <1>2, <1>3, <1>4, <1>5, EnvKeeps

LEMMA DropKeeps ==
    ASSUME AlertInv, NEW n \in Services, DropService(n)
    PROVE  AlertInv'
<1> DEFINE s == Service(n)
<1>1. s \in Subjects
  BY SubjectFacts
<1> HIDE DEF s
<1>2. /\ s \in leaving /\ leaving' = leaving \ {s} /\ monitor' = monitor
      /\ percent' = [percent EXCEPT ![s] = Gone]
      /\ sent' = sent /\ told' = {a \in told : a.subject # s}
      /\ Settled' = {a \in Settled : a.subject # s} /\ unmarked' \subseteq unmarked
      /\ crossed \subseteq crossed'
      /\ s \notin crossed' =>
            /\ FromNow(monitor.pending, s)
            /\ monitor.pc = "thresholds" => s # Service(monitor.email)
            /\ \A r \in monitor.owners : s # Cap(r)
  BY <1>1, OnItsWayFacts DEF DropService, Forget, Settled, About, s, AlertInv, AlertTyped
<1>3. AlertTyped'
  BY <1>1, <1>2, OnItsWayFacts DEF DropService, AlertInv, AlertTyped, s
<1>4. \A a \in sent : a.subject = s => s \in crossed'
  BY <1>2 DEF AlertInv, DeletionsSound
<1>5. TableSound'
  BY <1>2, <1>4, MarkedOnItsWay DEF AlertInv, TableSound, BeingMarked
<1>6. DeletionsSound'
  BY <1>2 DEF AlertInv, DeletionsSound, AlertTyped
<1> QED
  BY <1>2, <1>3, <1>5, <1>6, EnvKeeps

LEMMA DeleteKeeps ==
    ASSUME AlertInv, NEW r \in AlertResellers, DeleteReseller(r)
    PROVE  AlertInv'
<1> DEFINE s == Cap(r)
<1>1. s \in Subjects
  BY SubjectFacts
<1> HIDE DEF s
<1>2. /\ leaving' = leaving /\ monitor' = monitor
      /\ percent' = [percent EXCEPT ![s] = Gone]
      /\ sent' = {a \in sent : a.subject.owner # r}
      /\ told' = {a \in told : a.subject.owner # r} /\ unmarked' \subseteq unmarked
      /\ Settled' = {a \in Settled : a.subject.owner # r}
      /\ crossed \subseteq crossed'
      /\ s \notin crossed' =>
            /\ FromNow(monitor.pending, s)
            /\ monitor.pc = "thresholds" => s # Service(monitor.email)
            /\ \A o \in monitor.owners : s # Cap(o)
  BY <1>1, OnItsWayFacts DEF DeleteReseller, Settled, s, AlertInv, AlertTyped
<1>3. AlertTyped'
  BY <1>1, <1>2, OnItsWayFacts DEF DeleteReseller, AlertInv, AlertTyped, s
<1>4. \A u \in Subjects : u.owner = r /\ u # s => percent[u] = Gone
  BY SubjectFacts DEF DeleteReseller, s
<1>5. monitor.pc = "mark" /\ Head(monitor.pending).subject.owner = r
         => Head(monitor.pending).subject \in crossed'
  BY <1>2, <1>4, MarkedOnItsWay, SubjectFacts DEF AlertInv, DeletionsSound
<1>6. TableSound'
  BY <1>2, <1>5 DEF AlertInv, TableSound, BeingMarked
<1>7. DeletionsSound'
  BY <1>2 DEF AlertInv, DeletionsSound, AlertTyped
<1> QED
  BY <1>2, <1>3, <1>6, <1>7, EnvKeeps

LEMMA FailKeeps ==
    ASSUME AlertInv, CycleFails \/ Stop
    PROVE  AlertInv'
<1>1. faults' \in 0..MaxFaults
  BY AlertAssumptions DEF CycleFails, Stop, AlertInv, AlertTyped, AlertAssumptions
<1>2. monitor.pc = "mark" => Head(monitor.pending) \in Alerts
  BY MarkedOnItsWay
<1>3. /\ unmarked' \subseteq Alerts
      /\ Settled' = IF monitor.pc = "mark" THEN Settled \ {Head(monitor.pending)} ELSE Settled
  BY <1>2 DEF CycleFails, Looking, Stop, Settled, AlertInv, AlertTyped
<1> QED
  BY <1>1, <1>3, AsleepKeeps DEF CycleFails, Stop, Env, Looking

LEMMA AlertNextInv == AlertInv /\ [AlertNext]_alertVars => AlertInv'
<1> SUFFICES ASSUME AlertInv, [AlertNext]_alertVars
             PROVE  AlertInv'
  OBVIOUS
<1>1. CASE Monitor
  BY <1>1, LookKeeps, SendKeeps, CheckResellerKeeps, CheckServiceKeeps, FailKeeps DEF Monitor
<1>2. CASE (\E s \in Subjects, p \in Percents : Use(s, p)) \/ \E r \in AlertResellers : Switch(r)
  BY <1>2, UseKeeps
<1>3. CASE \E n \in Services : ClearAlerts(n) \/ DropService(n)
  BY <1>3, ClearKeeps, DropKeeps
<1>4. CASE \E r \in AlertResellers : DeleteReseller(r)
  BY <1>4, DeleteKeeps
<1>5. CASE Stop
  BY <1>5, FailKeeps
<1>6. CASE UNCHANGED alertVars
  BY <1>6 DEF alertVars, AlertInv, AlertTyped, AtItsStep, ListSound, TableSound, BeingMarked, Settled, DeletionsSound
<1> QED
  BY <1>1, <1>2, <1>3, <1>4, <1>5, <1>6 DEF AlertNext

LEMMA AlertSpecInv == AlertSpec => []AlertInv
<1>1. AlertInit => AlertInv
  <2> SUFFICES ASSUME AlertInit PROVE AlertInv
    OBVIOUS
  <2>1. AlertTyped
    BY AsleepFacts, AlertAssumptions DEF AlertInit, AlertTyped, AlertAssumptions
  <2>2. AtItsStep(monitor) /\ ListSound(monitor)
    BY AsleepFacts DEF AlertInit, AtItsStep, ListSound
  <2>3. TableSound /\ DeletionsSound
    BY AsleepFacts DEF AlertInit, TableSound, Settled, DeletionsSound
  <2> QED
    BY <2>1, <2>2, <2>3 DEF AlertInv
<1>2. AlertInv /\ [AlertNext]_alertVars => AlertInv'
  BY AlertNextInv
<1> QED
  BY <1>1, <1>2, PTL DEF AlertSpec

(* tasks/usage_monitor.py: whatever is used, sold, deleted or fails, the   *)
(* monitor's session and the table keep their types.                       *)
THEOREM AlertsTypeCorrect == AlertSpec => []AlertTypeOK
<1>1. AlertInv => AlertTypeOK
  BY DEF AlertInv, AlertTyped, MonitorRecord, AtItsStep, AlertTypeOK
<1> QED
  BY <1>1, AlertSpecInv, PTL

(* services/usage_alerts.py, mark_sent: for any number of resellers and    *)
(* services the table holds what was delivered, except for the messages    *)
(* after which no commit succeeded, and for what was deleted with its      *)
(* alert on its way.                                                       *)
THEOREM TableTells == AlertSpec => []TableTrue
<1>1. AlertInv => TableTrue
  BY DEF AlertInv, ListSound, TableSound, TableTrue, BeingMarked
<1> QED
  BY <1>1, AlertSpecInv, PTL

(* services/usage_alerts.py, run_usage_alert_cycle: a message on the list  *)
(* of a cycle is sent again only if its last delivery was not marked; no   *)
(* failure of an earlier cycle and no deletion repeats any other.          *)
THEOREM NothingRepeated == AlertSpec => []NotRepeated
<1>1. AlertInv => NotRepeated
  <2> SUFFICES ASSUME AlertInv, monitor.pc = "send"
               PROVE  Head(monitor.pending) \notin sent \cup Settled
    BY DEF NotRepeated
  <2>1. monitor.pending \in Seq(Alerts) /\ monitor.pending # <<>>
    BY DEF AlertInv, AlertTyped, MonitorRecord, AtItsStep
  <2> QED
    BY <2>1, TailFacts DEF AlertInv, ListSound
<1> QED
  BY <1>1, AlertSpecInv, PTL
=============================================================================
