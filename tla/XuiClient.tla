------------------------------ MODULE XuiClient -----------------------------
(***************************************************************************)
(* The client of a 3x-ui panel (xui/client.py): what a call does to the    *)
(* services of the panel when requests fail, answers are lost and requests *)
(* are sent again, and when two handlers call at the same time.            *)
(*                                                                         *)
(* Abstractions.  A service on the panel is its volume, one field that is  *)
(* set (limit, comment or expiry) and its switch; the panel itself is      *)
(* external and modelled by what the client expects of it.  An attempt of  *)
(* _request is one step: the panel acts or does not, the answer arrives or *)
(* does not.  A refused, an empty and a missing answer are the same to     *)
(* _request: the attempt failed.                                           *)
(***************************************************************************)
EXTENDS Integers

CONSTANTS
    Emails,         \* services of one panel
    Callers,        \* handler tasks that may call at the same time
    Volumes,        \* volumes added or taken
    Fields,         \* values of a limit, a comment, an expiry
    MaxRetries,     \* XuiClient.max_retries
    MaxTotal        \* bound: volume of a service on the panel

ASSUME CallAssumptions ==
    /\ Volumes \subseteq Nat \ {0}
    /\ Fields # {}
    /\ MaxRetries \in Nat \ {0}
    /\ MaxTotal \in Nat

VARIABLES
    remote,         \* the services the panel has
    call,           \* the calls that are running
    due,            \* history: the services as every change in turn would make them
    mixed           \* history: services changed between the read and the write of an update

callVars == <<remote, call, due, mixed>>

Fresh == CHOOSE f \in Fields : TRUE
Missing == [total |-> -1, field |-> Fresh, on |-> FALSE]
Present == [total : Nat, field : Fields, on : BOOLEAN]
Updates == {"field", "switch"}
NoCall == [pc |-> "none", op |-> "none", email |-> "none", arg |-> 0,
           read |-> Missing, tries |-> 0, hits |-> 0, absent |-> FALSE]

CallTypeOK ==
    /\ remote \in [Emails -> Present \cup {Missing}]
    /\ \A c \in Callers : call[c] # NoCall =>
          /\ call[c].pc \in {"get", "post", "done", "failed"}
          /\ call[c].op \in Updates \cup {"create", "delete", "add", "subtract"}
          /\ call[c].email \in Emails
          /\ call[c].pc = "post" /\ call[c].op \in Updates => call[c].read \in Present
          /\ call[c].tries \in 0..MaxRetries - 1
          /\ call[c].hits \in 0..MaxRetries
          /\ call[c].absent \in BOOLEAN
    /\ due \in [Emails -> Present \cup {Missing}]
    /\ mixed \subseteq Emails

CallInit ==
    /\ remote = [e \in Emails |-> Missing]
    /\ call = [c \in Callers |-> NoCall]
    /\ due = remote
    /\ mixed = {}

-----------------------------------------------------------------------------
(* What a request does to the service, or that the panel refuses it.       *)

Positive(n) == IF n < 0 THEN 0 ELSE n

(* A change of one field of a service that is there. *)
WithField(op, arg, s) ==
    IF op = "field" THEN [s EXCEPT !.field = arg] ELSE [s EXCEPT !.on = arg]

Change(op, arg, s) ==
    CASE op = "create"   -> [total |-> arg, field |-> Fresh, on |-> TRUE]
      [] op = "delete"   -> Missing
      [] op = "add"      -> [s EXCEPT !.total = @ + arg]
      [] op = "subtract" -> [s EXCEPT !.total = Positive(@ - arg)]
      [] OTHER           -> WithField(op, arg, s)

Accepts(op, s) == (op = "create") <=> (s = Missing)

(* mistake: only what is changed is sent; the panel takes the rest as zero *)
PayloadBare(j) == [WithField(j.op, j.arg, j.read) EXCEPT !.total = 0]

(* _build_client_update_payload: the whole client as it was read, with the *)
(* field that is changed.                                                  *)
Payload(j) == WithField(j.op, j.arg, j.read)

(* What the panel has after it acted on the request of j. *)
Acted(j) == IF j.op \in Updates THEN Payload(j) ELSE Change(j.op, j.arg, remote[j.email])

-----------------------------------------------------------------------------
(* Calls.                                                                  *)

Begin(c, op, e, arg) ==
    /\ call[c].pc \notin {"get", "post"}
    /\ call' = [call EXCEPT ![c] = [NoCall EXCEPT
                  !.pc = IF op \in Updates THEN "get" ELSE "post",
                  !.op = op, !.email = e, !.arg = arg]]
    /\ UNCHANGED <<remote, due, mixed>>

(* The handler gets the answer or the exception. *)
Return(c, j, result) ==
    call' = [call EXCEPT ![c] = [NoCall EXCEPT !.pc = result, !.op = j.op, !.email = j.email,
                                               !.tries = j.tries, !.hits = j.hits,
                                               !.absent = j.absent]]

(* mistake: one attempt too many *)
RetryOnceMore(c, j) ==
    IF j.tries < MaxRetries
    THEN call' = [call EXCEPT ![c] = [j EXCEPT !.tries = @ + 1]]
    ELSE Return(c, j, "failed")

(* An attempt failed: the next one, or the exception. *)
Retry(c, j) ==
    IF j.tries + 1 < MaxRetries
    THEN call' = [call EXCEPT ![c] = [j EXCEPT !.tries = @ + 1]]
    ELSE Return(c, j, "failed")

(* get_client: the service as the panel has it; "not found" fails the      *)
(* attempt like any refusal, and the update in the end.                    *)
Get(c) ==
    LET j == call[c] IN
    /\ j.pc = "get"
    /\ \/ /\ remote[j.email] # Missing
          /\ call' = [call EXCEPT ![c] = [j EXCEPT !.pc = "post", !.tries = 0,
                                                   !.read = remote[j.email]]]
       \/ Retry(c, j)
    /\ UNCHANGED <<remote, due, mixed>>

(* Another handler holds a copy of the service and will write it back. *)
CopyHeld(c, e) ==
    \E d \in Callers \ {c} :
        call[d].pc = "post" /\ call[d].op \in Updates /\ call[d].email = e

(* The panel does nothing: it is out of reach, or refuses. *)
PostRefused(c) ==
    /\ call[c].pc = "post"
    /\ Retry(c, call[c])
    /\ UNCHANGED <<remote, due, mixed>>

(* The panel acts; the answer arrives or is lost, and then the request is  *)
(* sent again.                                                             *)
PostActs(c) ==
    LET j == call[c]
        e == j.email
        hit == [j EXCEPT !.hits = @ + 1]
    IN
    /\ j.pc = "post"
    /\ Accepts(j.op, remote[e])
    /\ Acted(j).total <= MaxTotal
    /\ remote' = [remote EXCEPT ![e] = Acted(j)]
    /\ mixed' = IF remote'[e] = Missing THEN mixed \ {e}
                ELSE IF CopyHeld(c, e) THEN mixed \cup {e} ELSE mixed
    /\ due' = [due EXCEPT ![e] = IF e \in mixed' THEN remote'[e] ELSE Change(j.op, j.arg, @)]
    /\ Return(c, hit, "done") \/ Retry(c, hit)

(* mistake: what the panel did not subtract is taken for subtracted *)
PostSkipsAll(c) ==
    /\ call[c].pc = "post"
    /\ call[c].op \in {"add", "subtract"}
    /\ remote[call[c].email] = Missing
    /\ Return(c, [call[c] EXCEPT !.absent = TRUE], "done")
    /\ UNCHANGED <<remote, due, mixed>>

(* bulkAdjust lists a service it does not have as skipped: subtracting     *)
(* reports that as an error, adding as a success like any other.           *)
PostSkips(c) ==
    LET j == call[c] IN
    /\ j.pc = "post"
    /\ j.op \in {"add", "subtract"}
    /\ remote[j.email] = Missing
    /\ Return(c, [j EXCEPT !.absent = TRUE], IF j.op = "add" THEN "done" ELSE "failed")
    /\ UNCHANGED <<remote, due, mixed>>

CallNext ==
    \E c \in Callers :
        \/ \E e \in Emails :
              \/ \E op \in {"create", "add", "subtract"}, v \in Volumes : Begin(c, op, e, v)
              \/ Begin(c, "delete", e, 0)
              \/ \E f \in Fields : Begin(c, "field", e, f)
              \/ \E b \in BOOLEAN : Begin(c, "switch", e, b)
        \/ Get(c) \/ PostRefused(c) \/ PostActs(c) \/ PostSkips(c)

CallSpec == CallInit /\ [][CallNext]_callVars

-----------------------------------------------------------------------------
(* What a call promises.                                                   *)

(* Changes of different fields do not undo each other: a service on the    *)
(* panel is what all changes in turn have made it, repetitions included,   *)
(* unless another handler held a copy of it to write back while it changed. *)
NothingOverwritten == \A e \in Emails \ mixed : remote[e] = due[e]

(* A call that reports success has had an effect, and only a lost answer   *)
(* repeats it: the panel acted no more often than attempts before had      *)
(* failed, and once more (what is added is then added that often).  The    *)
(* one success with no effect is an addition to a service the panel says   *)
(* it does not have (client.py:426-435).                                   *)
SuccessMeansDone ==
    \A c \in Callers : call[c].pc = "done" =>
        /\ call[c].hits <= call[c].tries + 1
        /\ call[c].hits > 0 \/ (call[c].op = "add" /\ call[c].absent)
=============================================================================
