-------------------------- MODULE LedgerRefinement --------------------------
(***************************************************************************)
(* Handlers that run one at a time implement QuotaAccount: every commit of *)
(* ResellerLedger is one operation of the account or changes nothing in    *)
(* it.  Volume between the commit of a record and the commit of the row it *)
(* is charged to or refunded from counts as if the operation had not yet   *)
(* happened.                                                               *)
(***************************************************************************)
EXTENDS ResellerLedger

(* Handlers that run one at a time: each begins when none is running. *)
Alone(t) == \A u \in Tasks \ {t} : task[u] = Idle

SerialNext ==
    \/ \E t \in Tasks : Alone(t) /\ (Begin(t) \/ Continue(t))
    \/ \E n \in Names : Consume(n)

SerialSpec == Init /\ [][SerialNext]_vars

Held(r) == ActiveBytes(r) + PendingCredit(r) - PendingCharge(r)

accountOf ==
    [r \in Resellers |->
       [quota |-> resellers[r].quota, charged |-> resellers[r].lifetime, held |-> Held(r)]]

A == INSTANCE QuotaAccount
         WITH account <- accountOf, Amounts <- 0..MaxQuota

(* Each operation takes effect on the account at once, as validated. *)
ImplementsAccount == A!Spec
=============================================================================
