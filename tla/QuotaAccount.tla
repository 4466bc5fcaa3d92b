---------------------------- MODULE QuotaAccount ----------------------------
(***************************************************************************)
(* What the bot promises about a reseller's volume, with nothing of how it *)
(* keeps the promise.  Every reseller has one account: the cap the admin   *)
(* gave (resellers.quota_bytes), the volume charged against it over its    *)
(* life (resellers.lifetime_allocated_bytes) and the volume its existing   *)
(* services hold (the sum of client_records.allocated_bytes).  An          *)
(* operation on the account is one indivisible step; ResellerLedger is the *)
(* program's version, where it takes several commits and panel calls.      *)
(* Volumes are abstract units, a multiple of one GB.                       *)
(***************************************************************************)
EXTENDS Integers

CONSTANTS
    Resellers,      \* the resellers
    InitQuota,      \* the cap every reseller starts with
    Amounts         \* the volumes an operation may move

(* What a proof needs of the constants; LedgerRefinement gives them values *)
(* that have it.                                                           *)
AccountAssumptions == InitQuota \in Nat /\ Amounts \subseteq Nat

VARIABLE account    \* account[r] = [quota, charged, held]

Account == [quota : Nat, charged : Nat, held : Nat]

Init == account = [r \in Resellers |->
                     [quota |-> InitQuota, charged |-> 0, held |-> 0]]

(* Quota check of services/quota.py, and the charge that follows it. *)
Buy(r, v) ==
    /\ account[r].charged + v <= account[r].quota
    /\ account' = [account EXCEPT ![r].charged = @ + v, ![r].held = @ + v]

(* A deleted service or a reduced one whose volume goes back to the pool. *)
GiveBack(r, v) ==
    /\ v <= account[r].held
    /\ account' = [account EXCEPT ![r].charged = @ - v, ![r].held = @ - v]

(* A service deleted after it was used: its volume stays charged. *)
Forfeit(r, v) ==
    /\ v <= account[r].held
    /\ account' = [account EXCEPT ![r].held = @ - v]

(* The admin gives another cap, never below what is charged. *)
SetCap(r, q) ==
    /\ account[r].charged <= q
    /\ account' = [account EXCEPT ![r].quota = q]

(* The admin forgives what deleted services used. *)
Forgive(r) == account' = [account EXCEPT ![r].charged = account[r].held]

Next == \E r \in Resellers :
            \/ \E v \in Amounts : Buy(r, v) \/ GiveBack(r, v) \/ Forfeit(r, v) \/ SetCap(r, v)
            \/ Forgive(r)

Spec == Init /\ [][Next]_account

(***************************************************************************)
(* The promise: services hold no more than was charged, and no more is     *)
(* charged than the cap ("one shared cap for all panels", CHANGELOG 1.2.6; *)
(* "a new cap is never below the use", CHANGELOG 1.2.7).                   *)
(***************************************************************************)
AccountSound ==
    \A r \in Resellers : /\ account[r].held <= account[r].charged
                         /\ account[r].charged <= account[r].quota

AccountTypeOK == account \in [Resellers -> Account]
=============================================================================
