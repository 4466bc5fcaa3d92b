--------------------------- MODULE MCGuestModes ----------------------------
(***************************************************************************)
(* The instance of GuestOrders that passes.  The first state chooses what  *)
(* this behaviour is about: how many handlers run at once decides what can *)
(* be promised, and how much can be enumerated.                            *)
(***************************************************************************)
EXTENDS MCGuestOrders, GuestReceipts

CONSTANT g1

AnyTask == Permutations(Tasks)

VARIABLE about      \* the behaviour's subject; never changes

modeVars == <<receiptVars, about>>

(* "alone": one handler of one guest or of the admin at a time, and ends   *)
(* of the process between any two steps.                                   *)
(* "crossed": two guests, two handlers, one plan; the admin rejects, hides *)
(* and deletes nothing, and never closes the sale.                         *)
ModesInit == ReceiptInit /\ about \in {"alone", "crossed"}

(* One handler at a time, and the end of the process between any two of    *)
(* its steps.                                                              *)
SerialNext ==
    \/ Settings \/ Crash
    \/ \E t \in Tasks : /\ \A u \in Tasks \ {t} : task[u] = Idle
                        /\ Begin(t) \/ Continue(t)

SerialSpec == Init /\ [][SerialNext]_vars

Alone ==
    /\ SerialNext
    /\ \A g \in Guests \ {g1} : draft'[g] = 0
    /\ Len(orders') <= 2

Crossed ==
    /\ Next
    /\ \A t \in Tasks : task'[t].pc \notin {"reject", "hide", "drop"}
    /\ \A p \in 1..MaxPlan : plans'[p] # NoPlan => p = 1 /\ plans'[p].vol = 1
    /\ sales.enabled => sales'.enabled
    /\ pool'.quota <= 2

ModesNext ==
    /\ \/ about = "alone" /\ Alone
       \/ about = "crossed" /\ Crossed
    /\ Remember
    /\ UNCHANGED about

ModesSpec == ModesInit /\ [][ModesNext]_modeVars

(* Handlers that run one at a time, crashes included, never leave an order *)
(* waiting for a plan that is gone ("prevents deleting a plan that has a   *)
(* pending order", CHANGELOG.md:39).                                       *)
PendingPlanExistsAlone == about = "alone" => PendingPlanExists

(* Handlers that run one at a time, crashes included, always grant enough  *)
(* for the service that deliver_guest_order then creates.                  *)
GrantSufficesAlone == about = "alone" => GrantSuffices

(* Unless the process ends in the middle of an approval, no service is     *)
(* given away, however two approvals and two receipts interleave.          *)
ServicesAccountedCrossed == about = "crossed" => ServicesAccounted
=============================================================================
