--------------------------- MODULE GuestReceipts ---------------------------
(***************************************************************************)
(* Which orders came from receipts that met.  GuestOrders with two history *)
(* variables: guest_receipt_received looks for a pending order and, after  *)
(* an await, inserts one (bot/handlers/guest.py:197-202), so receipts that *)
(* a guest sends at once, the photos of an album for one, may all have     *)
(* looked before any of them inserts.                                      *)
(***************************************************************************)
EXTENDS GuestOrders

VARIABLES
    met,        \* history: handlers between the look and the insertion
                \* that were there with another of the same guest
    twins       \* history: orders that such handlers inserted

receiptVars == <<vars, met, twins>>

Looked(g) == {t \in Tasks : task[t].pc = "submit" /\ task[t].guest = g}

(* t is about to insert, as another handler of its guest is. *)
Meets(t) == \E g \in Guests : t \in Looked(g) /\ Looked(g) # {t}

Inserts(t) == task[t].pc = "submit" /\ task'[t].pc # "submit"

Remember ==
    /\ met' = {t \in Tasks : task'[t].pc = "submit" /\ (t \in met \/ Meets(t)')}
    /\ twins' = twins \cup {o \in DOMAIN orders' \ DOMAIN orders : \E t \in met : Inserts(t)}

ReceiptInit == Init /\ met = {} /\ twins = {}
ReceiptNext == (Next \/ Crash) /\ Remember
ReceiptSpec == ReceiptInit /\ [][ReceiptNext]_receiptVars

(* Two orders of one guest wait at the same time only when each comes from *)
(* a receipt that met another of that guest.  CHANGELOG.md:38 promises     *)
(* more, that registering duplicate orders at the same time is prevented:  *)
(* receipts that meet break it, and this is what of it the code keeps.     *)
OnePendingPerGuest ==
    \A o, p \in DOMAIN orders :
        /\ Pending(o) /\ Pending(p)
        /\ orders[o].guest = orders[p].guest
        => o = p \/ {o, p} \subseteq twins
=============================================================================
