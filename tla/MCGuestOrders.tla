--------------------------- MODULE MCGuestOrders ---------------------------
(***************************************************************************)
(* Constants for checking GuestOrders.                                     *)
(***************************************************************************)
EXTENDS GuestOrders, TLC

Symmetric == Permutations(Tasks) \cup Permutations(Guests)

NoReject == GuestOps \ {"reject", "delete", "hide"}
Buying == {"receipt", "offer", "configure", "toggle"}
Selling == Buying \cup {"approve"}
=============================================================================
