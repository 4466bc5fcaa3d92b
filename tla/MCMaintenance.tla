--------------------------- MODULE MCMaintenance ---------------------------
(***************************************************************************)
(* Constants for checking Maintenance.                                     *)
(***************************************************************************)
EXTENDS Maintenance

TwoParts == {"bot", "services"}
=============================================================================
