------------------------------ MODULE MCLedger ------------------------------
(***************************************************************************)
(* Constants for checking ResellerLedger, and initial states with services *)
(* already sold, for the runs about operations on existing services.       *)
(***************************************************************************)
EXTENDS LedgerRefinement, Sequences, TLC

CONSTANTS r1, n1, n2, n3

ASSUME SaleAssumptions == r1 \in Resellers /\ {n1, n2} \subseteq Names /\ MaxId >= 2

Symmetric == Permutations(Tasks)

VolumeOps == (ServiceOps \cup AdminOps) \ {"toggle"}
AllOps == ServiceOps \cup AdminOps
NoCapEdits == ServiceOps \cup {"toggle"}

(* Services that r1 bought one after the other, each of two units. *)
SoldAt(cap, names) ==
    /\ resellers = [r \in Resellers |->
          [quota |-> cap,
           lifetime |-> IF r = r1 THEN 2 * Len(names) ELSE 0, active |-> TRUE]]
    /\ records = {[id |-> i, name |-> names[i], owner |-> r1, alloc |-> 2] : i \in DOMAIN names}
    /\ nextId = Len(names) + 1
    /\ panel = [n \in Names |-> IF n \in {names[i] : i \in DOMAIN names}
                                THEN [total |-> 2, used |-> 0] ELSE NoClient]
    /\ task = [t \in Tasks |-> Idle]

SoldTwo == SoldAt(InitQuota, <<n1, n2>>)
=============================================================================
