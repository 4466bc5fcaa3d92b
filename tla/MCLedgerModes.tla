--------------------------- MODULE MCLedgerModes ---------------------------
(***************************************************************************)
(* The instances of ResellerLedger that pass.  The first state chooses     *)
(* what this behaviour is about, so that one run has several: how many     *)
(* handlers run at once decides what can be promised, and how much can be  *)
(* enumerated.                                                             *)
(***************************************************************************)
EXTENDS MCLedger

VARIABLE about      \* the behaviour's subject; never changes

modeVars == <<vars, about>>

(* A step of a handler, when at most k run at once. *)
Handlers(k) ==
    \E t \in Tasks :
        \/ task[t] # Idle /\ Continue(t)
        \/ Cardinality({u \in Tasks : task[u] # Idle}) < k /\ Begin(t)
Only(ops) == \A t \in Tasks : task'[t].op \in ops \cup {"none"}

(* "alone": one handler at a time, every operation, two services.          *)
(* "crossed": two handlers and crashes, one service, no edits of the cap.  *)
(* "deletions": three handlers delete two services that were sold before.  *)
ModesInit ==
    \/ Init /\ about = "alone"
    \/ SoldAt(3, <<>>) /\ about = "crossed"
    \/ SoldTwo /\ about = "deletions"

ModesNext ==
    /\ \/ /\ about = "alone"
          /\ SerialNext
          /\ Only(VolumeOps)
       \/ /\ about = "crossed"
          /\ Handlers(2) \/ Crash
          /\ Only(NoCapEdits)
          /\ panel'[n2] = NoClient /\ \A t \in Tasks : task'[t].name # n2
       \/ /\ about = "deletions"
          /\ Handlers(3)
          /\ Only({"delete"})
    /\ UNCHANGED about

ModesSpec == ModesInit /\ [][ModesNext]_modeVars

(* Handlers that run one at a time keep the services of a reseller within  *)
(* the cap, whatever the panel answers and the admin sets (CHANGELOG.md:80,*)
(* "one shared cap of volume").                                            *)
SharedCapAlone == about = "alone" => SharedCap

(* Interleaved deletions, of one service or of several, never give back    *)
(* more than what is then left was charged for: subtract_lifetime_allocated*)
(* works on the row the handler has cached (service_delete_confirm).       *)
DeletionsCovered == about = "deletions" => ActiveCovered

(* Handlers that run one at a time implement A!Spec: each of their commits *)
(* is one operation of the account, as validated, or changes nothing in it.*)
ImplementsAccountAlone ==
    (about = "alone" => A!Init) /\ [][about = "alone" => [A!Next]_accountOf]_modeVars
=============================================================================
