---------------------------- MODULE MCLedgerIds ----------------------------
(***************************************************************************)
(* ServiceIds where the resellers only create and delete services: the     *)
(* handlers whose rows come and go while others wait.                      *)
(***************************************************************************)
EXTENDS ServiceIds

CreateOrDelete(t) ==
    \/ CreateValidate(t) \/ CreateProbe(t) \/ CreateInsert(t) \/ CreatePanel(t)
    \/ CreateSubId(t) \/ CreateUndo(t) \/ Charge(t)
    \/ Fetch(t) \/ DeleteTraffic(t) \/ DeletePanel(t) \/ DeleteRecord(t) \/ Credit(t)

ShopNext ==
    /\ \E t \in Tasks :
          \/ CreateOrDelete(t)
          \/ \E r \in Resellers, n \in Names :
                DeleteBegin(t, r, n) \/ \E v \in Volumes : CreateBegin(t, r, n, v)
    /\ Remember

(* A handler that has begun is scheduled until it ends. *)
ShopSpec ==
    /\ IdsInit
    /\ [][ShopNext]_idVars
    /\ \A t \in Tasks : WF_idVars(CreateOrDelete(t) /\ Remember)
=============================================================================
