------------------------------ MODULE MCAdmin ------------------------------
(* Instances of AdminConversation.  Two handlers at once meet in any pair   *)
(* of the dialogues; one handler at a time meets all of them.              *)
EXTENDS AdminConversation, FiniteSets, TLC

CONSTANTS r1, r2, p1, p2, i1, t1, t2

VARIABLE menus      \* the dialogues of a behaviour

Menus == {"add", "edit", "set", "assign", "describe", "panel", "broadcast", "sales", "files"}
Few(S) == Cardinality(S) = 2

InMenus(t) ==
    \/ "add" \in menus /\ AddingReseller(t)
    \/ "edit" \in menus /\ EditingReseller(t)
    \/ "set" \in menus /\ SettingPanel(t)
    \/ "assign" \in menus /\ AssigningPanel(t)
    \/ "describe" \in menus /\ Describing(t)
    \/ "panel" \in menus /\ EditingPanel(t)
    \/ "broadcast" \in menus /\ Broadcasting(t)
    \/ "sales" \in menus /\ SettingSales(t)
    \/ "files" \in menus /\ Receiving(t)
    \/ Finish(t)

MenuInit == Init /\ menus \in {Menus} \cup {S \in SUBSET Menus : Few(S)}
MenuNext ==
    /\ \/ \E t \in Tasks :
            /\ Few(menus) \/ \A u \in Tasks \ {t} : task[u] = Idle
            /\ InMenus(t)
       \/ Crash
    /\ UNCHANGED menus
MenuSpec == MenuInit /\ [][MenuNext]_<<vars, menus>>

Symmetric == Permutations(Resellers) \cup Permutations(Panels) \cup Permutations(Tasks)
=============================================================================
