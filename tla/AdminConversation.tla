------------------------- MODULE AdminConversation -------------------------
(***************************************************************************)
(* The conversation of one admin with the bot: one state (bot/states.py)   *)
(* and one dictionary in memory, which all dialogues of the admin menus    *)
(* share: adding and editing resellers, their panels, panels, templates,   *)
(* plans, broadcasts, the settings of guest sales, restores and updates.   *)
(*                                                                         *)
(* As in Conversation, handlers of one user interleave at every await that *)
(* waits; reading and writing the conversation does not, nor does the      *)
(* filter on its state.  A handler that looks at the conversation in one   *)
(* step and writes it in a later one has an action for each; a handler     *)
(* that only looks or only writes takes one step.  Buttons stay on their   *)
(* messages: a button whose handler names no state may come at any time.   *)
(*                                                                         *)
(* Abstractions.  What is typed (numbers, names, addresses, texts) is a    *)
(* member of Drafts that stands for all the answers of a dialogue so far;  *)
(* the data keeps which keys have been given.  An input that is refused at *)
(* once is no step.  What a handler finds in the database or on a panel is *)
(* decided elsewhere: every answer is possible.  What saving does is the   *)
(* matter of ResellerLedger, PanelAccess and GuestOrders; here it works    *)
(* and ends.  Buttons that do not touch the conversation (switches,        *)
(* deletions, the default panel: they carry their subject) are left out.   *)
(***************************************************************************)
CONSTANTS
    Resellers,      \* resellers there are
    Panels,         \* panels there are
    Inbounds,       \* inbounds of a panel
    Drafts,         \* what an admin may have typed in a dialogue
    ValueKinds,     \* what can be asked for when a reseller is edited (edit_kind)
    PanelKinds,     \* what can be asked for when a panel is edited (edit_kind)
    Tasks,          \* handler tasks that may run at the same time
    None            \* a key that the data does not have

ASSUME AdminAssumptions ==
    /\ None \notin Resellers \cup Panels \cup Drafts \cup ValueKinds \cup PanelKinds
    /\ None \notin {"allowed", "attach"}

VARIABLES
    fsm,            \* state of the conversation
    data,           \* its data
    task,           \* the handler tasks and what they have read
    question,       \* the question the conversation waits for, and what it was about
    crossed         \* TRUE once an update came while another was being handled

talk == <<fsm, data, question>>
vars == <<fsm, data, task, question, crossed>>

(* The dialogues whose answers are all stored at once: the key an answer   *)
(* is stored under and the state that follows.                             *)
Answered(key, state) == [key |-> key, next |-> state]
PanelSteps ==
    [panel_name |-> Answered("name", "panel_base_url"),
     panel_base_url |-> Answered("base_url", "panel_api_token"),
     panel_api_token |-> Answered("api_token", "panel_sub_url"),
     panel_sub_url |-> Answered("sub_public_url", "panel_confirm")]
TemplateSteps ==
    [template_volume |-> Answered("volume_gb", "template_expiry"),
     template_expiry |-> Answered("expiry_days", "template_name"),
     template_name |-> Answered("name", "template_confirm")]
PlanSteps ==
    [plan_volume |-> Answered("volume_gb", "plan_expiry"),
     plan_expiry |-> Answered("expiry_days", "plan_name"),
     plan_name |-> Answered("name", "plan_price"),
     plan_price |-> Answered("price_toman", "plan_confirm")]

AddStates == {"telegram_id", "display_name", "pick_panel", "quota", "inbounds", "confirm"}
PickStates == {"inbounds", "edit_inbounds", "assign_inbounds", "guest_inbounds"}
CardStates == {"card_number", "card_holder"}
FileStates == {"backup_file", "update_zip"}
States ==
    AddStates \cup PickStates \cup CardStates \cup FileStates
    \cup DOMAIN PanelSteps \cup DOMAIN TemplateSteps \cup DOMAIN PlanSteps
    \cup {"none", "edit_value", "panel_value", "panel_confirm", "template_confirm",
          "plan_confirm", "set_reseller", "set_panel", "set_confirm", "assign_panel",
          "message", "broadcast_confirm", "guest_panel"}

Keys == {"telegram_id", "quota_gb", "name", "base_url", "api_token", "sub_public_url",
         "volume_gb", "expiry_days", "price_toman", "broadcast_text"}

Data == [reseller : Resellers \cup {None}, label : Resellers \cup {None},
         kind : ValueKinds \cup PanelKinds \cup {"allowed", "attach", None},
         panel : Panels \cup {None}, new_panel : Panels \cup {None},
         selected : {None} \cup SUBSET Inbounds,
         given : SUBSET Keys, draft : Drafts \cup {None}]
NoData == [reseller |-> None, label |-> None, kind |-> None, panel |-> None,
           new_panel |-> None, selected |-> None, given |-> {}, draft |-> None]

(* What the handlers of a state read from the data without asking whether  *)
(* it is there, and what a wizard has been given by then.                  *)
PanelKeys == {"name", "base_url", "api_token"}
TemplateKeys == {"volume_gb", "expiry_days", "name"}
AddKeys == {"telegram_id", "quota_gb"}
Needed(s) ==
    CASE s = "panel_base_url" -> {"name"}
      [] s = "panel_api_token" -> {"name", "base_url"}
      [] s \in {"panel_sub_url", "panel_confirm"} -> PanelKeys
      [] s \in {"template_expiry", "plan_expiry"} -> {"volume_gb"}
      [] s \in {"template_name", "plan_name"} -> {"volume_gb", "expiry_days"}
      [] s \in {"template_confirm", "plan_price"} -> TemplateKeys
      [] s = "plan_confirm" -> TemplateKeys \cup {"price_toman"}
      [] s = "broadcast_confirm" -> {"broadcast_text"}
      [] OTHER -> {}

(* What of the data a question shows.                                      *)
About(s, d) ==
    [NoData EXCEPT
        !.reseller = IF s \in {"edit_value", "edit_inbounds", "assign_inbounds", "set_confirm"}
                     THEN d.reseller ELSE None,
        !.kind = IF s \in {"edit_value", "edit_inbounds", "panel_value"} THEN d.kind ELSE None,
        !.panel = IF s \in {"inbounds", "confirm", "panel_value", "assign_inbounds",
                            "guest_inbounds"} THEN d.panel ELSE None,
        !.new_panel = IF s = "set_confirm" THEN d.new_panel ELSE None,
        !.selected = IF s = "confirm" THEN d.selected ELSE None,
        !.draft = IF s \in {"confirm", "panel_confirm", "template_confirm", "plan_confirm",
                            "broadcast_confirm"} THEN d.draft ELSE None]
Asked(s, d) == [state |-> s, about |-> About(s, d)]
NoQuestion == Asked("none", NoData)

(* A handler at a step, with what it has read or was sent.                 *)
Steps == {"idle", "telegram_id", "panels", "panel", "inbounds", "confirm", "new_panel",
          "assign", "compose", "guest_panel", "end"}
Job(step, d) == [pc |-> step, read |-> d]
Idle == Job("idle", NoData)
Done == Job("end", NoData)

(* What the steps of a handler rely on.                                    *)
HasWhatItNeeds(j) ==
    /\ j.pc \in {"telegram_id", "compose"} => j.read.draft # None
    /\ j.pc \in {"panel", "inbounds", "confirm", "assign", "guest_panel"} => j.read.panel # None
    /\ j.pc = "confirm" => j.read.selected \notin {None, {}}
    /\ j.pc = "assign" => j.read.reseller # None
    /\ j.pc = "new_panel" => j.read.new_panel # None

(* Types; a handler that goes on has all it needs for it.                  *)
TypeOK ==
    /\ fsm \in States
    /\ data \in Data
    /\ task \in [Tasks -> [pc : Steps, read : Data]]
    /\ \A t \in Tasks : HasWhatItNeeds(task[t])
    /\ question \in [state : States, about : Data]
    /\ crossed \in BOOLEAN

Init ==
    /\ fsm = "none"
    /\ data = NoData
    /\ task = [t \in Tasks |-> Idle]
    /\ question = NoQuestion
    /\ crossed = FALSE

-----------------------------------------------------------------------------
(* A handler begins with an update: at work it goes on as j, or it is done *)
(* at once when j is Idle.                                                 *)
Begin(t, j) ==
    /\ task[t] = Idle
    /\ task' = [task EXCEPT ![t] = j]
    /\ crossed' = (crossed \/ \E u \in Tasks : task[u] # Idle)
AtOnce(t) == Begin(t, Idle)

(* A handler goes on, or ends. *)
Goto(t, j) == task' = [task EXCEPT ![t] = j] /\ UNCHANGED crossed
Stop(t) == Goto(t, Idle)

(* The data is stored and the question of state s is asked about it, as    *)
(* the handler knows it.                                                   *)
AskAbout(s, d, known) ==
    /\ fsm' = s
    /\ data' = d
    /\ question' = Asked(s, known)
Ask(s, d) == AskAbout(s, d, d)

(* FSMContext.clear *)
Clear == Ask("none", NoData)

(* FSMContext.update_data without a question *)
Store(d) == data' = d /\ UNCHANGED <<fsm, question>>

Toggled(i) ==
    LET chosen == IF data.selected = None THEN {} ELSE data.selected
    IN  IF i \in chosen THEN chosen \ {i} ELSE chosen \cup {i}
HasSelected == data.selected \notin {None, {}}

(* A button that ends the dialogue, whatever it is about.                  *)
Leave(t) == AtOnce(t) /\ Clear

(* The last step of a handler that saves: done, or refused with a message. *)
Finish(t) ==
    /\ task[t].pc = "end"
    /\ Clear \/ UNCHANGED talk
    /\ Stop(t)

-----------------------------------------------------------------------------
(* Adding a reseller.                                                      *)

(* _start_add_wizard, reseller_add_start *)
StartReseller(t) == AtOnce(t) /\ Ask("telegram_id", NoData)

(* wizard_telegram_id: the state admits it, then the reseller is looked up *)
GiveTelegramId(t) ==
    /\ fsm = "telegram_id"
    /\ \E x \in Drafts : Begin(t, Job("telegram_id", [NoData EXCEPT !.draft = x]))
    /\ UNCHANGED talk
StoreTelegramId(t) ==
    /\ task[t].pc = "telegram_id"
    /\ \/ Clear
       \/ Ask("display_name", [data EXCEPT !.given = @ \cup {"telegram_id"},
                                           !.draft = task[t].read.draft])
    /\ Stop(t)

(* wizard_display_name, wizard_name_skip; _go_to_panel_step *)
GiveResellerName(t) ==
    /\ fsm = "display_name"
    /\ \E x \in Drafts : Store([data EXCEPT !.draft = x])
    /\ Begin(t, Job("panels", NoData))
OfferPanels(t) ==
    /\ task[t].pc = "panels"
    /\ Clear \/ Ask("pick_panel", data)
    /\ Stop(t)

(* wizard_pick_panel, up to _go_to_quota_step *)
PickResellerPanel(t) ==
    /\ fsm = "pick_panel"
    /\ \E p \in Panels : Begin(t, Job("panel", [NoData EXCEPT !.panel = p]))
    /\ UNCHANGED talk
StoreResellerPanel(t) ==
    /\ task[t].pc = "panel"
    /\ \/ UNCHANGED talk
       \/ Ask("quota", [data EXCEPT !.panel = task[t].read.panel])
    /\ Stop(t)

(* wizard_quota_quick, wizard_quota_text; _go_to_inbounds_step *)
GiveQuota(t) ==
    /\ fsm = "quota"
    /\ \/ /\ data.panel # None
          /\ \E x \in Drafts :
                Store([data EXCEPT !.given = @ \cup {"quota_gb"}, !.draft = x])
          /\ Begin(t, Job("inbounds", [NoData EXCEPT !.panel = data.panel]))
       \/ data.panel = None /\ Clear /\ AtOnce(t)
ListInbounds(t) ==
    LET shown == [data EXCEPT !.panel = task[t].read.panel]
    IN  /\ task[t].pc = "inbounds"
        /\ Clear \/ AskAbout("inbounds", [data EXCEPT !.selected = {}], shown)
        /\ Stop(t)

(* mistake: a reseller without inbounds is confirmed *)
ConfirmResellerAnyway(t) ==
    /\ fsm = "inbounds"
    /\ data.panel # None
    /\ Begin(t, Job("confirm", [data EXCEPT !.reseller = None, !.label = None, !.kind = None,
                                            !.new_panel = None]))
    /\ UNCHANGED talk

(* wizard_inbounds_done; _go_to_confirm_step, which raises while it writes *)
(* the question when a wizard that was overtaken has lost its answers      *)
ConfirmReseller(t) ==
    /\ fsm = "inbounds"
    /\ HasSelected
    /\ data.panel # None
    /\ Begin(t, Job("confirm", [data EXCEPT !.reseller = None, !.label = None, !.kind = None,
                                            !.new_panel = None]))
    /\ UNCHANGED talk
ShowReseller(t) ==
    /\ task[t].pc = "confirm"
    /\ \/ AddKeys \subseteq task[t].read.given /\ AskAbout("confirm", data, task[t].read)
       \/ /\ ~(AddKeys \subseteq task[t].read.given)
          /\ fsm' = "confirm"
          /\ UNCHANGED <<data, question>>
    /\ Stop(t)

(* wizard_inbound_toggle *)
ToggleInbound(t, s) ==
    /\ fsm = s
    /\ \E i \in Inbounds : Store([data EXCEPT !.selected = Toggled(i)])
    /\ AtOnce(t)

(* wizard_save *)
SaveReseller(t) ==
    /\ fsm = "confirm"
    /\ AddKeys \subseteq data.given
    /\ data.panel # None /\ data.selected # None
    /\ Begin(t, Done)
    /\ UNCHANGED talk

(* reseller_hub_callback, reseller_view; wizard_cancel *)
ResellerMenus(t) == Leave(t)

-----------------------------------------------------------------------------
(* Editing a reseller.                                                     *)

(* reseller_edit_menu, reseller_edit_cancel, _finish_edit_view; and the    *)
(* reset of the use, which is confirmed by a button with the reseller      *)
EditMenus(t) == Leave(t)
ResetQuota(t) == Leave(t)

(* mistake: the state of the dialogue before is kept *)
AskValueOnly(t, r, k) ==
    /\ AtOnce(t)
    /\ data' = [data EXCEPT !.reseller = r, !.kind = k]
    /\ UNCHANGED <<fsm, question>>

(* edit_start_quota *)
AskValue(t, r, k) ==
    /\ AtOnce(t)
    /\ Ask("edit_value", [data EXCEPT !.reseller = r, !.kind = k])

(* edit_start_quota .. edit_subtract_quota_quick: the value is asked for,  *)
(* or the button carries it *)
QuotaKinds == {"quota", "add_quota", "subtract_quota"}
EditQuota(t) ==
    \/ \E r \in Resellers, k \in ValueKinds \cap QuotaKinds : AskValue(t, r, k)
    \/ Leave(t)

(* edit_start_name .. edit_max_clients_clear *)
EditNameOrLimit(t) ==
    \/ \E r \in Resellers, k \in ValueKinds \ QuotaKinds : AskValue(t, r, k)
    \/ Leave(t)

(* edit_value_text *)
GiveValue(t) ==
    /\ fsm = "edit_value"
    /\ Begin(t, Done)
    /\ UNCHANGED talk

(* edit_start_allowed, after the inbounds of the panel have been listed *)
AskAllowed(t) ==
    /\ AtOnce(t)
    /\ \E r \in Resellers, p \in Panels, chosen \in SUBSET Inbounds :
        Ask("edit_inbounds", [data EXCEPT !.reseller = r, !.kind = "allowed",
                                          !.selected = chosen, !.panel = p])

(* edit_start_attach *)
AskAttach(t) ==
    /\ AtOnce(t)
    /\ \E r \in Resellers, chosen \in SUBSET Inbounds :
        Ask("edit_inbounds", [data EXCEPT !.reseller = r, !.kind = "attach", !.selected = chosen])

(* edit_inbound_toggle *)
ToggleEdited(t) == ToggleInbound(t, "edit_inbounds")

(* edit_inbounds_save *)
SaveInbounds(t) ==
    /\ fsm = "edit_inbounds"
    /\ HasSelected
    /\ Begin(t, Done)
    /\ UNCHANGED talk

-----------------------------------------------------------------------------
(* The default panel of a reseller.                                        *)

(* set_panel_entry, _start_set_panel_wizard: cleared again when there is   *)
(* no reseller *)
StartSetPanel(t) ==
    /\ Begin(t, Done)
    /\ Ask("set_reseller", NoData)

(* set_panel_pick_reseller, set_panel_from_reseller_hub;                   *)
(* _begin_set_panel_for_reseller *)
PickReseller(t) ==
    /\ AtOnce(t)
    /\ \/ Clear
       \/ \E r \in Resellers :
            Ask("set_panel", [data EXCEPT !.reseller = r, !.label = r])

(* set_panel_pick_panel: in any state; the question names the reseller     *)
(* that was read before the panel was looked up *)
PickNewPanel(t) ==
    /\ \E p \in Panels :
        Begin(t, Job("new_panel", [NoData EXCEPT !.label = data.label, !.new_panel = p]))
    /\ UNCHANGED talk
StoreNewPanel(t) ==
    LET read == task[t].read
        stored == [data EXCEPT !.new_panel = read.new_panel]
    IN  /\ task[t].pc = "new_panel"
        /\ \/ UNCHANGED talk
           \/ AskAbout("set_confirm", stored, [stored EXCEPT !.reseller = read.label])
        /\ Stop(t)

(* set_panel_cancel *)
CancelSetPanel(t) == Leave(t)

(* set_panel_save *)
SaveSetPanel(t) ==
    /\ fsm = "set_confirm"
    /\ data.reseller # None
    /\ data.new_panel # None
    /\ Begin(t, Done)
    /\ UNCHANGED talk

-----------------------------------------------------------------------------
(* Another panel for a reseller.                                           *)

(* reseller_panels_list, reseller_panel_view, reseller_panel_edit_menu *)
AssignMenus(t) == Leave(t)

(* reseller_panel_add_start *)
StartAssign(t) ==
    /\ AtOnce(t)
    /\ \E r \in Resellers :
        Ask("assign_panel", [data EXCEPT !.reseller = r, !.selected = {}])

(* reseller_panel_add_pick_panel: the button carries the reseller too *)
PickAssignPanel(t) ==
    /\ fsm = "assign_panel"
    /\ \E r \in Resellers, p \in Panels :
        /\ Store([data EXCEPT !.reseller = r, !.panel = p])
        /\ \/ AtOnce(t)
           \/ Begin(t, Job("assign", [NoData EXCEPT !.reseller = r, !.panel = p]))
ListAssign(t) ==
    LET read == task[t].read
    IN  /\ task[t].pc = "assign"
        /\ \/ UNCHANGED talk
           \/ AskAbout("assign_inbounds", [data EXCEPT !.selected = {}],
                       [data EXCEPT !.reseller = read.reseller, !.panel = read.panel])
        /\ Stop(t)

(* reseller_panel_add_inbound_toggle *)
ToggleAssigned(t) == ToggleInbound(t, "assign_inbounds")

(* reseller_panel_add_finish *)
SaveAssign(t) ==
    /\ fsm = "assign_inbounds"
    /\ data.reseller # None /\ data.panel # None /\ HasSelected
    /\ Begin(t, Done)
    /\ UNCHANGED talk

-----------------------------------------------------------------------------
(* Panels, templates and plans: wizards without a wait between two         *)
(* questions.                                                              *)
Answer(t, steps) ==
    \E s \in DOMAIN steps, x \in Drafts :
        /\ fsm = s
        /\ Ask(steps[s].next, [data EXCEPT !.given = @ \cup {steps[s].key}, !.draft = x])
        /\ AtOnce(t)
Save(t, state, required) ==
    /\ fsm = state
    /\ required \subseteq data.given
    /\ Begin(t, Done)
    /\ UNCHANGED talk

(* panel_add_start, wizard_panel_name .. _wizard_confirm_step, wizard_save *)
StartPanel(t) == AtOnce(t) /\ Ask("panel_name", NoData)
AnswerPanel(t) == Answer(t, PanelSteps)
SavePanel(t) == Save(t, "panel_confirm", PanelKeys)

(* mistake: a button of an older message answers in whatever state *)
AnswerTemplateAnywhere(t) ==
    \E s \in DOMAIN TemplateSteps, x \in Drafts :
        /\ Ask(TemplateSteps[s].next,
               [data EXCEPT !.given = @ \cup {TemplateSteps[s].key}, !.draft = x])
        /\ AtOnce(t)

(* template_add_start, wizard_volume_quick .. _go_to_confirm_step *)
StartTemplate(t) == AtOnce(t) /\ Ask("template_volume", NoData)
AnswerTemplate(t) == Answer(t, TemplateSteps)
SaveTemplate(t) == Save(t, "template_confirm", TemplateKeys)

(* plan_add_start, wizard_volume_quick .. wizard_price_text *)
StartPlan(t) == AtOnce(t) /\ Ask("plan_volume", NoData)
AnswerPlan(t) == Answer(t, PlanSteps)
SavePlan(t) == Save(t, "plan_confirm", TemplateKeys \cup {"price_toman"})

(* panel_edit_menu; panel_edit_sub_clear and the cancel buttons do the     *)
(* same *)
PanelMenus(t) == Leave(t)

(* panel_edit_start *)
AskPanelValue(t) ==
    /\ AtOnce(t)
    /\ \E p \in Panels, k \in PanelKinds :
        Ask("panel_value", [data EXCEPT !.panel = p, !.kind = k])

(* panel_edit_value *)
GivePanelValue(t) ==
    /\ fsm = "panel_value"
    /\ \/ data.panel # None /\ data.kind # None /\ Begin(t, Done) /\ UNCHANGED talk
       \/ (data.panel = None \/ data.kind = None) /\ Clear /\ AtOnce(t)

-----------------------------------------------------------------------------
(* Broadcasts, guest sales, files.                                         *)

(* broadcast_start *)
StartBroadcast(t) == AtOnce(t) /\ Ask("message", NoData)

(* mistake: the text is kept before the recipients are known *)
ComposeAtOnce(t) ==
    /\ fsm \in {"message", "broadcast_confirm"}
    /\ \E x \in Drafts :
        /\ Store([data EXCEPT !.given = @ \cup {"broadcast_text"}, !.draft = x])
        /\ Begin(t, Job("compose", [NoData EXCEPT !.draft = x]))

(* broadcast_compose *)
Compose(t) ==
    /\ fsm = "message"
    /\ \E x \in Drafts : Begin(t, Job("compose", [NoData EXCEPT !.draft = x]))
    /\ UNCHANGED talk
ShowBroadcast(t) ==
    /\ task[t].pc = "compose"
    /\ \/ Clear
       \/ Ask("broadcast_confirm", [data EXCEPT !.given = @ \cup {"broadcast_text"},
                                                !.draft = task[t].read.draft])
    /\ Stop(t)

(* broadcast_confirm *)
SendBroadcast(t) ==
    /\ fsm = "broadcast_confirm"
    /\ \/ "broadcast_text" \in data.given /\ Begin(t, Done) /\ UNCHANGED talk
       \/ "broadcast_text" \notin data.given /\ Clear /\ AtOnce(t)

(* broadcast_cancel *)
CancelBroadcast(t) ==
    /\ fsm = "broadcast_confirm"
    /\ Leave(t)

(* guest_settings_hub_callback, guest_settings_cancel *)
SalesMenus(t) == Leave(t)

(* guest_settings_pick_panel *)
AskGuestPanel(t) == AtOnce(t) /\ Ask("guest_panel", data)

(* guest_settings_panel_picked *)
PickGuestPanel(t) ==
    /\ fsm = "guest_panel"
    /\ \E p \in Panels : Begin(t, Job("guest_panel", [NoData EXCEPT !.panel = p]))
    /\ UNCHANGED talk
ListGuestInbounds(t) ==
    /\ task[t].pc = "guest_panel"
    /\ \/ Clear
       \/ Ask("guest_inbounds", [data EXCEPT !.panel = task[t].read.panel, !.selected = {}])
    /\ Stop(t)

(* guest_settings_inbound_toggle *)
ToggleSold(t) == ToggleInbound(t, "guest_inbounds")

(* guest_settings_inbounds_done *)
SaveGuestPanel(t) ==
    /\ fsm = "guest_inbounds"
    /\ HasSelected /\ data.panel # None
    /\ Begin(t, Done)
    /\ UNCHANGED talk

(* guest_settings_card_number_start, guest_settings_card_holder_start, and *)
(* their inputs *)
AskCard(t) == AtOnce(t) /\ \E s \in CardStates : Ask(s, data)
GiveCard(t) ==
    /\ fsm \in CardStates
    /\ Begin(t, Done)
    /\ UNCHANGED talk

(* bot_update_manual_start, bot_update_receive_zip *)
AskFile(t, s) == AtOnce(t) /\ Ask(s, data)
GiveFile(t, s) ==
    /\ fsm = s
    /\ Begin(t, Done)
    /\ UNCHANGED talk

(* bot_update_start, bot_update_github_fetch, bot_update_cancel_menu       *)
UpdateMenus(t) == Leave(t)

(* backup_restore_start, backup_restore_receive *)
RestoreFile(t) == AskFile(t, "backup_file") \/ GiveFile(t, "backup_file")

(* backup_start .. backup_list *)
BackupMenus(t) == Leave(t)

(* The process ends: the conversation and its handlers go, the messages    *)
(* stay.                                                                   *)
Crash ==
    /\ Clear
    /\ task' = [t \in Tasks |-> Idle]
    /\ UNCHANGED crossed

(* The dialogues of the menus. *)
AddingReseller(t) ==
    \/ StartReseller(t) \/ GiveTelegramId(t) \/ StoreTelegramId(t)
    \/ GiveResellerName(t) \/ OfferPanels(t) \/ PickResellerPanel(t) \/ StoreResellerPanel(t)
    \/ GiveQuota(t) \/ ListInbounds(t) \/ ConfirmReseller(t) \/ ShowReseller(t) \/ SaveReseller(t)
    \/ ToggleInbound(t, "inbounds") \/ ResellerMenus(t)

EditingReseller(t) ==
    \/ EditMenus(t) \/ ResetQuota(t) \/ EditQuota(t) \/ EditNameOrLimit(t) \/ GiveValue(t)
    \/ AskAllowed(t) \/ AskAttach(t) \/ ToggleEdited(t) \/ SaveInbounds(t)

SettingPanel(t) ==
    \/ StartSetPanel(t) \/ PickReseller(t) \/ PickNewPanel(t) \/ StoreNewPanel(t)
    \/ CancelSetPanel(t) \/ SaveSetPanel(t)

AssigningPanel(t) ==
    \/ AssignMenus(t) \/ StartAssign(t) \/ PickAssignPanel(t) \/ ListAssign(t)
    \/ ToggleAssigned(t) \/ SaveAssign(t)

Describing(t) ==
    \/ StartPanel(t) \/ AnswerPanel(t) \/ SavePanel(t)
    \/ StartTemplate(t) \/ AnswerTemplate(t) \/ SaveTemplate(t)
    \/ StartPlan(t) \/ AnswerPlan(t) \/ SavePlan(t)

EditingPanel(t) == PanelMenus(t) \/ AskPanelValue(t) \/ GivePanelValue(t)

Broadcasting(t) ==
    \/ StartBroadcast(t) \/ Compose(t) \/ ShowBroadcast(t) \/ SendBroadcast(t)
    \/ CancelBroadcast(t)

SettingSales(t) ==
    \/ SalesMenus(t) \/ AskGuestPanel(t) \/ PickGuestPanel(t) \/ ListGuestInbounds(t)
    \/ ToggleSold(t) \/ SaveGuestPanel(t) \/ AskCard(t) \/ GiveCard(t)

Receiving(t) ==
    \/ UpdateMenus(t) \/ AskFile(t, "update_zip") \/ GiveFile(t, "update_zip")
    \/ BackupMenus(t) \/ RestoreFile(t)

Next ==
    \/ \E t \in Tasks :
        \/ AddingReseller(t) \/ EditingReseller(t) \/ SettingPanel(t) \/ AssigningPanel(t)
        \/ Describing(t) \/ EditingPanel(t) \/ Broadcasting(t) \/ SettingSales(t) \/ Receiving(t)
        \/ Finish(t)
    \/ Crash

Spec == Init /\ [][Next]_vars

-----------------------------------------------------------------------------
(* The question of a state is still about what the data holds.             *)
Current(states) == fsm \in states => question = Asked(fsm, data)

(* An answer typed or ticked for a reseller, a panel or the guest sales    *)
(* reaches the one, and the field, that its question was about, although   *)
(* these dialogues share one reseller_tg_id, edit_kind and panel_id, do    *)
(* not clear what the others left, and interleave at every await           *)
(* (admin_resellers.py, admin_panels.py, admin_guest_settings.py: whoever  *)
(* writes these keys sets the state without a wait).                       *)
AnswerGoesToAsked == Current({"edit_value", "panel_value", "edit_inbounds", "guest_inbounds"})

(* A panel, a template, a plan and a broadcast are saved or sent as their  *)
(* confirmation has shown them, however handlers interleave; so are a new  *)
(* reseller and a further panel of one, whose questions come after a wait, *)
(* as long as updates do not cross.                                        *)
(* The confirmation of a reseller's default panel does less.  The panel it *)
(* shows is the panel that is saved.  The reseller it shows is, while      *)
(* updates do not cross, the one whose label the dialogue has stored; it   *)
(* need not be the one that is changed: rpnl:pan comes in any state        *)
(* (admin_set_panel.py:209), the other dialogues overwrite reseller_tg_id  *)
(* and leave label (admin_resellers.py:666), and rpnl:save changes         *)
(* reseller_tg_id (admin_set_panel.py:237).                                *)
ConfirmsWhatItShows ==
    /\ Current({"panel_confirm", "template_confirm", "plan_confirm", "broadcast_confirm"})
    /\ ~crossed => Current({"inbounds", "confirm", "assign_inbounds"})
    /\ fsm = "set_confirm" =>
        /\ question.state = fsm /\ question.about.new_panel = data.new_panel
        /\ ~crossed => question.about.reseller = data.label

(* No handler looks up a key the data does not have: what the handlers of  *)
(* a state read with data[...] has been given, whatever buttons of older   *)
(* messages were pressed before; in the wizard for resellers as long as    *)
(* updates do not cross.                                                   *)
KeysPresent ==
    /\ Needed(fsm) \subseteq data.given
    /\ fsm \in {"edit_value", "edit_inbounds"} => data.reseller # None
    /\ fsm = "edit_inbounds" => data.kind = "attach" \/ data.panel # None
    /\ ~crossed =>
        /\ fsm \in AddStates \ {"telegram_id"} => "telegram_id" \in data.given
        /\ fsm \in {"quota", "inbounds", "confirm", "assign_inbounds"} => data.panel # None
        /\ fsm \in {"inbounds", "confirm"} => "quota_gb" \in data.given
=============================================================================
