---------------------------- MODULE Conversation ----------------------------
(***************************************************************************)
(* The conversation of one reseller with the bot                           *)
(* (bot/handlers/reseller.py): one state and one dictionary of data in     *)
(* memory (MemoryStorage, bot/main.py), which the dialogues that create a  *)
(* service, add or reduce volume and change a field all use.               *)
(*                                                                         *)
(* aiogram starts a task per update, so handlers of one reseller           *)
(* interleave at every await that waits: the database, the panel,          *)
(* Telegram.  Reading and writing the conversation does not wait, nor does *)
(* the filter on its state.  A step here lies between two such awaits.     *)
(*                                                                         *)
(* Buttons.  A message keeps its buttons, and the conversation is lost     *)
(* when the process ends while the messages are not: a button can be       *)
(* pressed at any time, whatever the conversation is about by then.  Only  *)
(* the buttons that confirm need a question of their kind to exist.        *)
(*                                                                         *)
(* Abstractions.  Handlers that never touch the conversation (details,     *)
(* links, traffic, switch, deletion: their buttons carry the service) are  *)
(* left out, and so are the search text and the name of a template, which  *)
(* only messages use, and the dialogues of guests and of admins, who are   *)
(* not resellers.  An input that is refused before anything is read is no  *)
(* step.  What a handler does to services is ResellerLedger's matter: here *)
(* it works and ends.  Whether the reseller is active, a panel is          *)
(* reachable, a name is free or a volume is left is decided elsewhere:     *)
(* both answers are possible each time.                                    *)
(***************************************************************************)
CONSTANTS
    Services,       \* names of services the reseller has
    Names,          \* names for new services, typed or generated
    Volumes,        \* volumes (GB) that pass validation
    Days,           \* lifetimes of new services
    Panels,         \* ids of panels
    Templates,      \* templates an admin has made: volume and days
    Tasks,          \* handler tasks that may run at the same time
    None            \* a key that the data does not have

ASSUME ConversationAssumptions ==
    /\ Templates \subseteq [volume : Volumes, days : Days]
    /\ None \notin Services \cup Names \cup Volumes \cup Days \cup Panels

VARIABLES
    fsm,            \* state of the conversation
    data,           \* its data
    task,           \* the handler tasks and what they have read
    shown,          \* the last question of each kind that asks for a confirmation
    asked,          \* the service whose field was asked for last
    crossed         \* TRUE once an update came while another was being handled

vars == <<fsm, data, task, shown, asked, crossed>>

Kinds == {"add", "reduce"}
VolumeState == [add |-> "add_volume", reduce |-> "reduce_volume"]
ConfirmState == [add |-> "add_confirm", reduce |-> "reduce_confirm"]
Fields == {"add_days", "set_date", "limit_ip", "comment"}
CreateStates == {"pick_panel", "volume", "expiry", "client_name", "confirm"}
States == CreateStates \cup Fields \cup {"none", "query", "add_volume", "reduce_volume",
                                         "add_confirm", "reduce_confirm"}

Data == [email : Services \cup {None}, panel : Panels \cup {None}, volume : Volumes \cup {None},
         days : Days \cup {None}, suffix : Names \cup {None}, create_locked : BOOLEAN]
NoData == [email |-> None, panel |-> None, volume |-> None, days |-> None,
           suffix |-> None, create_locked |-> FALSE]

(* A draft of a service and a change of a volume, as the data holds them;  *)
(* a draft without days has no expiry.                                     *)
Draft == [panel : Panels, volume : Volumes, days : Days \cup {None}, suffix : Names]
Change == [email : Services, volume : Volumes]
DraftOf(d) == [panel |-> d.panel, volume |-> d.volume, days |-> d.days, suffix |-> d.suffix]
ChangeOf(d) == [email |-> d.email, volume |-> d.volume]
HasDraft(d) == d.panel # None /\ d.volume # None /\ d.suffix # None
HasChange(d) == d.email # None /\ d.volume # None

(* A handler at a step, with the keys of the data it has read.             *)
Steps == {"idle", "options", "panel", "template", "expiry", "name", "preview", "create",
          "show", "change"}
Job(step, kind, d) == [pc |-> step, kind |-> kind, email |-> d.email, panel |-> d.panel,
                       volume |-> d.volume, days |-> d.days, suffix |-> d.suffix]
Idle == Job("idle", "none", NoData)
Task == [pc : Steps, kind : Kinds \cup Fields \cup {"none"}, email : Services \cup {None},
         panel : Panels \cup {None}, volume : Volumes \cup {None}, days : Days \cup {None},
         suffix : Names \cup {None}]

(* What the steps of a handler rely on.                                    *)
HasWhatItNeeds(j) ==
    /\ j.pc = "panel" => j.panel # None
    /\ j.pc = "template" => j.volume # None
    /\ j.pc = "name" => j.suffix # None
    /\ j.pc \in {"preview", "create"} => HasDraft(j)
    /\ j.pc = "show" => j.kind \in Kinds /\ HasChange(j)
    /\ j.pc = "change" =>
        /\ j.kind \in Kinds \cup Fields
        /\ j.email # None
        /\ j.kind \in Kinds => j.volume # None

(* Types; a handler that shows, creates or changes something has all it    *)
(* needs for it, so none works with a key the data did not have.           *)
TypeOK ==
    /\ fsm \in States
    /\ data \in Data
    /\ task \in [Tasks -> Task]
    /\ \A t \in Tasks : HasWhatItNeeds(task[t])
    /\ shown \in [create : Draft \cup {None}, add : Change \cup {None}, reduce : Change \cup {None}]
    /\ asked \in Services \cup {None}
    /\ crossed \in BOOLEAN

Init ==
    /\ fsm = "none"
    /\ data = NoData
    /\ task = [t \in Tasks |-> Idle]
    /\ shown = [create |-> None, add |-> None, reduce |-> None]
    /\ asked = None
    /\ crossed = FALSE

-----------------------------------------------------------------------------
(* A handler begins with an update: at work it goes on as j, or it is done *)
(* at once when j is Idle.                                                 *)
Begin(t, j) ==
    /\ task[t] = Idle
    /\ task' = [task EXCEPT ![t] = j]
    /\ crossed' = (crossed \/ \E u \in Tasks : task[u] # Idle)
AtOnce(t) == Begin(t, Idle)

(* A handler goes on, or ends. *)
Goto(t, j) == task' = [task EXCEPT ![t] = j] /\ UNCHANGED crossed
End(t) == Goto(t, Idle)

(* FSMContext.clear *)
Clear == fsm' = "none" /\ data' = NoData

(* FSMContext.update_data, of one key and of the draft *)
Put(key, v) == data' = [data EXCEPT ![key] = v]

-----------------------------------------------------------------------------
(* Creating a service.                                                     *)

(* start_create, after it has found the reseller active *)
StartCreate(t) ==
    /\ Begin(t, Job("options", "none", NoData))
    /\ Clear
    /\ UNCHANGED <<shown, asked>>

(* _continue_create_flow: with templates the answer is a button and the    *)
(* state stays what it was *)
ContinueCreate(p) ==
    /\ Put("panel", p)
    /\ \/ fsm' = "volume"
       \/ Templates # {} /\ UNCHANGED fsm

(* _prompt_pick_panel_or_continue: the panels that can be reached *)
OfferPanels(t) ==
    /\ task[t].pc = "options"
    /\ \/ UNCHANGED <<fsm, data>>
       \/ \E p \in Panels : ContinueCreate(p)
       \/ (\E p, q \in Panels : p # q) /\ fsm' = "pick_panel" /\ UNCHANGED data
    /\ End(t)
    /\ UNCHANGED <<shown, asked>>

(* mistake: the panel is taken to be there *)
CreateManualAnyway(t) ==
    /\ AtOnce(t)
    /\ fsm' = "volume"
    /\ UNCHANGED <<data, shown, asked>>

(* create_manual, after it has found the reseller active *)
CreateManual(t) ==
    /\ \/ /\ data.panel = None
          /\ Clear
          /\ Begin(t, Job("options", "none", NoData))
       \/ /\ data.panel # None
          /\ fsm' = "volume"
          /\ AtOnce(t)
          /\ UNCHANGED data
    /\ UNCHANGED <<shown, asked>>

(* create_pick_panel: the state admits it, then the panel is looked up *)
PickPanel(t) ==
    /\ fsm = "pick_panel"
    /\ \E p \in Panels : Begin(t, Job("panel", "none", [NoData EXCEPT !.panel = p]))
    /\ UNCHANGED <<fsm, data, shown, asked>>
SetPanel(t) ==
    /\ task[t].pc = "panel"
    /\ \/ ContinueCreate(task[t].panel)
       \/ UNCHANGED <<fsm, data>>
    /\ End(t)
    /\ UNCHANGED <<shown, asked>>

(* create_from_template: the panel is read before the template *)
PickTemplate(t) ==
    /\ \E e \in Templates :
        Begin(t, Job("template", "none",
                     [NoData EXCEPT !.panel = data.panel, !.volume = e.volume, !.days = e.days]))
    /\ UNCHANGED <<fsm, data, shown, asked>>

(* mistake: the name is asked for without its state *)
StoreTemplateOnly(t) ==
    /\ data' = [data EXCEPT !.panel = task[t].panel, !.volume = task[t].volume,
                            !.days = task[t].days]
    /\ UNCHANGED fsm

StoreTemplate(t) ==
    /\ data' = [data EXCEPT !.panel = task[t].panel, !.volume = task[t].volume,
                            !.days = task[t].days]
    /\ fsm' = "client_name"

(* ... the template is gone; the panel was not there; or both are stored. *)
UseTemplate(t) ==
    /\ task[t].pc = "template"
    /\ \/ UNCHANGED <<fsm, data>> /\ End(t)
       \/ /\ task[t].panel = None
          /\ Clear
          /\ Goto(t, Job("options", "none", NoData))
       \/ /\ task[t].panel # None
          /\ StoreTemplate(t)
          /\ End(t)
    /\ UNCHANGED <<shown, asked>>

(* process_volume *)
GiveVolume(t) ==
    /\ fsm = "volume"
    /\ \E v \in Volumes : Put("volume", v)
    /\ fsm' = "expiry"
    /\ AtOnce(t)
    /\ UNCHANGED <<shown, asked>>

(* process_expiry: the reseller is looked up before the days are stored *)
GiveDays(t) ==
    /\ fsm = "expiry"
    /\ \E n \in Days : Begin(t, Job("expiry", "none", [NoData EXCEPT !.days = n]))
    /\ UNCHANGED <<fsm, data, shown, asked>>
SetDays(t) ==
    /\ task[t].pc = "expiry"
    /\ \/ Clear
       \/ Put("days", task[t].days) /\ fsm' = "client_name"
    /\ End(t)
    /\ UNCHANGED <<shown, asked>>

(* process_client_name, create_auto_name *)
GiveName(t) ==
    /\ fsm = "client_name"
    /\ \E n \in Names : Begin(t, Job("name", "none", [NoData EXCEPT !.suffix = n]))
    /\ UNCHANGED <<fsm, data, shown, asked>>

(* The name is stored and _show_create_confirm reads the draft; without a  *)
(* volume it raises, without a panel it answers, and the handler ends.     *)
ReadDraft(t) ==
    LET named == [data EXCEPT !.suffix = task[t].suffix]
    IN  /\ task[t].pc = "name"
        /\ \/ Clear /\ End(t)
           \/ /\ data' = named
              /\ UNCHANGED fsm
              /\ \/ HasDraft(named) /\ Goto(t, Job("preview", "none", [named EXCEPT !.email = None]))
                 \/ ~HasDraft(named) /\ End(t)
        /\ UNCHANGED <<shown, asked>>

(* ... looks up the assignment and the name, and asks for a confirmation   *)
(* of what it has read.                                                    *)
ShowDraft(t) ==
    /\ task[t].pc = "preview"
    /\ \/ UNCHANGED <<fsm, shown>>
       \/ fsm' = "client_name" /\ UNCHANGED shown
       \/ fsm' = "confirm" /\ shown' = [shown EXCEPT !.create = DraftOf(task[t])]
    /\ End(t)
    /\ UNCHANGED <<data, asked>>

(* confirm_create, up to the reading of the reseller: a locked draft, and  *)
(* a press in another state, are only answered *)
ConfirmCreate(t) ==
    /\ fsm = "confirm"
    /\ ~data.create_locked
    /\ \/ /\ HasDraft(data)
          /\ Put("create_locked", TRUE)
          /\ UNCHANGED fsm
          /\ Begin(t, Job("create", "none", [data EXCEPT !.email = None]))
       \/ ~HasDraft(data) /\ Clear /\ AtOnce(t)
    /\ UNCHANGED <<shown, asked>>

(* ... and its end: created or not a reseller, refused by the panel or the *)
(* quota, or ended by another exception.                                   *)
EndCreate(t) ==
    /\ task[t].pc = "create"
    /\ \/ Clear
       \/ Put("create_locked", FALSE) /\ UNCHANGED fsm
       \/ UNCHANGED <<fsm, data>>
    /\ End(t)
    /\ UNCHANGED <<shown, asked>>

-----------------------------------------------------------------------------
(* Adding and reducing volume: the same handlers for k = "add" and for     *)
(* k = "reduce".                                                           *)

(* mistake: the state of the dialogue before is kept *)
OpenMenuOnly(t, k, e) ==
    /\ data' = [NoData EXCEPT !.email = e]
    /\ AtOnce(t)
    /\ UNCHANGED <<fsm, shown, asked>>

(* add_traffic_menu, reduce_traffic_menu *)
OpenMenu(t, k, e) ==
    /\ fsm' = "none"
    /\ data' = [NoData EXCEPT !.email = e]
    /\ AtOnce(t)
    /\ UNCHANGED <<shown, asked>>

(* mistake: the service is taken to be there *)
PickVolumeAnyway(t, k) ==
    /\ \E v \in Volumes : Begin(t, Job("show", k, [NoData EXCEPT !.email = data.email, !.volume = v]))
    /\ UNCHANGED <<fsm, data, shown, asked>>

(* add_traffic_quick_volume, reduce_traffic_quick_volume *)
PickVolume(t, k) ==
    /\ data.email # None
    /\ \E v \in Volumes : Begin(t, Job("show", k, [NoData EXCEPT !.email = data.email, !.volume = v]))
    /\ UNCHANGED <<fsm, data, shown, asked>>

(* add_traffic_custom_start, reduce_traffic_custom_start *)
AskVolume(t, k) ==
    /\ data.email # None
    /\ fsm' = VolumeState[k]
    /\ AtOnce(t)
    /\ UNCHANGED <<data, shown, asked>>

(* add_traffic_custom_volume, reduce_traffic_custom_volume *)
TypeVolume(t, k) ==
    /\ fsm = VolumeState[k]
    /\ \/ PickVolume(t, k)
       \/ /\ data.email = None
          /\ Clear
          /\ AtOnce(t)
          /\ UNCHANGED <<shown, asked>>

(* _show_add_traffic_confirm, _show_reduce_traffic_confirm, after the      *)
(* service, the quota and the panel have been read *)
ShowChange(t) ==
    LET k == task[t].kind
    IN  /\ task[t].pc = "show"
        /\ \/ UNCHANGED <<fsm, data, shown>>
           \/ /\ data' = [data EXCEPT !.email = task[t].email, !.volume = task[t].volume]
              /\ fsm' = ConfirmState[k]
              /\ shown' = [shown EXCEPT ![k] = ChangeOf(task[t])]
        /\ End(t)
        /\ UNCHANGED asked

(* add_traffic_confirm, reduce_traffic_confirm: the button of some question *)
(* of this kind, in whatever state *)
ConfirmChange(t, k) ==
    /\ shown[k] # None
    /\ Clear
    /\ \/ /\ HasChange(data)
          /\ Begin(t, Job("change", k, [NoData EXCEPT !.email = data.email, !.volume = data.volume]))
       \/ ~HasChange(data) /\ AtOnce(t)
    /\ UNCHANGED <<shown, asked>>

(* The change of a service, a volume or a field, ends.                     *)
EndChange(t) ==
    /\ task[t].pc = "change"
    /\ End(t)
    /\ UNCHANGED <<fsm, data, shown, asked>>

-----------------------------------------------------------------------------
(* Expiry, limit and comment.                                              *)

(* expiry_start_add_days, expiry_start_set_date, service_edit_limit_start, *)
(* service_edit_comment_start *)
OpenField(t, f, e) ==
    /\ Put("email", e)
    /\ fsm' = f
    /\ asked' = e
    /\ AtOnce(t)
    /\ UNCHANGED shown

(* expiry_process_add_days, expiry_process_set_date,                       *)
(* service_edit_limit_input, service_edit_comment_input *)
GiveField(t, f) ==
    /\ fsm = f
    /\ Clear
    /\ \/ data.email # None /\ Begin(t, Job("change", f, [NoData EXCEPT !.email = data.email]))
       \/ data.email = None /\ AtOnce(t)
    /\ UNCHANGED <<shown, asked>>

-----------------------------------------------------------------------------
(* cancel_create, add_traffic_cancel, reduce_traffic_cancel, expiry_cancel *)
Dismiss(t) ==
    /\ Clear
    /\ AtOnce(t)
    /\ UNCHANGED <<shown, asked>>

(* expiry_set_unlimited: the button carries the service *)
SetUnlimited(t, e) ==
    /\ Clear
    /\ Begin(t, Job("change", "set_date", [NoData EXCEPT !.email = e]))
    /\ UNCHANGED <<shown, asked>>

(* service_search_start *)
Search(t) ==
    /\ fsm' = "query"
    /\ AtOnce(t)
    /\ UNCHANGED <<data, shown, asked>>

(* service_search_input, service_search_cancel *)
StopSearch(t) ==
    /\ fsm' = "none"
    /\ AtOnce(t)
    /\ UNCHANGED <<data, shown, asked>>

(* The process ends: the conversation and its handlers go, the messages    *)
(* stay.                                                                   *)
Crash ==
    /\ Clear
    /\ task' = [t \in Tasks |-> Idle]
    /\ UNCHANGED <<shown, asked, crossed>>

Creating(t) ==
    \/ StartCreate(t) \/ OfferPanels(t) \/ CreateManual(t)
    \/ PickPanel(t) \/ SetPanel(t) \/ PickTemplate(t) \/ UseTemplate(t)
    \/ GiveVolume(t) \/ GiveDays(t) \/ SetDays(t) \/ GiveName(t)
    \/ ReadDraft(t) \/ ShowDraft(t) \/ ConfirmCreate(t) \/ EndCreate(t)

Changing(t) ==
    \/ \E k \in Kinds :
        \/ \E e \in Services : OpenMenu(t, k, e)
        \/ PickVolume(t, k) \/ AskVolume(t, k) \/ TypeVolume(t, k) \/ ConfirmChange(t, k)
    \/ ShowChange(t) \/ EndChange(t)

Editing(t) ==
    \E f \in Fields :
        \/ \E e \in Services : OpenField(t, f, e)
        \/ GiveField(t, f)

Leaving(t) ==
    \/ Dismiss(t) \/ Search(t) \/ StopSearch(t)
    \/ \E e \in Services : SetUnlimited(t, e)

Next ==
    \/ \E t \in Tasks : Creating(t) \/ Changing(t) \/ Editing(t) \/ Leaving(t)
    \/ Crash

Spec == Init /\ [][Next]_vars

-----------------------------------------------------------------------------
(* An answer typed for the days, the date, the limit or the comment goes   *)
(* to the service whose dialogue was opened last, however buttons of other *)
(* services and of other dialogues were pressed in between, and however    *)
(* their handlers interleave (bot/handlers/reseller.py: every handler that *)
(* writes "email" also sets or clears the state).                          *)
AnswerGoesToAsked == fsm \in Fields => data.email = asked

(* As long as updates do not cross, the state of the create dialogue never *)
(* runs ahead of its data: whichever buttons of whichever dialogue are     *)
(* pressed, a question about a name is about a draft that has a panel and  *)
(* a volume, so _show_create_confirm finds data["volume_gb"].              *)
DraftComplete ==
    ~crossed =>
        /\ fsm \in {"volume", "expiry", "client_name", "confirm"} => data.panel # None
        /\ fsm \in {"expiry", "client_name", "confirm"} => data.volume # None
        /\ fsm = "confirm" => data.suffix # None

(* As long as updates do not cross, a confirmation creates the service     *)
(* that the last question about a new service has shown, also when it is   *)
(* given on an older message (confirm_create, confirm_create_stale).       *)
CreatedAsShown ==
    ~crossed => \A t \in Tasks : task[t].pc = "create" => DraftOf(task[t]) = shown.create

(* A confirmation adds or reduces the volume, and of the service, that the *)
(* last question of its kind has shown (bot/texts/fa.py: ADD_TRAFFIC_CONFIRM, *)
(* REDUCE_TRAFFIC_CONFIRM).  The buttons carry neither, and the handlers   *)
(* are not bound to a state.                                               *)
ChangedAsShown ==
    ~crossed =>
        \A t \in Tasks : task[t].pc = "change" /\ task[t].kind \in Kinds =>
                             ChangeOf(task[t]) = shown[task[t].kind]
=============================================================================
