---------------------- MODULE AdminConversationProofs ----------------------
(***************************************************************************)
(* Proofs about AdminConversation for every value of its constants: any    *)
(* number of resellers, panels and handlers that run at the same time.     *)
(***************************************************************************)
EXTENDS AdminConversation, TLAPS

Questions == [state : States, about : Data]
Work == [pc : Steps, read : Data]

(* The dialogues that never wait between what they store and what they ask. *)
Sure == {"edit_value", "panel_value", "edit_inbounds", "guest_inbounds", "panel_confirm",
         "template_confirm", "plan_confirm", "broadcast_confirm"}

(* A conversation in state s, with data d and the question q, after         *)
(* handlers have crossed or not: what the properties say of it.             *)
Unspoilt(s, d, q) ==
    /\ s \in {"inbounds", "confirm", "assign_inbounds"} => q = Asked(s, d)
    /\ s = "set_confirm" => q.about.reseller = d.label
    /\ s \in AddStates \ {"telegram_id"} => "telegram_id" \in d.given
    /\ s \in {"quota", "inbounds", "confirm", "assign_inbounds"} => d.panel # None
    /\ s \in {"inbounds", "confirm"} => "quota_gb" \in d.given
TalkSound(s, d, q, c) ==
    /\ s \in Sure => q = Asked(s, d)
    /\ s = "set_confirm" => q.state = s /\ q.about.new_panel = d.new_panel
    /\ Needed(s) \subseteq d.given
    /\ s \in {"edit_value", "edit_inbounds"} => d.reseller # None
    /\ s = "edit_inbounds" => d.kind = "attach" \/ d.panel # None
    /\ ~c => Unspoilt(s, d, q)

(* What a handler that waits has read is still so.                          *)
Fresh(j, d) ==
    /\ j.pc \in {"panels", "panel", "inbounds", "confirm"} => "telegram_id" \in d.given
    /\ j.pc \in {"inbounds", "confirm"} => "quota_gb" \in d.given
    /\ j.pc \in {"inbounds", "confirm", "assign"} => d.panel = j.read.panel
    /\ j.pc = "assign" => d.reseller = j.read.reseller
    /\ j.pc = "new_panel" => d.label = j.read.label
    /\ j.pc = "confirm" => /\ d.given = j.read.given /\ d.draft = j.read.draft
                           /\ d.selected = j.read.selected

(* The inductive invariant: until updates cross, one handler is at work.    *)
Uncrossed ==
    ~crossed => /\ \A t, u \in Tasks : task[t] = Idle \/ task[u] = Idle \/ t = u
                /\ \A t \in Tasks : Fresh(task[t], data)
Inv == TypeOK /\ TalkSound(fsm, data, question, crossed) /\ Uncrossed

-----------------------------------------------------------------------------
(* Records.                                                                *)

LEMMA NoDataTyped == NoData \in Data
  BY DEF NoData, Data

(* Data with another value for a key are data. *)
SomeKind == ValueKinds \cup PanelKinds \cup {"allowed", "attach", None}

LEMMA Edited ==
    ASSUME NEW d \in Data
    PROVE  /\ \A v \in Resellers \cup {None} : [d EXCEPT !.reseller = v] \in Data
           /\ \A v \in SomeKind : [d EXCEPT !.kind = v] \in Data
           /\ \A v \in Panels \cup {None} : [d EXCEPT !.panel = v] \in Data
           /\ \A v \in Panels \cup {None} : [d EXCEPT !.new_panel = v] \in Data
           /\ \A v \in {None} \cup SUBSET Inbounds : [d EXCEPT !.selected = v] \in Data
           /\ \A v \in Drafts \cup {None} : [d EXCEPT !.draft = v] \in Data
<1>1. \A v \in Resellers \cup {None} : [d EXCEPT !.reseller = v] \in Data
  BY DEF Data
<1>2. \A v \in SomeKind : [d EXCEPT !.kind = v] \in Data
  BY DEF Data, SomeKind
<1>3. \A v \in Panels \cup {None} : [d EXCEPT !.panel = v] \in Data
  BY DEF Data
<1>4. \A v \in Panels \cup {None} : [d EXCEPT !.new_panel = v] \in Data
  BY DEF Data
<1>5. \A v \in {None} \cup SUBSET Inbounds : [d EXCEPT !.selected = v] \in Data
  BY DEF Data
<1>6. \A v \in Drafts \cup {None} : [d EXCEPT !.draft = v] \in Data
  BY DEF Data
<1> QED
  BY <1>1, <1>2, <1>3, <1>4, <1>5, <1>6

LEMMA AskedTyped ==
    ASSUME NEW s \in States, NEW d \in Data
    PROVE  Asked(s, d) \in Questions
<1> DEFINE r == IF s \in {"edit_value", "edit_inbounds", "assign_inbounds", "set_confirm"}
                THEN d.reseller ELSE None
           k == IF s \in {"edit_value", "edit_inbounds", "panel_value"} THEN d.kind ELSE None
           p == IF s \in {"inbounds", "confirm", "panel_value", "assign_inbounds",
                          "guest_inbounds"} THEN d.panel ELSE None
           n == IF s = "set_confirm" THEN d.new_panel ELSE None
           c == IF s = "confirm" THEN d.selected ELSE None
           x == IF s \in {"confirm", "panel_confirm", "template_confirm", "plan_confirm",
                          "broadcast_confirm"} THEN d.draft ELSE None
           d1 == [NoData EXCEPT !.reseller = r]
           d2 == [d1 EXCEPT !.kind = k]
           d3 == [d2 EXCEPT !.panel = p]
           d4 == [d3 EXCEPT !.new_panel = n]
           d5 == [d4 EXCEPT !.selected = c]
           d6 == [d5 EXCEPT !.draft = x]
<1>1. /\ r \in Resellers \cup {None} /\ k \in SomeKind
      /\ p \in Panels \cup {None} /\ n \in Panels \cup {None}
      /\ c \in {None} \cup SUBSET Inbounds /\ x \in Drafts \cup {None}
  BY DEF Data, SomeKind
<1>2. About(s, d) = d6
  BY DEF About
<1> HIDE DEF r, k, p, n, c, x, d1, d2, d3, d4, d5, d6
<1>3. d1 \in Data
  BY <1>1, NoDataTyped, Edited DEF d1
<1>4. d2 \in Data
  BY <1>1, <1>3, Edited DEF d2
<1>5. d3 \in Data
  BY <1>1, <1>4, Edited DEF d3
<1>6. d4 \in Data
  BY <1>1, <1>5, Edited DEF d4
<1>7. d5 \in Data
  BY <1>1, <1>6, Edited DEF d5
<1>8. d6 \in Data
  BY <1>1, <1>7, Edited DEF d6
<1> QED
  BY <1>2, <1>8 DEF Asked, Questions

JobSound(j) == j \in Work /\ HasWhatItNeeds(j)

LEMMA JobTyped ==
    ASSUME NEW s \in Steps, NEW d \in Data
    PROVE  Job(s, d) \in Work /\ Job(s, d).pc = s /\ Job(s, d).read = d
  BY DEF Job, Work

(* The jobs that rely on nothing.                                          *)
LEMMA RestSound ==
    /\ JobSound(Idle) /\ JobSound(Done) /\ JobSound(Job("panels", NoData))
    /\ Idle.pc = "idle" /\ Done.pc = "end" /\ Job("panels", NoData).pc = "panels"
<1>1. \A s \in {"idle", "end", "panels"} : JobSound(Job(s, NoData)) /\ Job(s, NoData).pc = s
  BY NoDataTyped, JobTyped DEF JobSound, HasWhatItNeeds, Steps
<1> QED
  BY <1>1 DEF Idle, Done

-----------------------------------------------------------------------------
(* What a step of handler t must give for the invariant to hold after it.  *)
TaskStep(t) ==
    /\ \E j : /\ JobSound(j)
              /\ task' = [task EXCEPT ![t] = j]
              /\ ~crossed' => Fresh(j, data') /\ \A u \in Tasks \ {t} : task[u] = Idle
    /\ crossed' \in BOOLEAN
    /\ crossed => crossed'
TalkStep ==
    /\ fsm' \in States
    /\ data' \in Data
    /\ question' \in Questions
    /\ TalkSound(fsm', data', question', crossed')

LEMMA StepKeeps ==
    ASSUME Inv, NEW t \in Tasks, TaskStep(t), TalkStep
    PROVE  Inv'
<1>1. PICK j : /\ JobSound(j)
               /\ task' = [task EXCEPT ![t] = j]
               /\ ~crossed' => Fresh(j, data') /\ \A u \in Tasks \ {t} : task[u] = Idle
  BY DEF TaskStep
<1>2. task' \in [Tasks -> Work] /\ \A u \in Tasks : HasWhatItNeeds(task'[u])
  BY <1>1 DEF Inv, TypeOK, JobSound, Work
<1>3. TypeOK'
  BY <1>2 DEF TypeOK, TaskStep, TalkStep, Questions, Work
<1>4. TalkSound(fsm, data, question, crossed)'
  BY DEF TalkStep
<1>5. ASSUME ~crossed'
      PROVE  /\ \A v, u \in Tasks : task'[v] = Idle \/ task'[u] = Idle \/ v = u
             /\ \A u \in Tasks : Fresh(task'[u], data')
  <2>1. /\ task'[t] = j /\ Fresh(j, data')
        /\ \A u \in Tasks \ {t} : task'[u] = Idle
    BY <1>1, <1>5 DEF Inv, TypeOK
  <2>2. Fresh(Idle, data')
    BY RestSound DEF Fresh
  <2> QED
    BY <2>1, <2>2
<1>6. Uncrossed'
  BY <1>5 DEF Uncrossed
<1> QED
  BY <1>3, <1>4, <1>6 DEF Inv

(* A handler begins. *)
LEMMA BeginStep ==
    ASSUME Inv, NEW t \in Tasks, NEW j, JobSound(j), Begin(t, j), ~crossed => Fresh(j, data')
    PROVE  TaskStep(t)
  BY DEF Begin, TaskStep, Inv, TypeOK

LEMMA AtOnceStep ==
    ASSUME Inv, NEW t \in Tasks, AtOnce(t)
    PROVE  TaskStep(t)
<1>1. Fresh(Idle, data')
  BY RestSound DEF Fresh
<1> QED
  BY <1>1, BeginStep, RestSound DEF AtOnce

(* It asked for something to be saved. *)
LEMMA DoneStep ==
    ASSUME Inv, NEW t \in Tasks, Begin(t, Done)
    PROVE  TaskStep(t)
<1>1. Fresh(Done, data')
  BY RestSound DEF Fresh
<1> QED
  BY <1>1, BeginStep, RestSound

(* It ends. *)
LEMMA StopStep ==
    ASSUME Inv, NEW t \in Tasks, task[t].pc # "idle", Stop(t)
    PROVE  TaskStep(t)
<1>1. Fresh(Idle, data')
  BY RestSound DEF Fresh
<1>2. task[t] # Idle
  BY RestSound
<1>3. ~crossed => \A u \in Tasks \ {t} : task[u] = Idle
  BY <1>2 DEF Inv, Uncrossed
<1> QED
  BY <1>1, <1>3, RestSound DEF Stop, Goto, TaskStep, Inv, TypeOK

-----------------------------------------------------------------------------
(* What happens to the conversation.                                       *)

LEMMA AskStep ==
    ASSUME NEW s \in States, NEW d \in Data, NEW known \in Data, AskAbout(s, d, known),
           TalkSound(s, d, Asked(s, known), crossed')
    PROVE  TalkStep
  BY AskedTyped DEF AskAbout, TalkStep

(* States whose question relies on nothing. *)
Plain == {"none", "telegram_id", "panel_name", "template_volume", "plan_volume", "message",
          "set_reseller", "set_panel", "assign_panel", "guest_panel"}
         \cup CardStates \cup FileStates

LEMMA PlainSound ==
    ASSUME NEW s \in Plain, NEW d, NEW q, NEW c
    PROVE  s \in States /\ TalkSound(s, d, q, c)
<1>1. s \in States
  BY DEF Plain, States, CardStates, FileStates, AddStates, PanelSteps, TemplateSteps, PlanSteps,
         Answered
<1>2. Needed(s) = {}
  BY DEF Plain, CardStates, FileStates, Needed
<1>3. /\ s \notin Sure /\ s \notin AddStates \ {"telegram_id"}
      /\ s # "assign_inbounds" /\ s # "set_confirm"
  BY DEF Plain, CardStates, FileStates, Sure, AddStates
<1>4. s \notin {"inbounds", "confirm", "quota", "edit_value", "edit_inbounds"}
  BY <1>3 DEF Sure, AddStates
<1> QED
  BY <1>1, <1>2, <1>3, <1>4 DEF TalkSound, Unspoilt

LEMMA PlainStep ==
    ASSUME NEW s \in Plain, NEW d \in Data, NEW known \in Data, AskAbout(s, d, known)
    PROVE  TalkStep
<1> DEFINE q == Asked(s, known)
           c == crossed'
<1> HIDE DEF q, c
<1>1. s \in States /\ TalkSound(s, d, q, c)
  BY PlainSound
<1> QED
  BY <1>1, AskStep DEF q, c

LEMMA ClearStep == ASSUME Clear PROVE TalkStep
<1>1. "none" \in Plain
  BY DEF Plain
<1> QED
  BY <1>1, PlainStep, NoDataTyped DEF Clear, Ask

LEMMA KeptStep ==
    ASSUME Inv, UNCHANGED talk, crossed => crossed'
    PROVE  TalkStep
  BY DEF Inv, TypeOK, talk, TalkStep, TalkSound, Questions

LEMMA StoreStep ==
    ASSUME Inv, NEW d \in Data, Store(d), TalkSound(fsm, d, question, crossed')
    PROVE  TalkStep
  BY DEF Inv, TypeOK, Store, TalkStep, Questions

LEMMA BeginCrosses == ASSUME NEW t, NEW j, Begin(t, j) PROVE crossed => crossed'
  BY DEF Begin

(* The whole of the steps many handlers share. *)
LEMMA LeaveStep ==
    ASSUME Inv, NEW t \in Tasks, Leave(t)
    PROVE  Inv'
  BY AtOnceStep, ClearStep, StepKeeps DEF Leave

LEMMA SubmitStep ==
    ASSUME Inv, NEW t \in Tasks, Begin(t, Done), UNCHANGED talk
    PROVE  Inv'
  BY DoneStep, BeginCrosses, KeptStep, StepKeeps

LEMMA PlainBegins ==
    ASSUME Inv, NEW t \in Tasks, AtOnce(t), NEW s \in Plain, NEW d \in Data, Ask(s, d)
    PROVE  Inv'
  BY AtOnceStep, PlainStep, StepKeeps DEF Ask

LEMMA FinishStep == ASSUME Inv, NEW t \in Tasks, Finish(t) PROVE Inv'
<1>1. TaskStep(t) /\ (crossed => crossed')
  BY StopStep DEF Finish, TaskStep
<1>2. TalkStep
  BY <1>1, ClearStep, KeptStep DEF Finish
<1> QED
  BY <1>1, <1>2, StepKeeps

LEMMA CrashStep == ASSUME Inv, Crash PROVE Inv'
<1>1. TalkStep
  BY ClearStep DEF Crash
<1>2. /\ task' = [t \in Tasks |-> Idle]
      /\ crossed' = crossed
  BY DEF Crash
<1>3. TypeOK'
  BY <1>1, <1>2, RestSound DEF TypeOK, TalkStep, Questions, Inv, JobSound, Work
<1>4. Fresh(Idle, data')
  BY RestSound DEF Fresh
<1>5. Uncrossed'
  BY <1>2, <1>4 DEF Uncrossed
<1> QED
  BY <1>1, <1>3, <1>5 DEF Inv, TalkStep

-----------------------------------------------------------------------------
(* The dialogues, one action after the other.                              *)

LEMMA Known ==
    ASSUME Inv, NEW t \in Tasks
    PROVE  /\ fsm \in States /\ data \in Data
           /\ task[t] \in Work /\ task[t].pc \in Steps /\ task[t].read \in Data
           /\ HasWhatItNeeds(task[t])
           /\ TalkSound(fsm, data, question, crossed)
           /\ ~crossed => Fresh(task[t], data)
  BY DEF Inv, TypeOK, Work, Uncrossed

(* A handler that only keeps what it was sent. *)
LEMMA ReadStep ==
    ASSUME Inv, NEW t \in Tasks, NEW j, JobSound(j), Begin(t, j), UNCHANGED talk,
           ~crossed => Fresh(j, data)
    PROVE  Inv'
<1>1. data' = data
  BY DEF talk
<1> QED
  BY <1>1, BeginStep, BeginCrosses, KeptStep, StepKeeps

(* A handler that ends without a word. *)
LEMMA SilentStop ==
    ASSUME Inv, NEW t \in Tasks, task[t].pc # "idle", Stop(t), UNCHANGED talk \/ Clear
    PROVE  Inv'
<1>1. TaskStep(t)
  BY StopStep
<1>2. TalkStep
  BY <1>1, KeptStep, ClearStep DEF TaskStep
<1> QED
  BY <1>1, <1>2, StepKeeps

(* A handler that asks the next question, after a wait or at once. *)
LEMMA AnswerStep ==
    ASSUME Inv, NEW t \in Tasks, task[t].pc # "idle", Stop(t),
           NEW s \in States, NEW d \in Data, NEW known \in Data, AskAbout(s, d, known),
           TalkSound(s, d, Asked(s, known), crossed)
    PROVE  Inv'
<1>1. crossed' = crossed
  BY DEF Stop, Goto
<1>2. TalkStep
  BY <1>1, AskStep
<1> QED
  BY <1>2, StopStep, StepKeeps

LEMMA AskBegins ==
    ASSUME Inv, NEW t \in Tasks, AtOnce(t),
           NEW s \in States, NEW d \in Data, Ask(s, d),
           TalkSound(s, d, Asked(s, d), crossed')
    PROVE  Inv'
<1>1. TalkStep
  BY AskStep DEF Ask
<1> QED
  BY <1>1, AtOnceStep, StepKeeps

(* A button that ticks an inbound. *)
LEMMA ToggleStep ==
    ASSUME Inv, NEW t \in Tasks, NEW s \in PickStates, ToggleInbound(t, s)
    PROVE  Inv'
<1>1. PICK i \in Inbounds : Store([data EXCEPT !.selected = Toggled(i)])
  BY DEF ToggleInbound
<1> DEFINE d == [data EXCEPT !.selected = Toggled(i)]
<1>2. data \in Data /\ fsm = s /\ TalkSound(fsm, data, question, crossed)
  BY Known DEF ToggleInbound
<1>3. Toggled(i) \subseteq Inbounds
  BY <1>2 DEF Toggled, Data
<1>4. /\ d \in Data /\ d.given = data.given /\ d.reseller = data.reseller
      /\ d.kind = data.kind /\ d.panel = data.panel
  BY <1>2, <1>3 DEF Data
<1>5. s # "confirm" /\ s \notin AddStates \ {"inbounds"} /\ Needed(s) = {}
  BY DEF PickStates, AddStates, Needed
<1>6. Asked(s, d) = Asked(s, data)
  BY <1>4, <1>5 DEF Asked, About, PickStates
<1>7. crossed => crossed'
  BY DEF ToggleInbound, AtOnce, Begin
<1>8. TalkSound(fsm, d, question, crossed')
  BY <1>2, <1>4, <1>5, <1>6, <1>7 DEF TalkSound, Unspoilt
<1> QED
  BY <1>1, <1>4, <1>8, StoreStep, AtOnceStep, StepKeeps DEF ToggleInbound

LEMMA AddingStep ==
    ASSUME Inv, NEW t \in Tasks, AddingReseller(t)
    PROVE  Inv'
<1> USE AdminAssumptions DEF AdminAssumptions
<1>k. /\ data \in Data /\ task[t].pc \in Steps /\ task[t].read \in Data
      /\ HasWhatItNeeds(task[t])
      /\ TalkSound(fsm, data, question, crossed) /\ (~crossed => Fresh(task[t], data))
  BY Known
<1>1. CASE StartReseller(t)
  BY <1>1, NoDataTyped, PlainBegins DEF StartReseller, Plain
<1>2. CASE GiveTelegramId(t)
  <2>1. PICK x \in Drafts : Begin(t, Job("telegram_id", [NoData EXCEPT !.draft = x]))
    BY <1>2 DEF GiveTelegramId
  <2> DEFINE d == [NoData EXCEPT !.draft = x]
             j == Job("telegram_id", d)
  <2>2. d \in Data /\ d.draft = x
    BY NoDataTyped DEF Data
  <2> HIDE DEF d
  <2>3. JobSound(j) /\ j.pc = "telegram_id"
    BY <2>2, JobTyped DEF JobSound, HasWhatItNeeds, Steps
  <2>4. Fresh(j, data)
    BY <2>3 DEF Fresh
  <2> HIDE DEF j
  <2> QED
    BY <1>2, <2>1, <2>3, <2>4, ReadStep DEF GiveTelegramId, d, j
<1>3. CASE StoreTelegramId(t)
  <2> DEFINE d == [data EXCEPT !.given = @ \cup {"telegram_id"}, !.draft = task[t].read.draft]
  <2>1. d \in Data /\ "telegram_id" \in d.given
    BY <1>k DEF Data, Keys
  <2> HIDE DEF d
  <2>2. CASE Clear
    BY <1>3, <2>2, SilentStop DEF StoreTelegramId
  <2>3. CASE Ask("display_name", d)
    <3>1. TalkSound("display_name", d, Asked("display_name", d), crossed')
      BY <2>1 DEF TalkSound, Sure, Needed, AddStates, Unspoilt
    <3>2. TalkStep
      BY <2>1, <2>3, <3>1, AskStep DEF Ask, States, AddStates
    <3> QED
      BY <1>3, <3>2, StopStep, StepKeeps DEF StoreTelegramId
  <2> QED
    BY <1>3, <2>2, <2>3 DEF StoreTelegramId, d
<1>4. CASE GiveResellerName(t)
  <2>1. PICK x \in Drafts : Store([data EXCEPT !.draft = x])
    BY <1>4 DEF GiveResellerName
  <2> DEFINE d == [data EXCEPT !.draft = x]
             j == Job("panels", NoData)
  <2>2. d \in Data /\ d.given = data.given
    BY <1>k DEF Data
  <2>3. ~crossed => "telegram_id" \in d.given
    BY <1>k, <1>4, <2>2 DEF GiveResellerName, TalkSound, Unspoilt, AddStates
  <2> HIDE DEF d
  <2>4. TalkSound("display_name", d, question, crossed')
    BY <1>4, <2>3, BeginCrosses
       DEF GiveResellerName, TalkSound, Sure, Needed, AddStates, Unspoilt
  <2>5. TalkStep
    BY <1>4, <2>1, <2>2, <2>4, StoreStep DEF GiveResellerName, d
  <2>6. ~crossed => Fresh(j, data')
    BY <2>1, <2>3, RestSound DEF Fresh, Store, d
  <2> QED
    BY <1>4, <2>5, <2>6, RestSound, BeginStep, StepKeeps DEF GiveResellerName
<1>5. CASE OfferPanels(t)
  <2>1. CASE Clear
    BY <1>5, <2>1, SilentStop DEF OfferPanels
  <2>2. CASE Ask("pick_panel", data)
    <3>1. TalkSound("pick_panel", data, Asked("pick_panel", data), crossed')
      BY <1>k, <1>5
         DEF OfferPanels, Stop, Goto, Fresh, TalkSound, Sure, Needed, AddStates, Unspoilt
    <3>2. TalkStep
      BY <1>k, <2>2, <3>1, AskStep DEF Ask, States, AddStates
    <3> QED
      BY <1>5, <3>2, StopStep, StepKeeps DEF OfferPanels
  <2> QED
    BY <1>5, <2>1, <2>2 DEF OfferPanels
<1>6. CASE PickResellerPanel(t)
  <2>1. PICK p \in Panels : Begin(t, Job("panel", [NoData EXCEPT !.panel = p]))
    BY <1>6 DEF PickResellerPanel
  <2> DEFINE d == [NoData EXCEPT !.panel = p]
             j == Job("panel", d)
  <2>2. d \in Data /\ d.panel = p
    BY NoDataTyped DEF Data
  <2> HIDE DEF d
  <2>3. JobSound(j) /\ j.pc = "panel"
    BY <2>2, JobTyped DEF JobSound, HasWhatItNeeds, Steps
  <2>4. ~crossed => Fresh(j, data)
    BY <1>k, <1>6, <2>3 DEF Fresh, PickResellerPanel, TalkSound, Unspoilt, AddStates
  <2> HIDE DEF j
  <2> QED
    BY <1>6, <2>1, <2>3, <2>4, ReadStep DEF PickResellerPanel, d, j
<1>7. CASE StoreResellerPanel(t)
  <2> DEFINE d == [data EXCEPT !.panel = task[t].read.panel]
  <2>1. d \in Data /\ d.given = data.given /\ d.panel # None
    BY <1>k, <1>7 DEF Data, StoreResellerPanel, HasWhatItNeeds
  <2>2. ~crossed => "telegram_id" \in d.given
    BY <1>k, <1>7, <2>1 DEF StoreResellerPanel, Fresh
  <2> HIDE DEF d
  <2>3. CASE UNCHANGED talk
    BY <1>7, <2>3, SilentStop DEF StoreResellerPanel
  <2>4. CASE Ask("quota", d)
    <3>1. TalkSound("quota", d, Asked("quota", d), crossed')
      BY <1>7, <2>1, <2>2
         DEF StoreResellerPanel, Stop, Goto, TalkSound, Sure, Needed, AddStates, Unspoilt
    <3>2. TalkStep
      BY <2>1, <2>4, <3>1, AskStep DEF Ask, States, AddStates
    <3> QED
      BY <1>7, <3>2, StopStep, StepKeeps DEF StoreResellerPanel
  <2> QED
    BY <1>7, <2>3, <2>4 DEF StoreResellerPanel, d
<1>8. CASE GiveQuota(t)
  <2>1. CASE data.panel = None /\ Clear /\ AtOnce(t)
    BY <2>1, LeaveStep DEF Leave
  <2>2. CASE /\ data.panel # None
             /\ \E x \in Drafts : Store([data EXCEPT !.given = @ \cup {"quota_gb"}, !.draft = x])
             /\ Begin(t, Job("inbounds", [NoData EXCEPT !.panel = data.panel]))
    <3>1. PICK x \in Drafts : Store([data EXCEPT !.given = @ \cup {"quota_gb"}, !.draft = x])
      BY <2>2
    <3> DEFINE d == [data EXCEPT !.given = @ \cup {"quota_gb"}, !.draft = x]
               r == [NoData EXCEPT !.panel = data.panel]
               j == Job("inbounds", r)
    <3>2. d \in Data /\ d.given = data.given \cup {"quota_gb"} /\ d.panel = data.panel
      BY <1>k DEF Data, Keys
    <3>3. r \in Data /\ r.panel = data.panel
      BY <1>k, NoDataTyped DEF Data
    <3>4. ~crossed => "telegram_id" \in d.given
      BY <1>k, <1>8, <3>2 DEF GiveQuota, TalkSound, Unspoilt, AddStates
    <3> HIDE DEF d, r
    <3>5. JobSound(j) /\ j.pc = "inbounds" /\ j.read = r
      BY <2>2, <3>3, JobTyped DEF JobSound, HasWhatItNeeds, Steps
    <3>6. TalkSound("quota", d, question, crossed')
      BY <2>2, <3>2, <3>4, BeginCrosses DEF TalkSound, Sure, Needed, AddStates, Unspoilt
    <3>7. TalkStep
      BY <1>8, <3>1, <3>2, <3>6, StoreStep DEF GiveQuota, d
    <3> HIDE DEF j
    <3>8. data' = d /\ Begin(t, j)
      BY <2>2, <3>1 DEF Store, d, j, r
    <3>9. ~crossed => Fresh(j, data')
      BY <3>2, <3>3, <3>4, <3>5, <3>8 DEF Fresh
    <3> QED
      BY <3>5, <3>7, <3>8, <3>9, BeginStep, StepKeeps
  <2> QED
    BY <1>8, <2>1, <2>2 DEF GiveQuota
<1>9. CASE ListInbounds(t)
  <2> DEFINE d == [data EXCEPT !.selected = {}]
             known == [data EXCEPT !.panel = task[t].read.panel]
  <2>1. /\ d \in Data /\ known \in Data /\ d.given = data.given /\ d.panel = data.panel
        /\ d.reseller = data.reseller /\ d.kind = data.kind
        /\ known.panel = task[t].read.panel
    BY <1>k DEF Data
  <2>2. ~crossed => /\ "telegram_id" \in d.given /\ "quota_gb" \in d.given
                    /\ d.panel = known.panel /\ d.panel # None
    BY <1>k, <1>9, <2>1 DEF ListInbounds, Fresh, HasWhatItNeeds
  <2> HIDE DEF d, known
  <2>3. CASE Clear
    BY <1>9, <2>3, SilentStop DEF ListInbounds
  <2>4. CASE AskAbout("inbounds", d, known)
    <3>1. ~crossed => Asked("inbounds", known) = Asked("inbounds", d)
      BY <2>2 DEF Asked, About
    <3>2. crossed' = crossed /\ Stop(t) /\ task[t].pc # "idle"
      BY <1>9 DEF ListInbounds, Stop, Goto
    <3>3. TalkSound("inbounds", d, Asked("inbounds", known), crossed)
      BY <2>2, <3>1 DEF TalkSound, Sure, Needed, AddStates, Unspoilt
    <3> QED
      BY <2>1, <2>4, <3>2, <3>3, AnswerStep DEF States, AddStates
  <2> QED
    BY <1>9, <2>3, <2>4 DEF ListInbounds, d, known
<1>10. CASE ConfirmReseller(t)
  <2> DEFINE d == [data EXCEPT !.reseller = None, !.label = None, !.kind = None,
                               !.new_panel = None]
             j == Job("confirm", d)
  <2>1. /\ d \in Data /\ d.given = data.given /\ d.panel = data.panel
        /\ d.draft = data.draft /\ d.selected = data.selected
    BY <1>k DEF Data
  <2>2. /\ fsm = "inbounds" /\ data.panel # None /\ data.selected \notin {None, {}}
        /\ Begin(t, j) /\ UNCHANGED talk
    BY <1>10 DEF ConfirmReseller, HasSelected
  <2> HIDE DEF d
  <2>3. JobSound(j) /\ j.pc = "confirm" /\ j.read = d
    BY <2>1, <2>2, JobTyped DEF JobSound, HasWhatItNeeds, Steps
  <2>4. ~crossed => Fresh(j, data)
    BY <1>k, <2>1, <2>2, <2>3 DEF Fresh, TalkSound, Unspoilt, AddStates
  <2> HIDE DEF j
  <2> QED
    BY <2>2, <2>3, <2>4, ReadStep
<1>11. CASE ShowReseller(t)
  <2> DEFINE read == task[t].read
  <2>1. /\ task[t].pc = "confirm" /\ Stop(t) /\ crossed' = crossed
        /\ read \in Data /\ read.panel # None
    BY <1>k, <1>11 DEF ShowReseller, Stop, Goto, HasWhatItNeeds
  <2>2. ~crossed => /\ "telegram_id" \in data.given /\ "quota_gb" \in data.given
                    /\ data.panel = read.panel /\ data.given = read.given
                    /\ data.draft = read.draft /\ data.selected = read.selected
    BY <1>k, <2>1 DEF Fresh
  <2> HIDE DEF read
  <2>3. CASE AskAbout("confirm", data, read)
    <3>1. ~crossed => Asked("confirm", read) = Asked("confirm", data)
      BY <2>2 DEF Asked, About
    <3>2. TalkSound("confirm", data, Asked("confirm", read), crossed)
      BY <2>1, <2>2, <3>1 DEF TalkSound, Sure, Needed, AddStates, Unspoilt
    <3> QED
      BY <1>k, <2>1, <2>3, <3>2, AnswerStep DEF States, AddStates
  <2>4. CASE ~(AddKeys \subseteq read.given) /\ fsm' = "confirm" /\ UNCHANGED <<data, question>>
    <3>1. crossed
      BY <2>2, <2>4 DEF AddKeys
    <3>2. TalkSound("confirm", data, question, crossed')
      BY <2>1, <3>1 DEF TalkSound, Sure, Needed
    <3>3. TalkStep
      BY <1>k, <2>4, <3>2 DEF TalkStep, States, AddStates, Inv, TypeOK, Questions
    <3> QED
      BY <2>1, <3>3, StopStep, StepKeeps
  <2> QED
    BY <1>11, <2>3, <2>4 DEF ShowReseller, read
<1>12. CASE SaveReseller(t)
  BY <1>12, SubmitStep DEF SaveReseller
<1>13. CASE ToggleInbound(t, "inbounds")
  BY <1>13, ToggleStep DEF PickStates
<1>14. CASE ResellerMenus(t)
  BY <1>14, LeaveStep DEF ResellerMenus
<1> QED
  BY <1>1, <1>2, <1>3, <1>4, <1>5, <1>6, <1>7, <1>8, <1>9, <1>10, <1>11, <1>12, <1>13, <1>14
     DEF AddingReseller

LEMMA AskValueStep ==
    ASSUME Inv, NEW t \in Tasks, NEW r \in Resellers, NEW k \in ValueKinds, AskValue(t, r, k)
    PROVE  Inv'
<1> DEFINE d == [data EXCEPT !.reseller = r, !.kind = k]
<1>1. d \in Data /\ d.reseller # None
  BY Known, AdminAssumptions DEF AdminAssumptions, Data
<1>2. AtOnce(t) /\ Ask("edit_value", d)
  BY DEF AskValue
<1> HIDE DEF d
<1>3. TalkSound("edit_value", d, Asked("edit_value", d), crossed')
  BY <1>1 DEF TalkSound, Sure, Needed, AddStates, Unspoilt
<1> QED
  BY <1>1, <1>2, <1>3, AskBegins DEF States

LEMMA EditingStep ==
    ASSUME Inv, NEW t \in Tasks, EditingReseller(t)
    PROVE  Inv'
<1>1. CASE EditMenus(t) \/ ResetQuota(t)
  BY <1>1, LeaveStep DEF EditMenus, ResetQuota
<1>2. CASE EditQuota(t)
  BY <1>2, LeaveStep, AskValueStep DEF EditQuota
<1>3. CASE EditNameOrLimit(t)
  BY <1>3, LeaveStep, AskValueStep DEF EditNameOrLimit
<1>4. CASE GiveValue(t)
  BY <1>4, SubmitStep DEF GiveValue
<1>5. CASE AskAllowed(t)
  <2>1. PICK r \in Resellers, p \in Panels, chosen \in SUBSET Inbounds :
            Ask("edit_inbounds", [data EXCEPT !.reseller = r, !.kind = "allowed",
                                              !.selected = chosen, !.panel = p])
    BY <1>5 DEF AskAllowed
  <2> DEFINE d == [data EXCEPT !.reseller = r, !.kind = "allowed", !.selected = chosen,
                               !.panel = p]
  <2>2. d \in Data /\ d.reseller # None /\ d.panel # None
    BY Known, AdminAssumptions DEF AdminAssumptions, Data
  <2> HIDE DEF d
  <2>3. TalkSound("edit_inbounds", d, Asked("edit_inbounds", d), crossed')
    BY <2>2 DEF TalkSound, Sure, Needed, AddStates, Unspoilt
  <2> QED
    BY <1>5, <2>1, <2>2, <2>3, AskBegins DEF AskAllowed, States, PickStates, d
<1>6. CASE AskAttach(t)
  <2>1. PICK r \in Resellers, chosen \in SUBSET Inbounds :
            Ask("edit_inbounds", [data EXCEPT !.reseller = r, !.kind = "attach",
                                              !.selected = chosen])
    BY <1>6 DEF AskAttach
  <2> DEFINE d == [data EXCEPT !.reseller = r, !.kind = "attach", !.selected = chosen]
  <2>2. d \in Data /\ d.reseller # None /\ d.kind = "attach"
    BY Known, AdminAssumptions DEF AdminAssumptions, Data
  <2> HIDE DEF d
  <2>3. TalkSound("edit_inbounds", d, Asked("edit_inbounds", d), crossed')
    BY <2>2 DEF TalkSound, Sure, Needed, AddStates, Unspoilt
  <2> QED
    BY <1>6, <2>1, <2>2, <2>3, AskBegins DEF AskAttach, States, PickStates, d
<1>7. CASE ToggleEdited(t)
  BY <1>7, ToggleStep DEF ToggleEdited, PickStates
<1>8. CASE SaveInbounds(t)
  BY <1>8, SubmitStep DEF SaveInbounds
<1> QED
  BY <1>1, <1>2, <1>3, <1>4, <1>5, <1>6, <1>7, <1>8 DEF EditingReseller

LEMMA SettingStep ==
    ASSUME Inv, NEW t \in Tasks, SettingPanel(t)
    PROVE  Inv'
<1>k. data \in Data /\ task[t].read \in Data /\ HasWhatItNeeds(task[t])
  BY Known
<1>1. CASE StartSetPanel(t)
  <2>1. TalkStep
    BY <1>1, NoDataTyped, PlainStep DEF StartSetPanel, Ask, Plain
  <2> QED
    BY <1>1, <2>1, DoneStep, StepKeeps DEF StartSetPanel
<1>2. CASE PickReseller(t)
  <2>1. CASE Clear
    BY <1>2, <2>1, LeaveStep DEF PickReseller, Leave
  <2>2. ASSUME NEW r \in Resellers, Ask("set_panel", [data EXCEPT !.reseller = r, !.label = r])
        PROVE  Inv'
    <3>1. [data EXCEPT !.reseller = r, !.label = r] \in Data
      BY <1>k DEF Data
    <3> QED
      BY <1>2, <2>2, <3>1, PlainBegins DEF PickReseller, Plain
  <2> QED
    BY <1>2, <2>1, <2>2 DEF PickReseller
<1>3. CASE PickNewPanel(t)
  <2>1. PICK p \in Panels :
            Begin(t, Job("new_panel", [NoData EXCEPT !.label = data.label, !.new_panel = p]))
    BY <1>3 DEF PickNewPanel
  <2> DEFINE labelled == [NoData EXCEPT !.label = data.label]
             d == [labelled EXCEPT !.new_panel = p]
             j == Job("new_panel", d)
  <2>a. labelled \in Data /\ labelled.label = data.label
    BY <1>k, NoDataTyped DEF Data
  <2> HIDE DEF labelled
  <2>2. d \in Data /\ d.new_panel # None /\ d.label = data.label
    BY <2>a, AdminAssumptions DEF AdminAssumptions, Data
  <2> HIDE DEF d
  <2>3. JobSound(j) /\ j.pc = "new_panel" /\ j.read = d
    BY <2>2, JobTyped DEF JobSound, HasWhatItNeeds, Steps
  <2>4. Fresh(j, data)
    BY <2>2, <2>3 DEF Fresh
  <2> HIDE DEF j
  <2> QED
    BY <1>3, <2>1, <2>3, <2>4, ReadStep DEF PickNewPanel, labelled, d, j
<1>4. CASE StoreNewPanel(t)
  <2> DEFINE stored == [data EXCEPT !.new_panel = task[t].read.new_panel]
             known == [stored EXCEPT !.reseller = task[t].read.label]
  <2>1. stored \in Data
    BY <1>k DEF Data
  <2>2. /\ known \in Data /\ stored.label = data.label
        /\ known.reseller = task[t].read.label /\ known.new_panel = stored.new_panel
    BY <1>k, <2>1 DEF Data
  <2> HIDE DEF known, stored
  <2>3. CASE UNCHANGED talk
    BY <1>4, <2>3, SilentStop DEF StoreNewPanel
  <2>4. CASE AskAbout("set_confirm", stored, known)
    <3> DEFINE q == Asked("set_confirm", known)
    <3>1. /\ q.state = "set_confirm" /\ q.about.new_panel = stored.new_panel
          /\ q.about.reseller = task[t].read.label
      BY <2>2 DEF Asked, About, NoData
    <3>2. ~crossed => task[t].read.label = data.label
      BY <1>4, Known DEF StoreNewPanel, Fresh
    <3> HIDE DEF q
    <3>3. TalkSound("set_confirm", stored, q, crossed)
      BY <2>2, <3>1, <3>2 DEF TalkSound, Sure, Needed, AddStates, Unspoilt
    <3> QED
      BY <1>4, <2>1, <2>2, <2>4, <3>3, AnswerStep DEF StoreNewPanel, States, q
  <2> QED
    BY <1>4, <2>3, <2>4 DEF StoreNewPanel, stored, known
<1>5. CASE CancelSetPanel(t)
  BY <1>5, LeaveStep DEF CancelSetPanel
<1>6. CASE SaveSetPanel(t)
  BY <1>6, SubmitStep DEF SaveSetPanel
<1> QED
  BY <1>1, <1>2, <1>3, <1>4, <1>5, <1>6 DEF SettingPanel

LEMMA AssigningStep ==
    ASSUME Inv, NEW t \in Tasks, AssigningPanel(t)
    PROVE  Inv'
<1>k. /\ data \in Data /\ task[t].read \in Data
      /\ HasWhatItNeeds(task[t]) /\ (~crossed => Fresh(task[t], data))
  BY Known
<1>1. CASE AssignMenus(t)
  BY <1>1, LeaveStep DEF AssignMenus
<1>2. CASE StartAssign(t)
  <2>1. PICK r \in Resellers :
            Ask("assign_panel", [data EXCEPT !.reseller = r, !.selected = {}])
    BY <1>2 DEF StartAssign
  <2>2. [data EXCEPT !.reseller = r, !.selected = {}] \in Data
    BY <1>k DEF Data
  <2> QED
    BY <1>2, <2>1, <2>2, PlainBegins DEF StartAssign, Plain
<1>3. CASE PickAssignPanel(t)
  <2>1. PICK r \in Resellers, p \in Panels :
          /\ Store([data EXCEPT !.reseller = r, !.panel = p])
          /\ \/ AtOnce(t)
             \/ Begin(t, Job("assign", [NoData EXCEPT !.reseller = r, !.panel = p]))
    BY <1>3 DEF PickAssignPanel
  <2> DEFINE d == [data EXCEPT !.reseller = r, !.panel = p]
             read == [NoData EXCEPT !.reseller = r, !.panel = p]
             j == Job("assign", read)
  <2>2. d \in Data /\ d.reseller = r /\ d.panel = p
    BY <1>k DEF Data
  <2>3. /\ read \in Data /\ read.reseller = r /\ read.panel = p
        /\ read.reseller # None /\ read.panel # None
    BY NoDataTyped, AdminAssumptions DEF AdminAssumptions, Data
  <2> HIDE DEF d, read
  <2>4. JobSound(j) /\ j.pc = "assign" /\ j.read = read
    BY <2>3, JobTyped DEF JobSound, HasWhatItNeeds, Steps
  <2>5. Fresh(j, d)
    BY <2>2, <2>3, <2>4 DEF Fresh
  <2> HIDE DEF j
  <2>6. fsm \in Plain
    BY <1>3 DEF PickAssignPanel, Plain
  <2> DEFINE q == question
             s == fsm
             c == crossed'
  <2> HIDE DEF q, s, c
  <2>7. TalkSound(s, d, q, c)
    BY <2>6, PlainSound DEF s
  <2>8. TalkStep
    BY <2>1, <2>2, <2>7, StoreStep DEF d, q, s, c
  <2>9. TaskStep(t)
    BY <2>1, <2>4, <2>5, AtOnceStep, BeginStep DEF d, j, read, Store
  <2> QED
    BY <2>8, <2>9, StepKeeps
<1>4. CASE ListAssign(t)
  <2> DEFINE d == [data EXCEPT !.selected = {}]
             known == [data EXCEPT !.reseller = task[t].read.reseller,
                                   !.panel = task[t].read.panel]
  <2>1. /\ d \in Data /\ known \in Data /\ d.panel = data.panel
        /\ d.reseller = data.reseller /\ known.panel = task[t].read.panel
        /\ known.reseller = task[t].read.reseller
    BY <1>k DEF Data
  <2>2. /\ task[t].pc = "assign" /\ Stop(t) /\ crossed' = crossed
        /\ known.panel # None
    BY <1>k, <1>4, <2>1 DEF ListAssign, Stop, Goto, HasWhatItNeeds
  <2>3. ~crossed => d.panel = known.panel /\ d.reseller = known.reseller
    BY <1>k, <2>1, <2>2 DEF Fresh
  <2> HIDE DEF d, known
  <2>4. CASE UNCHANGED talk
    BY <2>2, <2>4, SilentStop
  <2>5. CASE AskAbout("assign_inbounds", d, known)
    <3>1. ~crossed => Asked("assign_inbounds", known) = Asked("assign_inbounds", d)
      BY <2>3 DEF Asked, About
    <3>2. TalkSound("assign_inbounds", d, Asked("assign_inbounds", known), crossed)
      BY <2>2, <2>3, <3>1 DEF TalkSound, Sure, Needed, AddStates, Unspoilt
    <3> QED
      BY <2>1, <2>2, <2>5, <3>2, AnswerStep DEF States, PickStates
  <2> QED
    BY <1>4, <2>4, <2>5 DEF ListAssign, d, known
<1>5. CASE ToggleAssigned(t)
  BY <1>5, ToggleStep DEF ToggleAssigned, PickStates
<1>6. CASE SaveAssign(t)
  BY <1>6, SubmitStep DEF SaveAssign
<1> QED
  BY <1>1, <1>2, <1>3, <1>4, <1>5, <1>6 DEF AssigningPanel

(* What the answers of a wizard lead to. *)
Leads(steps) ==
    \A s \in DOMAIN steps :
        /\ steps[s].next \in States /\ steps[s].key \in Keys
        /\ Needed(steps[s].next) \subseteq Needed(s) \cup {steps[s].key}
        /\ steps[s].next \notin AddStates \cup {"assign_inbounds", "edit_value", "edit_inbounds"}
        /\ steps[s].next # "set_confirm"

LEMMA PanelLeads == Leads(PanelSteps)
<1>1. DOMAIN PanelSteps = {"panel_name", "panel_base_url", "panel_api_token", "panel_sub_url"}
  BY DEF PanelSteps
<1>2. /\ PanelSteps["panel_name"] = Answered("name", "panel_base_url")
      /\ PanelSteps["panel_base_url"] = Answered("base_url", "panel_api_token")
      /\ PanelSteps["panel_api_token"] = Answered("api_token", "panel_sub_url")
      /\ PanelSteps["panel_sub_url"] = Answered("sub_public_url", "panel_confirm")
  BY DEF PanelSteps
<1>3. {"panel_base_url", "panel_api_token", "panel_sub_url", "panel_confirm"} \subseteq States
  BY <1>1 DEF States
<1>4. /\ Needed("panel_base_url") = {"name"} /\ Needed("panel_api_token") = {"name", "base_url"}
      /\ Needed("panel_sub_url") = {"name", "base_url", "api_token"}
      /\ Needed("panel_confirm") = {"name", "base_url", "api_token"}
  BY DEF Needed, PanelKeys
<1> QED
  BY <1>1, <1>2, <1>3, <1>4 DEF Leads, Answered, Keys, AddStates

LEMMA TemplateLeads == Leads(TemplateSteps)
<1>1. DOMAIN TemplateSteps = {"template_volume", "template_expiry", "template_name"}
  BY DEF TemplateSteps
<1>2. /\ TemplateSteps["template_volume"] = Answered("volume_gb", "template_expiry")
      /\ TemplateSteps["template_expiry"] = Answered("expiry_days", "template_name")
      /\ TemplateSteps["template_name"] = Answered("name", "template_confirm")
  BY DEF TemplateSteps
<1>3. {"template_expiry", "template_name", "template_confirm"} \subseteq States
  BY <1>1 DEF States
<1>4. /\ Needed("template_expiry") = {"volume_gb"}
      /\ Needed("template_name") = {"volume_gb", "expiry_days"}
      /\ Needed("template_confirm") = {"volume_gb", "expiry_days", "name"}
  BY DEF Needed, TemplateKeys
<1> QED
  BY <1>1, <1>2, <1>3, <1>4 DEF Leads, Answered, Keys, AddStates

LEMMA PlanLeads == Leads(PlanSteps)
<1>1. DOMAIN PlanSteps = {"plan_volume", "plan_expiry", "plan_name", "plan_price"}
  BY DEF PlanSteps
<1>2. /\ PlanSteps["plan_volume"] = Answered("volume_gb", "plan_expiry")
      /\ PlanSteps["plan_expiry"] = Answered("expiry_days", "plan_name")
      /\ PlanSteps["plan_name"] = Answered("name", "plan_price")
      /\ PlanSteps["plan_price"] = Answered("price_toman", "plan_confirm")
  BY DEF PlanSteps
<1>3. {"plan_expiry", "plan_name", "plan_price", "plan_confirm"} \subseteq States
  BY <1>1 DEF States
<1>4. /\ Needed("plan_expiry") = {"volume_gb"}
      /\ Needed("plan_name") = {"volume_gb", "expiry_days"}
      /\ Needed("plan_price") = {"volume_gb", "expiry_days", "name"}
      /\ Needed("plan_confirm") = {"volume_gb", "expiry_days", "name", "price_toman"}
  BY DEF Needed, TemplateKeys
<1> QED
  BY <1>1, <1>2, <1>3, <1>4 DEF Leads, Answered, Keys, AddStates

LEMMA AnswersStep ==
    ASSUME Inv, NEW t \in Tasks, NEW steps, Leads(steps), Answer(t, steps)
    PROVE  Inv'
<1>1. PICK s \in DOMAIN steps, x \in Drafts :
        /\ fsm = s
        /\ Ask(steps[s].next, [data EXCEPT !.given = @ \cup {steps[s].key}, !.draft = x])
        /\ AtOnce(t)
  BY DEF Answer
<1> DEFINE d == [data EXCEPT !.given = @ \cup {steps[s].key}, !.draft = x]
           n == steps[s].next
           key == steps[s].key
<1>2. /\ n \in States /\ key \in Keys /\ Needed(n) \subseteq Needed(s) \cup {key}
      /\ n \notin AddStates \cup {"assign_inbounds", "edit_value", "edit_inbounds"}
      /\ n # "set_confirm"
  BY DEF Leads
<1>3. data \in Data /\ Needed(s) \subseteq data.given
  BY <1>1, Known DEF TalkSound
<1>4. d \in Data /\ d.given = data.given \cup {key}
  BY <1>2, <1>3 DEF Data
<1>5. AtOnce(t) /\ Ask(n, d)
  BY <1>1
<1> HIDE DEF d, n, key
<1>6. n \notin {"quota", "inbounds", "confirm"}
  BY <1>2 DEF AddStates
<1>7. TalkSound(n, d, Asked(n, d), crossed')
  BY <1>2, <1>3, <1>4, <1>6 DEF TalkSound, Unspoilt
<1> QED
  BY <1>2, <1>4, <1>5, <1>7, AskBegins

LEMMA SaveStep ==
    ASSUME Inv, NEW t \in Tasks, NEW state, NEW required, Save(t, state, required)
    PROVE  Inv'
  BY SubmitStep DEF Save

LEMMA DescribingStep ==
    ASSUME Inv, NEW t \in Tasks, Describing(t)
    PROVE  Inv'
<1>1. CASE StartPanel(t) \/ StartTemplate(t) \/ StartPlan(t)
  BY <1>1, NoDataTyped, PlainBegins DEF StartPanel, StartTemplate, StartPlan, Plain
<1>2. CASE AnswerPanel(t) \/ AnswerTemplate(t) \/ AnswerPlan(t)
  BY <1>2, AnswersStep, PanelLeads, TemplateLeads, PlanLeads
     DEF AnswerPanel, AnswerTemplate, AnswerPlan
<1>3. CASE SavePanel(t) \/ SaveTemplate(t) \/ SavePlan(t)
  BY <1>3, SaveStep DEF SavePanel, SaveTemplate, SavePlan
<1> QED
  BY <1>1, <1>2, <1>3 DEF Describing

LEMMA EditingPanelStep ==
    ASSUME Inv, NEW t \in Tasks, EditingPanel(t)
    PROVE  Inv'
<1>1. CASE PanelMenus(t)
  BY <1>1, LeaveStep DEF PanelMenus
<1>2. CASE AskPanelValue(t)
  <2>1. PICK p \in Panels, k \in PanelKinds :
            Ask("panel_value", [data EXCEPT !.panel = p, !.kind = k])
    BY <1>2 DEF AskPanelValue
  <2> DEFINE d == [data EXCEPT !.panel = p, !.kind = k]
  <2>2. d \in Data
    BY Known DEF Data
  <2> HIDE DEF d
  <2>3. TalkSound("panel_value", d, Asked("panel_value", d), crossed')
    BY DEF TalkSound, Sure, Needed, AddStates, Unspoilt
  <2> QED
    BY <1>2, <2>1, <2>2, <2>3, AskBegins DEF AskPanelValue, States, d
<1>3. CASE GivePanelValue(t)
  BY <1>3, SubmitStep, LeaveStep DEF GivePanelValue, Leave
<1> QED
  BY <1>1, <1>2, <1>3 DEF EditingPanel

LEMMA BroadcastingStep ==
    ASSUME Inv, NEW t \in Tasks, Broadcasting(t)
    PROVE  Inv'
<1>k. data \in Data /\ task[t].read \in Data /\ HasWhatItNeeds(task[t])
  BY Known
<1>1. CASE StartBroadcast(t)
  BY <1>1, NoDataTyped, PlainBegins DEF StartBroadcast, Plain
<1>2. CASE Compose(t)
  <2>1. PICK x \in Drafts : Begin(t, Job("compose", [NoData EXCEPT !.draft = x]))
    BY <1>2 DEF Compose
  <2> DEFINE d == [NoData EXCEPT !.draft = x]
             j == Job("compose", d)
  <2>2. d \in Data /\ d.draft # None
    BY NoDataTyped, AdminAssumptions DEF AdminAssumptions, Data
  <2> HIDE DEF d
  <2>3. JobSound(j) /\ j.pc = "compose"
    BY <2>2, JobTyped DEF JobSound, HasWhatItNeeds, Steps
  <2>4. Fresh(j, data)
    BY <2>3 DEF Fresh
  <2> HIDE DEF j
  <2> QED
    BY <1>2, <2>1, <2>3, <2>4, ReadStep DEF Compose, d, j
<1>3. CASE ShowBroadcast(t)
  <2> DEFINE d == [data EXCEPT !.given = @ \cup {"broadcast_text"}, !.draft = task[t].read.draft]
  <2>1. d \in Data /\ "broadcast_text" \in d.given
    BY <1>k DEF Data, Keys
  <2> HIDE DEF d
  <2>2. CASE Clear
    BY <1>3, <2>2, SilentStop DEF ShowBroadcast
  <2>3. CASE Ask("broadcast_confirm", d)
    <3>1. TalkSound("broadcast_confirm", d, Asked("broadcast_confirm", d), crossed)
      BY <2>1 DEF TalkSound, Needed, AddStates, Unspoilt
    <3> QED
      BY <1>3, <2>1, <2>3, <3>1, AnswerStep DEF ShowBroadcast, Ask, States
  <2> QED
    BY <1>3, <2>2, <2>3 DEF ShowBroadcast, d
<1>4. CASE SendBroadcast(t)
  BY <1>4, SubmitStep, LeaveStep DEF SendBroadcast, Leave
<1>5. CASE CancelBroadcast(t)
  BY <1>5, LeaveStep DEF CancelBroadcast
<1> QED
  BY <1>1, <1>2, <1>3, <1>4, <1>5 DEF Broadcasting

LEMMA SettingSalesStep ==
    ASSUME Inv, NEW t \in Tasks, SettingSales(t)
    PROVE  Inv'
<1>k. data \in Data /\ task[t].read \in Data /\ HasWhatItNeeds(task[t])
  BY Known
<1>1. CASE SalesMenus(t)
  BY <1>1, LeaveStep DEF SalesMenus
<1>2. CASE AskGuestPanel(t) \/ AskCard(t)
  BY <1>k, <1>2, PlainBegins DEF AskGuestPanel, AskCard, Plain
<1>3. CASE PickGuestPanel(t)
  <2>1. PICK p \in Panels : Begin(t, Job("guest_panel", [NoData EXCEPT !.panel = p]))
    BY <1>3 DEF PickGuestPanel
  <2> DEFINE d == [NoData EXCEPT !.panel = p]
             j == Job("guest_panel", d)
  <2>2. d \in Data /\ d.panel # None
    BY NoDataTyped, AdminAssumptions DEF AdminAssumptions, Data
  <2> HIDE DEF d
  <2>3. JobSound(j) /\ j.pc = "guest_panel"
    BY <2>2, JobTyped DEF JobSound, HasWhatItNeeds, Steps
  <2>4. Fresh(j, data)
    BY <2>3 DEF Fresh
  <2> HIDE DEF j
  <2> QED
    BY <1>3, <2>1, <2>3, <2>4, ReadStep DEF PickGuestPanel, d, j
<1>4. CASE ListGuestInbounds(t)
  <2> DEFINE d == [data EXCEPT !.panel = task[t].read.panel, !.selected = {}]
  <2>1. d \in Data
    BY <1>k DEF Data
  <2> HIDE DEF d
  <2>2. CASE Clear
    BY <1>4, <2>2, SilentStop DEF ListGuestInbounds
  <2>3. CASE Ask("guest_inbounds", d)
    <3>1. TalkSound("guest_inbounds", d, Asked("guest_inbounds", d), crossed)
      BY DEF TalkSound, Needed, AddStates, Unspoilt
    <3> QED
      BY <1>4, <2>1, <2>3, <3>1, AnswerStep DEF ListGuestInbounds, Ask, States, PickStates
  <2> QED
    BY <1>4, <2>2, <2>3 DEF ListGuestInbounds, d
<1>5. CASE ToggleSold(t)
  BY <1>5, ToggleStep DEF ToggleSold, PickStates
<1>6. CASE SaveGuestPanel(t) \/ GiveCard(t)
  BY <1>6, SubmitStep DEF SaveGuestPanel, GiveCard
<1> QED
  BY <1>1, <1>2, <1>3, <1>4, <1>5, <1>6 DEF SettingSales

LEMMA FileStep ==
    ASSUME Inv, NEW t \in Tasks, NEW s \in FileStates, AskFile(t, s) \/ GiveFile(t, s)
    PROVE  Inv'
<1>1. data \in Data
  BY Known
<1> QED
  BY <1>1, PlainBegins, SubmitStep DEF AskFile, GiveFile, Plain

LEMMA ReceivingStep ==
    ASSUME Inv, NEW t \in Tasks, Receiving(t)
    PROVE  Inv'
  BY LeaveStep, FileStep DEF Receiving, UpdateMenus, BackupMenus, RestoreFile, FileStates

-----------------------------------------------------------------------------
LEMMA InitInv == Init => Inv
<1> SUFFICES ASSUME Init PROVE Inv
  OBVIOUS
<1>1. "none" \in Plain
  BY DEF Plain
<1>2. "none" \in States
  BY DEF States
<1>3. fsm \in States /\ data \in Data /\ question \in Questions
  BY <1>2, NoDataTyped, AskedTyped DEF Init, NoQuestion
<1>4. task \in [Tasks -> Work] /\ \A t \in Tasks : HasWhatItNeeds(task[t])
  BY RestSound DEF Init, JobSound
<1>5. TalkSound(fsm, data, question, crossed)
  BY <1>1, PlainSound DEF Init
<1>6. Fresh(Idle, data)
  BY RestSound DEF Fresh
<1>7. Uncrossed
  BY <1>6 DEF Init, Uncrossed
<1> QED
  BY <1>3, <1>4, <1>5, <1>7 DEF Init, Inv, TypeOK, Questions, Work

LEMMA NextInv == ASSUME Inv, [Next]_vars PROVE Inv'
<1>1. CASE UNCHANGED vars
  BY <1>1 DEF vars, Inv, TypeOK, TalkSound, Unspoilt, Uncrossed, Fresh
<1>2. CASE Crash
  BY <1>2, CrashStep
<1>3. ASSUME NEW t \in Tasks,
             \/ AddingReseller(t) \/ EditingReseller(t) \/ SettingPanel(t)
             \/ AssigningPanel(t) \/ Describing(t) \/ EditingPanel(t)
             \/ Broadcasting(t) \/ SettingSales(t) \/ Receiving(t) \/ Finish(t)
      PROVE  Inv'
  BY <1>3, AddingStep, EditingStep, SettingStep, AssigningStep, DescribingStep,
     EditingPanelStep, BroadcastingStep, SettingSalesStep, ReceivingStep, FinishStep
<1> QED
  BY <1>1, <1>2, <1>3 DEF Next

LEMMA SpecInv == Spec => []Inv
<1>1. Init => Inv
  BY InitInv
<1>2. Inv /\ [Next]_vars => Inv'
  BY NextInv
<1> QED
  BY <1>1, <1>2, PTL DEF Spec

(* The types, and that a handler which goes on has what it relies on.      *)
THEOREM TypeCorrect == Spec => []TypeOK
<1>1. Inv => TypeOK
  BY DEF Inv
<1> QED
  BY <1>1, SpecInv, PTL

(* What an admin types or ticks reaches the reseller, the panel and the    *)
(* field the question was about: the handlers of admin_resellers.py,       *)
(* admin_panels.py and admin_guest_settings.py that share these keys.      *)
THEOREM AnswersReachAsked == Spec => []AnswerGoesToAsked
<1>1. Inv => AnswerGoesToAsked
  BY DEF Inv, AnswerGoesToAsked, Current, TalkSound, Sure
<1> QED
  BY <1>1, SpecInv, PTL

(* Panels, templates, plans and broadcasts are saved or sent as confirmed; *)
(* new resellers and further panels of one too while updates do not cross. *)
(* The confirmation of a default panel shows the panel that is saved and,  *)
(* while updates do not cross, the reseller whose label is stored, which   *)
(* need not be the reseller that is changed.                               *)
THEOREM ConfirmationsShown == Spec => []ConfirmsWhatItShows
<1>1. Inv => ConfirmsWhatItShows
  BY DEF Inv, ConfirmsWhatItShows, Current, TalkSound, Unspoilt, Sure
<1> QED
  BY <1>1, SpecInv, PTL

(* No handler of an admin's dialogue looks up a key that is not there, in  *)
(* the wizard for resellers while updates do not cross.                    *)
THEOREM KeysThere == Spec => []KeysPresent
<1>1. Inv => KeysPresent
  BY DEF Inv, KeysPresent, TalkSound, Unspoilt
<1> QED
  BY <1>1, SpecInv, PTL
=============================================================================
