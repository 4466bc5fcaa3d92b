------------------------- MODULE ConversationProofs -------------------------
(***************************************************************************)
(* Proofs about Conversation for every value of its constants: any number  *)
(* of services, templates and handlers that run at the same time.          *)
(***************************************************************************)
EXTENDS Conversation, TLAPS

(* Steps of handlers: what begins, goes on or ends is a job with types.    *)
LEMMA NoDataTyped == NoData \in Data
  BY DEF NoData, Data

LEMMA JobTyped ==
    ASSUME NEW s \in Steps, NEW k \in Kinds \cup Fields \cup {"none"}, NEW d \in Data
    PROVE  /\ Job(s, k, d) \in Task
           /\ Job(s, k, d).pc = s /\ Job(s, k, d).kind = k
           /\ Job(s, k, d).email = d.email /\ Job(s, k, d).panel = d.panel
           /\ Job(s, k, d).volume = d.volume /\ Job(s, k, d).days = d.days
           /\ Job(s, k, d).suffix = d.suffix
  BY DEF Job, Task, Data

LEMMA IdleTyped == Idle \in Task /\ Idle.pc = "idle" /\ HasWhatItNeeds(Idle)
<1>1. Idle \in Task /\ Idle.pc = "idle"
  BY NoDataTyped, JobTyped DEF Idle, Steps
<1>2. HasWhatItNeeds(Idle)
  BY <1>1 DEF HasWhatItNeeds
<1> QED
  BY <1>1, <1>2

JobSound(j) == j \in Task /\ HasWhatItNeeds(j)

(* A step that gives one handler a sound job keeps the handlers typed. *)
LEMMA TasksTyped ==
    ASSUME TypeOK, NEW t \in Tasks, NEW j, JobSound(j),
           task' = [task EXCEPT ![t] = j]
    PROVE  task' \in [Tasks -> Task] /\ \A u \in Tasks : HasWhatItNeeds(task'[u])
  BY DEF TypeOK, JobSound

(* What a step of handler t must give for the types to hold after it. *)
StepTyped(t) ==
    /\ fsm' \in States
    /\ data' \in Data
    /\ \E j : JobSound(j) /\ task' = [task EXCEPT ![t] = j]
    /\ shown' \in [create : Draft \cup {None}, add : Change \cup {None}, reduce : Change \cup {None}]
    /\ asked' \in Services \cup {None}
    /\ crossed' \in BOOLEAN

LEMMA BeginTyped ==
    ASSUME TypeOK, NEW t \in Tasks, NEW j, JobSound(j), Begin(t, j)
    PROVE  /\ \E i : JobSound(i) /\ task' = [task EXCEPT ![t] = i]
           /\ crossed' \in BOOLEAN
  BY DEF Begin, TypeOK

LEMMA AtOnceTyped ==
    ASSUME TypeOK, NEW t \in Tasks, AtOnce(t)
    PROVE  /\ \E i : JobSound(i) /\ task' = [task EXCEPT ![t] = i]
           /\ crossed' \in BOOLEAN
  BY BeginTyped, IdleTyped DEF AtOnce, JobSound

LEMMA GotoTyped ==
    ASSUME TypeOK, NEW t \in Tasks, NEW j, JobSound(j), Goto(t, j)
    PROVE  /\ \E i : JobSound(i) /\ task' = [task EXCEPT ![t] = i]
           /\ crossed' \in BOOLEAN
  BY DEF Goto, TypeOK

LEMMA EndTyped ==
    ASSUME TypeOK, NEW t \in Tasks, End(t)
    PROVE  /\ \E i : JobSound(i) /\ task' = [task EXCEPT ![t] = i]
           /\ crossed' \in BOOLEAN
  BY GotoTyped, IdleTyped DEF End, JobSound

LEMMA ClearTyped == Clear => fsm' \in States /\ data' \in Data
  BY NoDataTyped DEF Clear, States

(* The jobs handlers begin with. *)
LEMMA JobsSound ==
    /\ JobSound(Job("options", "none", NoData))
    /\ \A p \in Panels : JobSound(Job("panel", "none", [NoData EXCEPT !.panel = p]))
    /\ \A p \in Panels \cup {None}, e \in Templates :
         JobSound(Job("template", "none", [NoData EXCEPT !.panel = p, !.volume = e.volume,
                                                         !.days = e.days]))
    /\ \A n \in Days : JobSound(Job("expiry", "none", [NoData EXCEPT !.days = n]))
    /\ \A n \in Names : JobSound(Job("name", "none", [NoData EXCEPT !.suffix = n]))
    /\ \A d \in Data, s \in {"preview", "create"} :
         HasDraft(d) => JobSound(Job(s, "none", [d EXCEPT !.email = None]))
    /\ \A e \in Services, v \in Volumes, k \in Kinds, s \in {"show", "change"} :
         JobSound(Job(s, k, [NoData EXCEPT !.email = e, !.volume = v]))
    /\ \A e \in Services, f \in Fields :
         JobSound(Job("change", f, [NoData EXCEPT !.email = e]))
<1> USE ConversationAssumptions DEF ConversationAssumptions
<1>1. JobSound(Job("options", "none", NoData))
  BY NoDataTyped, JobTyped DEF JobSound, HasWhatItNeeds, Steps
<1>2. ASSUME NEW p \in Panels
      PROVE  JobSound(Job("panel", "none", [NoData EXCEPT !.panel = p]))
  <2> DEFINE d == [NoData EXCEPT !.panel = p]
  <2>1. d \in Data /\ d.panel = p
    BY DEF NoData, Data
  <2> HIDE DEF d
  <2>2. /\ Job("panel", "none", d) \in Task
        /\ Job("panel", "none", d).pc = "panel"
        /\ Job("panel", "none", d).panel = p
    BY <2>1, JobTyped DEF Steps
  <2>3. HasWhatItNeeds(Job("panel", "none", d))
    BY <2>2 DEF HasWhatItNeeds
  <2> QED
    BY <2>2, <2>3 DEF JobSound, d
<1>3. ASSUME NEW p \in Panels \cup {None}, NEW e \in Templates
      PROVE  JobSound(Job("template", "none", [NoData EXCEPT !.panel = p, !.volume = e.volume,
                                                             !.days = e.days]))
  <2> DEFINE d == [NoData EXCEPT !.panel = p, !.volume = e.volume, !.days = e.days]
  <2>1. d \in Data /\ d.volume # None
    BY DEF NoData, Data
  <2> HIDE DEF d
  <2>2. /\ Job("template", "none", d) \in Task
        /\ Job("template", "none", d).pc = "template"
        /\ Job("template", "none", d).volume # None
    BY <2>1, JobTyped DEF Steps
  <2>3. HasWhatItNeeds(Job("template", "none", d))
    BY <2>2 DEF HasWhatItNeeds
  <2> QED
    BY <2>2, <2>3 DEF JobSound, d
<1>4. ASSUME NEW n \in Days
      PROVE  JobSound(Job("expiry", "none", [NoData EXCEPT !.days = n]))
  <2>1. [NoData EXCEPT !.days = n] \in Data
    BY DEF NoData, Data
  <2> QED
    BY <2>1, JobTyped DEF JobSound, HasWhatItNeeds, Steps
<1>5. ASSUME NEW n \in Names
      PROVE  JobSound(Job("name", "none", [NoData EXCEPT !.suffix = n]))
  <2> DEFINE d == [NoData EXCEPT !.suffix = n]
  <2>1. d \in Data /\ d.suffix = n
    BY DEF NoData, Data
  <2> HIDE DEF d
  <2>2. /\ Job("name", "none", d) \in Task
        /\ Job("name", "none", d).pc = "name"
        /\ Job("name", "none", d).suffix = n
    BY <2>1, JobTyped DEF Steps
  <2>3. HasWhatItNeeds(Job("name", "none", d))
    BY <2>2 DEF HasWhatItNeeds
  <2> QED
    BY <2>2, <2>3 DEF JobSound, d
<1>6. ASSUME NEW d \in Data, NEW s \in {"preview", "create"}, HasDraft(d)
      PROVE  JobSound(Job(s, "none", [d EXCEPT !.email = None]))
  <2> DEFINE f == [d EXCEPT !.email = None]
  <2>1. f \in Data /\ f.panel = d.panel /\ f.volume = d.volume /\ f.suffix = d.suffix
    BY DEF Data
  <2> HIDE DEF f
  <2>2. /\ Job(s, "none", f) \in Task
        /\ Job(s, "none", f).pc = s
        /\ HasDraft(Job(s, "none", f))
    BY <1>6, <2>1, JobTyped DEF HasDraft, Steps
  <2>3. HasWhatItNeeds(Job(s, "none", f))
    BY <2>2 DEF HasWhatItNeeds
  <2> QED
    BY <2>2, <2>3 DEF JobSound, f
<1>7. ASSUME NEW e \in Services, NEW v \in Volumes, NEW k \in Kinds, NEW s \in {"show", "change"}
      PROVE  JobSound(Job(s, k, [NoData EXCEPT !.email = e, !.volume = v]))
  <2> DEFINE f == [NoData EXCEPT !.email = e, !.volume = v]
  <2>1. f \in Data /\ f.email = e /\ f.volume = v
    BY DEF NoData, Data
  <2> HIDE DEF f
  <2>2. /\ Job(s, k, f) \in Task
        /\ Job(s, k, f).pc = s /\ Job(s, k, f).kind = k
        /\ Job(s, k, f).email = e /\ Job(s, k, f).volume = v
    BY <2>1, JobTyped DEF Steps
  <2>3. HasWhatItNeeds(Job(s, k, f))
    BY <2>2 DEF HasWhatItNeeds, HasChange
  <2> QED
    BY <2>2, <2>3 DEF JobSound, f
<1>8. ASSUME NEW e \in Services, NEW f \in Fields
      PROVE  JobSound(Job("change", f, [NoData EXCEPT !.email = e]))
  <2> DEFINE d == [NoData EXCEPT !.email = e]
  <2>1. d \in Data /\ d.email = e
    BY DEF NoData, Data
  <2> HIDE DEF d
  <2>2. /\ Job("change", f, d) \in Task
        /\ Job("change", f, d).pc = "change" /\ Job("change", f, d).kind = f
        /\ Job("change", f, d).email = e
    BY <2>1, JobTyped DEF Steps
  <2>3. HasWhatItNeeds(Job("change", f, d))
    BY <2>2 DEF HasWhatItNeeds, Kinds, Fields
  <2> QED
    BY <2>2, <2>3 DEF JobSound, d
<1> QED
  BY <1>1, <1>2, <1>3, <1>4, <1>5, <1>6, <1>7, <1>8

(* Steps of the create dialogue. *)
LEMMA CreatingTyped == ASSUME TypeOK, NEW t \in Tasks, Creating(t) PROVE StepTyped(t)
<1> USE NoDataTyped, JobsSound
<1> USE DEF Creating, StepTyped
<1>0. data \in Data /\ task[t] \in Task /\ HasWhatItNeeds(task[t]) /\ fsm \in States
      /\ shown \in [create : Draft \cup {None}, add : Change \cup {None}, reduce : Change \cup {None}]
      /\ asked \in Services \cup {None}
  BY DEF TypeOK
<1>1. CASE StartCreate(t)
  BY <1>0, <1>1, BeginTyped, ClearTyped DEF StartCreate
<1>2. ASSUME NEW p \in Panels, ContinueCreate(p) PROVE fsm' \in States /\ data' \in Data
  BY <1>0, <1>2 DEF ContinueCreate, Put, States, CreateStates, Data
<1>3. CASE OfferPanels(t)
  <2>1. fsm' \in States /\ data' \in Data
    BY <1>0, <1>2, <1>3 DEF OfferPanels, States, CreateStates
  <2> QED
    BY <1>0, <1>3, <2>1, EndTyped DEF OfferPanels
<1>4. CASE CreateManual(t)
  <2>1. CASE data.panel = None
    BY <1>0, <1>4, <2>1, BeginTyped, ClearTyped DEF CreateManual
  <2>2. CASE data.panel # None
    BY <1>0, <1>4, <2>2, AtOnceTyped DEF CreateManual, States, CreateStates
  <2> QED
    BY <2>1, <2>2
<1>5. CASE PickPanel(t)
  <2>1. PICK p \in Panels : Begin(t, Job("panel", "none", [NoData EXCEPT !.panel = p]))
    BY <1>5 DEF PickPanel
  <2> QED
    BY <1>0, <1>5, <2>1, BeginTyped DEF PickPanel
<1>6. CASE SetPanel(t)
  <2>1. task[t].panel \in Panels
    BY <1>0, <1>6 DEF SetPanel, Task, HasWhatItNeeds
  <2> QED
    BY <1>0, <1>2, <1>6, <2>1, EndTyped DEF SetPanel
<1>7. CASE PickTemplate(t)
  <2>1. PICK e \in Templates :
          Begin(t, Job("template", "none", [NoData EXCEPT !.panel = data.panel,
                                            !.volume = e.volume, !.days = e.days]))
    BY <1>7 DEF PickTemplate
  <2>2. data.panel \in Panels \cup {None}
    BY <1>0 DEF Data
  <2> QED
    BY <1>0, <1>7, <2>1, <2>2, BeginTyped DEF PickTemplate
<1>8. CASE UseTemplate(t)
  <2>1. CASE UNCHANGED <<fsm, data>> /\ End(t)
    BY <1>0, <1>8, <2>1, EndTyped DEF UseTemplate
  <2>2. CASE Clear /\ Goto(t, Job("options", "none", NoData))
    BY <1>0, <1>8, <2>2, GotoTyped, ClearTyped DEF UseTemplate
  <2>3. CASE StoreTemplate(t) /\ End(t)
    <3>1. fsm' \in States /\ data' \in Data
      BY <1>0, <2>3 DEF StoreTemplate, States, CreateStates, Data, Task
    <3> QED
      BY <1>0, <1>8, <2>3, <3>1, EndTyped DEF UseTemplate
  <2> QED
    BY <1>8, <2>1, <2>2, <2>3 DEF UseTemplate
<1>9. CASE GiveVolume(t)
  <2>1. fsm' \in States /\ data' \in Data
    BY <1>0, <1>9 DEF GiveVolume, Put, States, CreateStates, Data
  <2> QED
    BY <1>0, <1>9, <2>1, AtOnceTyped DEF GiveVolume
<1>10. CASE GiveDays(t)
  <2>1. PICK n \in Days : Begin(t, Job("expiry", "none", [NoData EXCEPT !.days = n]))
    BY <1>10 DEF GiveDays
  <2> QED
    BY <1>0, <1>10, <2>1, BeginTyped DEF GiveDays
<1>11. CASE SetDays(t)
  <2>1. fsm' \in States /\ data' \in Data
    BY <1>0, <1>11, ClearTyped DEF SetDays, Put, States, CreateStates, Data, Task
  <2> QED
    BY <1>0, <1>11, <2>1, EndTyped DEF SetDays
<1>12. CASE GiveName(t)
  <2>1. PICK n \in Names : Begin(t, Job("name", "none", [NoData EXCEPT !.suffix = n]))
    BY <1>12 DEF GiveName
  <2> QED
    BY <1>0, <1>12, <2>1, BeginTyped DEF GiveName
<1>13. CASE ReadDraft(t)
  <2> DEFINE named == [data EXCEPT !.suffix = task[t].suffix]
  <2>1. named \in Data
    BY <1>0 DEF Data, Task
  <2>2. CASE Clear /\ End(t)
    BY <1>0, <1>13, <2>2, EndTyped, ClearTyped DEF ReadDraft
  <2>3. CASE data' = named /\ UNCHANGED fsm /\ HasDraft(named)
             /\ Goto(t, Job("preview", "none", [named EXCEPT !.email = None]))
    BY <1>0, <1>13, <2>1, <2>3, GotoTyped DEF ReadDraft
  <2>4. CASE data' = named /\ UNCHANGED fsm /\ End(t)
    BY <1>0, <1>13, <2>1, <2>4, EndTyped DEF ReadDraft
  <2> QED
    BY <1>13, <2>2, <2>3, <2>4 DEF ReadDraft
<1>14. CASE ShowDraft(t)
  <2>1. DraftOf(task[t]) \in Draft
    BY <1>0, <1>14 DEF ShowDraft, HasWhatItNeeds, HasDraft, DraftOf, Draft, Task
  <2>2. fsm' \in States
    BY <1>0, <1>14 DEF ShowDraft, States, CreateStates
  <2>3. shown' \in [create : Draft \cup {None}, add : Change \cup {None}, reduce : Change \cup {None}]
    BY <1>0, <1>14, <2>1 DEF ShowDraft
  <2> QED
    BY <1>0, <1>14, <2>2, <2>3, EndTyped DEF ShowDraft
<1>15. CASE ConfirmCreate(t)
  <2>1. CASE HasDraft(data)
    <3>1. data' \in Data
      BY <1>0, <1>15, <2>1 DEF ConfirmCreate, Put, Data
    <3> QED
      BY <1>0, <1>15, <2>1, <3>1, BeginTyped DEF ConfirmCreate
  <2>2. CASE ~HasDraft(data)
    BY <1>0, <1>15, <2>2, AtOnceTyped, ClearTyped DEF ConfirmCreate
  <2> QED
    BY <2>1, <2>2
<1>16. CASE EndCreate(t)
  <2>1. fsm' \in States /\ data' \in Data
    BY <1>0, <1>16, ClearTyped DEF EndCreate, Put, Data
  <2> QED
    BY <1>0, <1>16, <2>1, EndTyped DEF EndCreate
<1> QED
  BY <1>1, <1>3, <1>4, <1>5, <1>6, <1>7, <1>8, <1>9, <1>10, <1>11, <1>12, <1>13, <1>14,
     <1>15, <1>16
LEMMA KindStates ==
    \A k \in Kinds : /\ VolumeState[k] \in {"add_volume", "reduce_volume"}
                     /\ ConfirmState[k] \in {"add_confirm", "reduce_confirm"}
  BY DEF Kinds, VolumeState, ConfirmState

(* Steps of the dialogues that add and reduce volume. *)
LEMMA ChangingTyped == ASSUME TypeOK, NEW t \in Tasks, Changing(t) PROVE StepTyped(t)
<1> USE NoDataTyped, JobsSound
<1> USE DEF StepTyped
<1>0. data \in Data /\ task[t] \in Task /\ HasWhatItNeeds(task[t]) /\ fsm \in States
      /\ shown \in [create : Draft \cup {None}, add : Change \cup {None}, reduce : Change \cup {None}]
      /\ asked \in Services \cup {None}
  BY DEF TypeOK
<1>1. ASSUME NEW k \in Kinds, NEW e \in Services, OpenMenu(t, k, e) PROVE StepTyped(t)
  <2>1. fsm' \in States /\ data' \in Data
    BY <1>1 DEF OpenMenu, States, Data, NoData
  <2> QED
    BY <1>0, <1>1, <2>1, AtOnceTyped DEF OpenMenu
<1>2. ASSUME NEW k \in Kinds, PickVolume(t, k) PROVE StepTyped(t)
  <2>1. PICK v \in Volumes :
          Begin(t, Job("show", k, [NoData EXCEPT !.email = data.email, !.volume = v]))
    BY <1>2 DEF PickVolume
  <2>2. data.email \in Services
    BY <1>0, <1>2 DEF PickVolume, Data
  <2> QED
    BY <1>0, <1>2, <2>1, <2>2, BeginTyped DEF PickVolume
<1>3. ASSUME NEW k \in Kinds, AskVolume(t, k) PROVE StepTyped(t)
  <2>1. fsm' \in States
    BY <1>3, KindStates DEF AskVolume, States
  <2> QED
    BY <1>0, <1>3, <2>1, AtOnceTyped DEF AskVolume
<1>4. ASSUME NEW k \in Kinds, TypeVolume(t, k) PROVE StepTyped(t)
  BY <1>0, <1>2, <1>4, AtOnceTyped, ClearTyped DEF TypeVolume
<1>5. ASSUME NEW k \in Kinds, ConfirmChange(t, k) PROVE StepTyped(t)
  <2>1. CASE HasChange(data)
    <3>1. data.email \in Services /\ data.volume \in Volumes
      BY <1>0, <2>1 DEF HasChange, Data
    <3> QED
      BY <1>0, <1>5, <2>1, <3>1, BeginTyped, ClearTyped DEF ConfirmChange
  <2>2. CASE ~HasChange(data)
    BY <1>0, <1>5, <2>2, AtOnceTyped, ClearTyped DEF ConfirmChange
  <2> QED
    BY <2>1, <2>2
<1>6. CASE ShowChange(t)
  <2>1. task[t].kind \in Kinds /\ task[t].email \in Services /\ task[t].volume \in Volumes
    BY <1>0, <1>6 DEF ShowChange, HasWhatItNeeds, HasChange, Task
  <2>2. fsm' \in States /\ data' \in Data
    BY <1>0, <1>6, <2>1, KindStates DEF ShowChange, States, Data
  <2>3. ChangeOf(task[t]) \in Change
    BY <2>1 DEF ChangeOf, Change
  <2>4. shown' \in [create : Draft \cup {None}, add : Change \cup {None}, reduce : Change \cup {None}]
    BY <1>0, <1>6, <2>1, <2>3 DEF ShowChange, Kinds
  <2> QED
    BY <1>0, <1>6, <2>2, <2>4, EndTyped DEF ShowChange
<1>7. CASE EndChange(t)
  BY <1>0, <1>7, EndTyped DEF EndChange
<1> QED
  BY <1>1, <1>2, <1>3, <1>4, <1>5, <1>6, <1>7 DEF Changing

(* Steps of the dialogues of one field, and of leaving a dialogue. *)
LEMMA EditingTyped == ASSUME TypeOK, NEW t \in Tasks, Editing(t) \/ Leaving(t) PROVE StepTyped(t)
<1> USE NoDataTyped, JobsSound
<1> USE DEF StepTyped
<1>0. data \in Data /\ fsm \in States
      /\ shown \in [create : Draft \cup {None}, add : Change \cup {None}, reduce : Change \cup {None}]
      /\ asked \in Services \cup {None}
  BY DEF TypeOK
<1>1. ASSUME NEW f \in Fields, NEW e \in Services, OpenField(t, f, e) PROVE StepTyped(t)
  <2>1. fsm' \in States /\ data' \in Data
    BY <1>0, <1>1 DEF OpenField, Put, States, Data
  <2> QED
    BY <1>0, <1>1, <2>1, AtOnceTyped DEF OpenField
<1>2. ASSUME NEW f \in Fields, GiveField(t, f) PROVE StepTyped(t)
  <2>1. CASE data.email # None
    <3>1. data.email \in Services
      BY <1>0, <2>1 DEF Data
    <3> QED
      BY <1>0, <1>2, <2>1, <3>1, BeginTyped, ClearTyped DEF GiveField
  <2>2. CASE data.email = None
    BY <1>0, <1>2, <2>2, AtOnceTyped, ClearTyped DEF GiveField
  <2> QED
    BY <2>1, <2>2
<1>3. CASE Dismiss(t)
  BY <1>0, <1>3, AtOnceTyped, ClearTyped DEF Dismiss
<1>4. ASSUME NEW e \in Services, SetUnlimited(t, e) PROVE StepTyped(t)
  <2>1. JobSound(Job("change", "set_date", [NoData EXCEPT !.email = e]))
    BY DEF Fields
  <2> QED
    BY <1>0, <1>4, <2>1, BeginTyped, ClearTyped DEF SetUnlimited
<1>5. CASE Search(t) \/ StopSearch(t)
  BY <1>0, <1>5, AtOnceTyped DEF Search, StopSearch, States
<1> QED
  BY <1>1, <1>2, <1>3, <1>4, <1>5 DEF Editing, Leaving

LEMMA TypeStep == TypeOK /\ [Next]_vars => TypeOK'
<1> SUFFICES ASSUME TypeOK, [Next]_vars PROVE TypeOK'
  OBVIOUS
<1>1. ASSUME NEW t \in Tasks, StepTyped(t) PROVE TypeOK'
  <2>1. PICK j : JobSound(j) /\ task' = [task EXCEPT ![t] = j]
    BY <1>1 DEF StepTyped
  <2>2. task' \in [Tasks -> Task] /\ \A u \in Tasks : HasWhatItNeeds(task'[u])
    BY <2>1, TasksTyped
  <2> QED
    BY <1>1, <2>2 DEF TypeOK, StepTyped
<1>2. CASE Crash
  BY <1>2, ClearTyped, IdleTyped DEF Crash, TypeOK
<1>3. CASE UNCHANGED vars
  BY <1>3 DEF vars, TypeOK
<1> QED
  BY <1>1, <1>2, <1>3, CreatingTyped, ChangingTyped, EditingTyped DEF Next

LEMMA TypeInit == Init => TypeOK
<1> SUFFICES ASSUME Init PROVE TypeOK
  OBVIOUS
<1>1. fsm \in States /\ data \in Data
  BY NoDataTyped DEF Init, States
<1>2. task \in [Tasks -> Task] /\ \A t \in Tasks : HasWhatItNeeds(task[t])
  BY IdleTyped DEF Init
<1>3. shown \in [create : Draft \cup {None}, add : Change \cup {None}, reduce : Change \cup {None}]
  BY DEF Init
<1> QED
  BY <1>1, <1>2, <1>3 DEF Init, TypeOK

(* Whatever buttons are pressed and however handlers interleave, a handler *)
(* that shows, creates or changes something has read all it needs for it.  *)
THEOREM TypeCorrect == Spec => []TypeOK
<1>1. Init => TypeOK
  BY TypeInit
<1>2. TypeOK /\ [Next]_vars => TypeOK'
  BY TypeStep
<1> QED
  BY <1>1, <1>2, PTL DEF Spec

-----------------------------------------------------------------------------
(* The service of the data and the state change together. *)
LEMMA AskedStep == TypeOK /\ AnswerGoesToAsked /\ [Next]_vars => AnswerGoesToAsked'
<1> SUFFICES ASSUME TypeOK, AnswerGoesToAsked, [Next]_vars PROVE AnswerGoesToAsked'
  OBVIOUS
<1> USE DEF AnswerGoesToAsked
<1>0. data \in Data
  BY DEF TypeOK
<1>1. ASSUME fsm' \notin Fields PROVE AnswerGoesToAsked'
  BY <1>1
<1>2. ASSUME UNCHANGED <<fsm, asked>>, data'.email = data.email PROVE AnswerGoesToAsked'
  BY <1>2
<1>3. Clear => fsm' \notin Fields
  BY DEF Clear, Fields
<1>4. ASSUME NEW p \in Panels, ContinueCreate(p), UNCHANGED asked PROVE AnswerGoesToAsked'
  BY <1>0, <1>4, <1>1, <1>2 DEF ContinueCreate, Put, Data, Fields
<1>5. ASSUME NEW t \in Tasks, Creating(t) PROVE AnswerGoesToAsked'
  <2>1. CASE StartCreate(t) \/ CreateManual(t) \/ GiveVolume(t) \/ SetDays(t)
    BY <2>1, <1>1, <1>3 DEF StartCreate, CreateManual, GiveVolume, SetDays, Fields
  <2>2. CASE OfferPanels(t)
    BY <2>2, <1>1, <1>2, <1>4 DEF OfferPanels, Fields
  <2>3. CASE PickPanel(t) \/ PickTemplate(t) \/ GiveDays(t) \/ GiveName(t)
    BY <2>3, <1>2 DEF PickPanel, PickTemplate, GiveDays, GiveName
  <2>4. CASE SetPanel(t)
    <3>1. task[t].panel \in Panels
      BY <2>4 DEF SetPanel, TypeOK, Task, HasWhatItNeeds
    <3> QED
      BY <2>4, <3>1, <1>2, <1>4 DEF SetPanel
  <2>5. CASE UseTemplate(t)
    BY <2>5, <1>1, <1>2, <1>3 DEF UseTemplate, StoreTemplate, Fields
  <2>6. CASE ReadDraft(t)
    BY <2>6, <1>0, <1>1, <1>2, <1>3 DEF ReadDraft, Data
  <2>7. CASE ShowDraft(t)
    BY <2>7, <1>1, <1>2 DEF ShowDraft, Fields
  <2>8. CASE ConfirmCreate(t) \/ EndCreate(t)
    BY <2>8, <1>0, <1>1, <1>2, <1>3 DEF ConfirmCreate, EndCreate, Put, Data
  <2> QED
    BY <1>5, <2>1, <2>2, <2>3, <2>4, <2>5, <2>6, <2>7, <2>8 DEF Creating
<1>6. ASSUME NEW t \in Tasks, Changing(t) PROVE AnswerGoesToAsked'
  <2>1. ASSUME NEW k \in Kinds, NEW e \in Services, OpenMenu(t, k, e) PROVE AnswerGoesToAsked'
    BY <2>1, <1>1 DEF OpenMenu, Fields
  <2>2. ASSUME NEW k \in Kinds, PickVolume(t, k) PROVE AnswerGoesToAsked'
    BY <2>2, <1>2 DEF PickVolume
  <2>3. ASSUME NEW k \in Kinds, AskVolume(t, k) PROVE AnswerGoesToAsked'
    BY <2>3, <1>1 DEF AskVolume, VolumeState, Kinds, Fields
  <2>4. ASSUME NEW k \in Kinds, TypeVolume(t, k) PROVE AnswerGoesToAsked'
    BY <2>4, <2>2, <1>1, <1>3 DEF TypeVolume
  <2>5. ASSUME NEW k \in Kinds, ConfirmChange(t, k) PROVE AnswerGoesToAsked'
    BY <2>5, <1>1, <1>3 DEF ConfirmChange
  <2>6. CASE ShowChange(t)
    <3>1. task[t].kind \in Kinds
      BY <2>6 DEF ShowChange, TypeOK, HasWhatItNeeds
    <3> QED
      BY <2>6, <3>1, <1>1, <1>2 DEF ShowChange, ConfirmState, Kinds, Fields
  <2>7. CASE EndChange(t)
    BY <2>7, <1>2 DEF EndChange
  <2> QED
    BY <1>6, <2>1, <2>2, <2>3, <2>4, <2>5, <2>6, <2>7 DEF Changing
<1>7. ASSUME NEW t \in Tasks, Editing(t) \/ Leaving(t) PROVE AnswerGoesToAsked'
  <2>1. ASSUME NEW f \in Fields, NEW e \in Services, OpenField(t, f, e) PROVE AnswerGoesToAsked'
    BY <2>1, <1>0 DEF OpenField, Put, Data
  <2>2. ASSUME NEW f \in Fields, GiveField(t, f) PROVE AnswerGoesToAsked'
    BY <2>2, <1>1, <1>3 DEF GiveField
  <2>3. CASE Dismiss(t) \/ \E e \in Services : SetUnlimited(t, e)
    BY <2>3, <1>1, <1>3 DEF Dismiss, SetUnlimited
  <2>4. CASE Search(t) \/ StopSearch(t)
    BY <2>4, <1>1 DEF Search, StopSearch, Fields
  <2> QED
    BY <1>7, <2>1, <2>2, <2>3, <2>4 DEF Editing, Leaving
<1>8. CASE Crash
  BY <1>8, <1>1, <1>3 DEF Crash
<1>9. CASE UNCHANGED vars
  BY <1>9 DEF vars
<1> QED
  BY <1>5, <1>6, <1>7, <1>8, <1>9 DEF Next

(* For any number of handlers, crossing or not, an answer that is typed    *)
(* goes to the service whose dialogue was opened last.                     *)
THEOREM AnswersReachAsked == Spec => []AnswerGoesToAsked
<1>1. Init => TypeOK /\ AnswerGoesToAsked
  BY TypeInit DEF Init, AnswerGoesToAsked, Fields
<1>2. TypeOK /\ AnswerGoesToAsked /\ [Next]_vars => (TypeOK /\ AnswerGoesToAsked)'
  BY TypeStep, AskedStep
<1> QED
  BY <1>1, <1>2, PTL DEF Spec
-----------------------------------------------------------------------------
(* The create dialogue while updates do not cross.  One handler runs at a  *)
(* time, so what it found when it began still holds when it goes on.       *)
OneAtWork == \A t, u \in Tasks : task[t] # Idle /\ task[u] # Idle => t = u

StateSound ==
    /\ fsm \in {"volume", "expiry", "client_name", "confirm"} => data.panel # None
    /\ fsm \in {"expiry", "client_name", "confirm"} => data.volume # None
    /\ fsm = "confirm" => data.suffix # None /\ DraftOf(data) = shown.create

Settled(j) ==
    /\ j.pc = "options" => fsm = "none"
    /\ j.pc = "panel" => fsm = "pick_panel"
    /\ j.pc = "expiry" => fsm = "expiry"
    /\ j.pc = "name" => fsm = "client_name"
    /\ j.pc = "preview" => fsm = "client_name" /\ DraftOf(data) = DraftOf(j)
    /\ j.pc = "create" => DraftOf(j) = shown.create

DialogueInv == ~crossed => OneAtWork /\ StateSound /\ \A t \in Tasks : Settled(task[t])

(* A handler that begins, or goes on, is the only one afterwards: it is    *)
(* enough to look at its own job.                                          *)
LEMMA DialogueKept ==
    ASSUME TypeOK, DialogueInv, NEW t \in Tasks, NEW j,
           Begin(t, j) \/ (task[t].pc # "idle" /\ Goto(t, j)),
           ~crossed => StateSound' /\ Settled(j)'
    PROVE  DialogueInv'
<1> SUFFICES ASSUME ~crossed' PROVE OneAtWork' /\ StateSound' /\ \A u \in Tasks : Settled(task[u])'
  BY DEF DialogueInv
<1>1. ~crossed /\ task \in [Tasks -> Task] /\ task' = [task EXCEPT ![t] = j]
  BY DEF Begin, Goto, TypeOK
<1>2. \A u \in Tasks : u # t => task[u] = Idle
  <2>1. CASE Begin(t, j)
    BY <2>1, <1>1 DEF Begin
  <2>2. CASE task[t].pc # "idle"
    BY <2>2, <1>1, IdleTyped DEF DialogueInv, OneAtWork
  <2> QED
    BY <2>1, <2>2
<1>3. task'[t] = j /\ \A u \in Tasks : u # t => task'[u] = Idle
  BY <1>1, <1>2
<1>4. OneAtWork'
  BY <1>3 DEF OneAtWork
<1>5. ASSUME NEW u \in Tasks PROVE Settled(task[u])'
  <2>1. CASE u = t
    BY <2>1, <1>1, <1>3 DEF Settled
  <2>2. CASE u # t
    BY <2>2, <1>3, IdleTyped DEF Settled
  <2> QED
    BY <2>1, <2>2
<1> QED
  BY <1>1, <1>4, <1>5
LEMMA DialogueOnce ==
    ASSUME TypeOK, DialogueInv, NEW t \in Tasks,
           AtOnce(t) \/ (task[t].pc # "idle" /\ End(t)),
           ~crossed => StateSound'
    PROVE  DialogueInv'
<1>1. Settled(Idle)'
  BY IdleTyped DEF Settled
<1> QED
  BY <1>1, DialogueKept DEF AtOnce, End

(* A handler that begins and so far only reads. *)
LEMMA DialogueReads ==
    ASSUME TypeOK, DialogueInv, NEW t \in Tasks, NEW j, Begin(t, j),
           UNCHANGED <<fsm, data, shown>>, Settled(j)'
    PROVE  DialogueInv'
  BY DialogueKept DEF DialogueInv, StateSound, DraftOf

LEMMA ClearSound == Clear => StateSound'
  BY DEF Clear, StateSound

(* What a job's step and its keys are. *)
LEMMA JobIs ==
    ASSUME NEW s, NEW k, NEW d
    PROVE  /\ Job(s, k, d).pc = s
           /\ DraftOf(Job(s, k, d)) = DraftOf(d)
  BY DEF Job, DraftOf

LEMMA CreatingDialogue ==
    ASSUME TypeOK, DialogueInv, NEW t \in Tasks, Creating(t) PROVE DialogueInv'
<1>0. data \in Data /\ task[t] \in Task /\ HasWhatItNeeds(task[t])
  BY DEF TypeOK
<1>s. ~crossed => StateSound /\ Settled(task[t])
  BY DEF DialogueInv
<1>1. CASE StartCreate(t)
  <2>1. Settled(Job("options", "none", NoData))'
    BY <1>1, JobIs DEF StartCreate, Clear, Settled
  <2> QED
    BY <1>1, <2>1, DialogueKept, ClearSound DEF StartCreate
<1>2. ASSUME NEW p \in Panels, ContinueCreate(p), UNCHANGED shown, fsm \in {"none", "pick_panel"}
      PROVE  StateSound'
  <2>1. data'.panel = p /\ p # None
    BY <1>0, <1>2, ConversationAssumptions DEF ConversationAssumptions, ContinueCreate, Put, Data
  <2> QED
    BY <1>2, <2>1 DEF ContinueCreate, StateSound
<1>3. CASE OfferPanels(t)
  <2>1. ~crossed => fsm = "none"
    BY <1>3, <1>s DEF OfferPanels, Settled
  <2>2. ~crossed => StateSound'
    BY <1>2, <1>3, <2>1 DEF OfferPanels, StateSound
  <2> QED
    BY <1>3, <2>2, DialogueOnce DEF OfferPanels
<1>4. CASE CreateManual(t)
  <2>1. CASE data.panel = None
    <3>1. Settled(Job("options", "none", NoData))'
      BY <1>4, <2>1, JobIs DEF CreateManual, Clear, Settled
    <3> QED
      BY <1>4, <2>1, <3>1, DialogueKept, ClearSound DEF CreateManual
  <2>2. CASE data.panel # None
    BY <1>4, <2>2, DialogueOnce DEF CreateManual, StateSound
  <2> QED
    BY <2>1, <2>2
<1>5. CASE PickPanel(t)
  <2>1. PICK p \in Panels : Begin(t, Job("panel", "none", [NoData EXCEPT !.panel = p]))
    BY <1>5 DEF PickPanel
  <2>2. Settled(Job("panel", "none", [NoData EXCEPT !.panel = p]))'
    BY <1>5, JobIs DEF PickPanel, Settled
  <2> QED
    BY <1>5, <2>1, <2>2, DialogueReads DEF PickPanel
<1>6. CASE SetPanel(t)
  <2>1. task[t].panel \in Panels
    BY <1>0, <1>6 DEF SetPanel, Task, HasWhatItNeeds
  <2>2. ~crossed => fsm = "pick_panel"
    BY <1>6, <1>s DEF SetPanel, Settled
  <2>3. ~crossed => StateSound'
    BY <1>2, <1>6, <2>1, <2>2 DEF SetPanel, StateSound
  <2> QED
    BY <1>6, <2>3, DialogueOnce DEF SetPanel
<1>7. CASE PickTemplate(t)
  <2>1. PICK e \in Templates :
          Begin(t, Job("template", "none", [NoData EXCEPT !.panel = data.panel,
                                            !.volume = e.volume, !.days = e.days]))
    BY <1>7 DEF PickTemplate
  <2> DEFINE d == [NoData EXCEPT !.panel = data.panel, !.volume = e.volume, !.days = e.days]
  <2>2. PICK j : j = Job("template", "none", d)
    OBVIOUS
  <2>3. j.pc = "template"
    BY <2>2, JobIs
  <2>4. Settled(j)'
    BY <2>3 DEF Settled
  <2> QED
    BY <1>7, <2>1, <2>2, <2>4, DialogueReads DEF PickTemplate
<1>8. CASE UseTemplate(t)
  <2>1. CASE UNCHANGED <<fsm, data>> /\ End(t)
    <3>1. ~crossed => StateSound'
      BY <1>8, <1>s, <2>1 DEF UseTemplate, StateSound
    <3> QED
      BY <1>8, <2>1, <3>1, DialogueOnce DEF UseTemplate
  <2>2. CASE Clear /\ Goto(t, Job("options", "none", NoData))
    <3>1. Settled(Job("options", "none", NoData))'
      BY <2>2, JobIs DEF Clear, Settled
    <3> QED
      BY <1>8, <2>2, <3>1, DialogueKept, ClearSound DEF UseTemplate
  <2>3. CASE task[t].panel # None /\ StoreTemplate(t) /\ End(t)
    <3>1. task[t].volume # None
      BY <1>0, <1>8 DEF UseTemplate, HasWhatItNeeds
    <3>2. StateSound'
      BY <1>0, <2>3, <3>1 DEF StoreTemplate, StateSound, Data
    <3> QED
      BY <1>8, <2>3, <3>2, DialogueOnce DEF UseTemplate
  <2> QED
    BY <1>8, <2>1, <2>2, <2>3 DEF UseTemplate
<1>9. CASE GiveVolume(t)
  <2>1. ~crossed => StateSound'
    BY <1>0, <1>9, <1>s, ConversationAssumptions
      DEF ConversationAssumptions, GiveVolume, Put, StateSound, Data
  <2> QED
    BY <1>9, <2>1, DialogueOnce DEF GiveVolume
<1>10. CASE GiveDays(t)
  <2>1. PICK n \in Days : Begin(t, Job("expiry", "none", [NoData EXCEPT !.days = n]))
    BY <1>10 DEF GiveDays
  <2>2. Settled(Job("expiry", "none", [NoData EXCEPT !.days = n]))'
    BY <1>10, JobIs DEF GiveDays, Settled
  <2> QED
    BY <1>10, <2>1, <2>2, DialogueReads DEF GiveDays
<1>11. CASE SetDays(t)
  <2>1. ~crossed => fsm = "expiry"
    BY <1>11, <1>s DEF SetDays, Settled
  <2>2. CASE Clear
    BY <1>11, <2>2, ClearSound, DialogueOnce DEF SetDays
  <2>3. CASE Put("days", task[t].days) /\ fsm' = "client_name"
    <3>1. data'.panel = data.panel /\ data'.volume = data.volume
      BY <1>0, <2>3 DEF Put, Data
    <3>2. ~crossed => StateSound'
      BY <1>s, <2>1, <2>3, <3>1 DEF StateSound
    <3> QED
      BY <1>11, <3>2, DialogueOnce DEF SetDays
  <2> QED
    BY <1>11, <2>2, <2>3 DEF SetDays
<1>12. CASE GiveName(t)
  <2>1. PICK n \in Names : Begin(t, Job("name", "none", [NoData EXCEPT !.suffix = n]))
    BY <1>12 DEF GiveName
  <2>2. Settled(Job("name", "none", [NoData EXCEPT !.suffix = n]))'
    BY <1>12, JobIs DEF GiveName, Settled
  <2> QED
    BY <1>12, <2>1, <2>2, DialogueReads DEF GiveName
<1>13. CASE ReadDraft(t)
  <2> DEFINE named == [data EXCEPT !.suffix = task[t].suffix]
  <2>1. named.panel = data.panel /\ named.volume = data.volume
    BY <1>0 DEF Data
  <2>2. ~crossed => fsm = "client_name" /\ data.panel # None /\ data.volume # None
    BY <1>13, <1>s DEF ReadDraft, Settled, StateSound
  <2>3. CASE Clear /\ End(t)
    BY <1>13, <2>3, ClearSound, DialogueOnce DEF ReadDraft
  <2>4. ASSUME data' = named, UNCHANGED fsm PROVE ~crossed => StateSound'
    <3>1. data'.panel = data.panel /\ data'.volume = data.volume
      BY <2>1, <2>4
    <3> QED
      BY <2>2, <2>4, <3>1 DEF StateSound
  <2>5. CASE data' = named /\ UNCHANGED fsm /\ HasDraft(named)
             /\ Goto(t, Job("preview", "none", [named EXCEPT !.email = None]))
    <3>1. PICK j : j = Job("preview", "none", [named EXCEPT !.email = None])
      OBVIOUS
    <3>0. named \in Data
      BY <1>0 DEF Data, Task
    <3> HIDE DEF named
    <3>2. j.pc = "preview" /\ DraftOf(j) = DraftOf(data')
      BY <2>5, <3>0, <3>1, JobIs DEF DraftOf, Data
    <3>3. ~crossed => Settled(j)'
      BY <2>2, <2>5, <3>2 DEF Settled
    <3> QED
      BY <1>13, <2>4, <2>5, <3>1, <3>3, DialogueKept DEF ReadDraft
  <2>6. CASE data' = named /\ UNCHANGED fsm /\ End(t)
    BY <1>13, <2>4, <2>6, DialogueOnce DEF ReadDraft
  <2> QED
    BY <1>13, <2>3, <2>5, <2>6 DEF ReadDraft
<1>14. CASE ShowDraft(t)
  <2>1. ~crossed => /\ fsm = "client_name" /\ DraftOf(data) = DraftOf(task[t])
                    /\ data.panel # None /\ data.volume # None
    BY <1>14, <1>s DEF ShowDraft, Settled, StateSound
  <2>2. task[t].suffix # None
    BY <1>0, <1>14 DEF ShowDraft, HasWhatItNeeds, HasDraft
  <2>3. ~crossed => data.suffix # None
    BY <2>1, <2>2 DEF DraftOf
  <2>4. fsm' = "confirm" => shown'.create = DraftOf(task[t]) \/ UNCHANGED <<fsm, shown>>
    BY <1>14 DEF ShowDraft, TypeOK
  <2>5. ~crossed => StateSound'
    BY <1>14, <1>s, <2>1, <2>3, <2>4 DEF ShowDraft, StateSound, DraftOf
  <2> QED
    BY <1>14, <2>5, DialogueOnce DEF ShowDraft
<1>15. CASE ConfirmCreate(t)
  <2>1. CASE HasDraft(data)
    <3>1. PICK j : j = Job("create", "none", [data EXCEPT !.email = None])
      OBVIOUS
    <3>2. j.pc = "create" /\ DraftOf(j) = DraftOf(data)
      BY <1>0, <3>1, JobIs DEF DraftOf, Data
    <3>3. DraftOf(data') = DraftOf(data) /\ HasDraft(data')
      BY <1>0, <1>15, <2>1 DEF ConfirmCreate, Put, DraftOf, HasDraft, Data
    <3>4. ~crossed => StateSound' /\ Settled(j)'
      BY <1>15, <1>s, <2>1, <3>2, <3>3 DEF ConfirmCreate, StateSound, Settled, HasDraft, Begin
    <3> QED
      BY <1>15, <2>1, <3>1, <3>4, DialogueKept DEF ConfirmCreate
  <2>2. CASE ~HasDraft(data)
    BY <1>15, <2>2, ClearSound, DialogueOnce DEF ConfirmCreate
  <2> QED
    BY <2>1, <2>2
<1>16. CASE EndCreate(t)
  <2>1. CASE Clear
    BY <1>16, <2>1, ClearSound, DialogueOnce DEF EndCreate
  <2>2. CASE UNCHANGED fsm /\ (Put("create_locked", FALSE) \/ UNCHANGED data)
    <3>1. DraftOf(data') = DraftOf(data) /\ data'.panel = data.panel
          /\ data'.volume = data.volume /\ data'.suffix = data.suffix
      BY <1>0, <2>2 DEF Put, DraftOf, Data
    <3>2. ~crossed => StateSound'
      BY <1>16, <1>s, <2>2, <3>1 DEF EndCreate, StateSound
    <3> QED
      BY <1>16, <3>2, DialogueOnce DEF EndCreate
  <2> QED
    BY <1>16, <2>1, <2>2 DEF EndCreate
<1> QED
  BY <1>1, <1>3, <1>4, <1>5, <1>6, <1>7, <1>8, <1>9, <1>10, <1>11, <1>12, <1>13, <1>14,
     <1>15, <1>16 DEF Creating
(* The other dialogues write another state together with the data.         *)
LEMMA OtherDialogues ==
    ASSUME TypeOK, DialogueInv, NEW t \in Tasks, Changing(t) \/ Editing(t) \/ Leaving(t)
    PROVE  DialogueInv'
<1>0. ASSUME fsm' \notin {"volume", "expiry", "client_name", "confirm"} PROVE StateSound'
  BY <1>0 DEF StateSound
<1>1. ASSUME NEW k \in Kinds, NEW e \in Services, OpenMenu(t, k, e) PROVE DialogueInv'
  BY <1>0, <1>1, DialogueOnce DEF OpenMenu
<1>2. ASSUME NEW k \in Kinds, PickVolume(t, k) PROVE DialogueInv'
  <2>1. PICK v \in Volumes :
          Begin(t, Job("show", k, [NoData EXCEPT !.email = data.email, !.volume = v]))
    BY <1>2 DEF PickVolume
  <2>2. PICK j : j = Job("show", k, [NoData EXCEPT !.email = data.email, !.volume = v])
    OBVIOUS
  <2>3. j.pc = "show"
    BY <2>2, JobIs
  <2>4. Settled(j)'
    BY <2>3 DEF Settled
  <2> QED
    BY <1>2, <2>1, <2>2, <2>4, DialogueReads DEF PickVolume
<1>3. ASSUME NEW k \in Kinds, AskVolume(t, k) PROVE DialogueInv'
  BY <1>0, <1>3, KindStates, DialogueOnce DEF AskVolume
<1>4. ASSUME NEW k \in Kinds, TypeVolume(t, k) PROVE DialogueInv'
  BY <1>2, <1>4, ClearSound, DialogueOnce DEF TypeVolume
<1>5. ASSUME NEW k, NEW d, Clear, Begin(t, Job("change", k, d)) PROVE DialogueInv'
  <2>1. PICK j : j = Job("change", k, d)
    OBVIOUS
  <2>2. j.pc = "change"
    BY <2>1, JobIs
  <2>3. Settled(j)'
    BY <2>2 DEF Settled
  <2> QED
    BY <1>5, <2>1, <2>3, ClearSound, DialogueKept
<1>6. ASSUME NEW k \in Kinds, ConfirmChange(t, k) PROVE DialogueInv'
  BY <1>5, <1>6, ClearSound, DialogueOnce DEF ConfirmChange
<1>7. CASE ShowChange(t)
  <2>1. CASE UNCHANGED <<fsm, data, shown>>
    <3>1. ~crossed => StateSound'
      BY <2>1 DEF DialogueInv, StateSound
    <3> QED
      BY <1>7, <3>1, DialogueOnce DEF ShowChange
  <2>2. CASE fsm' = ConfirmState[task[t].kind]
    <3>1. task[t].kind \in Kinds
      BY <1>7 DEF ShowChange, TypeOK, HasWhatItNeeds
    <3> QED
      BY <1>0, <1>7, <2>2, <3>1, KindStates, DialogueOnce DEF ShowChange
  <2> QED
    BY <1>7, <2>1, <2>2 DEF ShowChange
<1>8. CASE EndChange(t)
  <2>1. ~crossed => StateSound'
    BY <1>8 DEF EndChange, DialogueInv, StateSound
  <2> QED
    BY <1>8, <2>1, DialogueOnce DEF EndChange
<1>9. ASSUME NEW f \in Fields, NEW e \in Services, OpenField(t, f, e) PROVE DialogueInv'
  BY <1>0, <1>9, DialogueOnce DEF OpenField, Fields
<1>10. ASSUME NEW f \in Fields, GiveField(t, f) PROVE DialogueInv'
  BY <1>5, <1>10, ClearSound, DialogueOnce DEF GiveField
<1>11. CASE Dismiss(t)
  BY <1>11, ClearSound, DialogueOnce DEF Dismiss
<1>12. ASSUME NEW e \in Services, SetUnlimited(t, e) PROVE DialogueInv'
  BY <1>5, <1>12 DEF SetUnlimited
<1>13. CASE Search(t) \/ StopSearch(t)
  BY <1>0, <1>13, DialogueOnce DEF Search, StopSearch
<1> QED
  BY <1>1, <1>2, <1>3, <1>4, <1>6, <1>7, <1>8, <1>9, <1>10, <1>11, <1>12, <1>13
    DEF Changing, Editing, Leaving

LEMMA DialogueInit == Init => DialogueInv
  BY IdleTyped DEF Init, DialogueInv, OneAtWork, StateSound, Settled

LEMMA DialogueStep == TypeOK /\ DialogueInv /\ [Next]_vars => DialogueInv'
<1> SUFFICES ASSUME TypeOK, DialogueInv, [Next]_vars PROVE DialogueInv'
  OBVIOUS
<1>1. CASE Crash
  BY <1>1, IdleTyped, ClearSound DEF Crash, DialogueInv, OneAtWork, Settled
<1>2. CASE UNCHANGED vars
  BY <1>2 DEF vars, DialogueInv, OneAtWork, StateSound, Settled
<1> QED
  BY <1>1, <1>2, CreatingDialogue, OtherDialogues DEF Next

(* While updates do not cross, the create dialogue never asks a question   *)
(* without the answers to those before it.                                 *)
THEOREM DraftsComplete == Spec => []DraftComplete
<1>1. Init => TypeOK /\ DialogueInv
  BY TypeInit, DialogueInit
<1>2. TypeOK /\ DialogueInv /\ [Next]_vars => (TypeOK /\ DialogueInv)'
  BY TypeStep, DialogueStep
<1>3. DialogueInv => DraftComplete
  BY DEF DialogueInv, StateSound, DraftComplete
<1> QED
  BY <1>1, <1>2, <1>3, PTL DEF Spec

(* While updates do not cross, what is created is what the last question   *)
(* about a new service has shown.                                          *)
THEOREM CreationsShown == Spec => []CreatedAsShown
<1>1. Init => TypeOK /\ DialogueInv
  BY TypeInit, DialogueInit
<1>2. TypeOK /\ DialogueInv /\ [Next]_vars => (TypeOK /\ DialogueInv)'
  BY TypeStep, DialogueStep
<1>3. DialogueInv => CreatedAsShown
  BY DEF DialogueInv, Settled, CreatedAsShown
<1> QED
  BY <1>1, <1>2, <1>3, PTL DEF Spec
=============================================================================
