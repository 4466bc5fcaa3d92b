---------------------------- MODULE UsageAlerts -----------------------------
(***************************************************************************)
(* The usage monitor: one background task (bot/tasks/usage_monitor.py)     *)
(* that, cycle after cycle, looks up how much of its cap every reseller    *)
(* and how much of its volume every service has used, sends a message at   *)
(* 80 and at 90 per cent, and remembers in usage_alert_sent what it sent   *)
(* (services/usage_alerts.py).  Meanwhile services are used, filled up,    *)
(* created and deleted by the handlers.                                    *)
(*                                                                         *)
(* Abstractions.  What can be used up is a subject: the cap of a reseller  *)
(* (name "cap") or a service.  How much of it is used is a percentage; a   *)
(* service already deleted from its panel is one the monitor skips.        *)
(* Reading which alerts were sent and clearing them are one step: only     *)
(* deletions of the same rows may come between.                            *)
(***************************************************************************)
EXTENDS Integers, Sequences

CONSTANTS
    AlertResellers, \* telegram ids
    Services,       \* emails of services
    OwnerOf,        \* the reseller an email belongs to (it carries the id)
    Dead,           \* services whose panel is out of reach for good
    Percents,       \* percentages of use that occur
    MaxFaults       \* bound: ends of the process, failed cycles, answers lost

Cap(r) == [owner |-> r, name |-> "cap"]
Service(n) == [owner |-> OwnerOf[n], name |-> n]
Subjects == {Cap(r) : r \in AlertResellers} \cup {Service(n) : n \in Services}
Thresholds == {80, 90}
Alerts == [subject : Subjects, threshold : Thresholds]
ResetBelow == 75
Gone == -1          \* no cap, or no such service

ASSUME AlertAssumptions ==
    /\ OwnerOf \in [Services -> AlertResellers]
    /\ Dead \subseteq Services
    /\ "cap" \notin Services
    /\ Percents \subseteq 0..100
    /\ MaxFaults \in Nat

VARIABLES
    percent,        \* what is used of a subject now
    enabled,        \* is_active of a reseller
    sent,           \* table usage_alert_sent
    monitor,        \* the background task and its session
    told,           \* history: alerts delivered since the subject was last low or new
    unmarked,       \* history: those of them no commit has followed
    leaving,        \* services whose alerts are cleared and whose row goes next
    crossed,        \* history: subjects deleted while their alert was on its way
    faults          \* history: how many faults there were

alertVars == <<percent, enabled, sent, monitor, told, unmarked, leaving, crossed, faults>>

(* The task between two cycles. *)
Asleep == [pc |-> "sleep", owners |-> {}, caps |-> [r \in AlertResellers |-> Gone],
           services |-> {}, email |-> "none", seen |-> Gone, pending |-> <<>>,
           broken |-> FALSE]

Looking(m) == m.pc \in {"reseller", "traffic", "thresholds"}

AlertTypeOK ==
    /\ percent \in [Subjects -> Percents \cup {Gone}]
    /\ enabled \in [AlertResellers -> BOOLEAN]
    /\ sent \subseteq Alerts
    /\ monitor.pc \in {"sleep", "reseller", "traffic", "thresholds", "send", "mark"}
    /\ monitor.owners \subseteq AlertResellers
    /\ monitor.services \subseteq Services
    /\ monitor.pc = "thresholds" => monitor.email \in monitor.services /\ monitor.seen \in Percents
    /\ monitor.caps \in [AlertResellers -> Percents \cup {Gone}]
    /\ monitor.pending \in Seq(Alerts)
    /\ monitor.pc \in {"send", "mark"} => monitor.pending # <<>>
    /\ monitor.broken \in BOOLEAN
    /\ told \subseteq Alerts
    /\ unmarked \subseteq Alerts
    /\ leaving \subseteq Subjects
    /\ crossed \subseteq Subjects
    /\ faults \in 0..MaxFaults

AlertInit ==
    /\ percent = [s \in Subjects |-> Gone]
    /\ enabled = [r \in AlertResellers |-> TRUE]
    /\ sent = {}
    /\ monitor = Asleep
    /\ told = {}
    /\ unmarked = {}
    /\ leaving = {}
    /\ crossed = {}
    /\ faults = 0

-----------------------------------------------------------------------------
(* The operators of services/usage_alerts.py.                              *)

(* Mistaken variants of a definition, each of which a run must refute, stand *)
(* before the definition they vary and are used by none.                     *)

About(s, alerts) == {a \in alerts : a.subject = s}

(* The alert of a threshold that is reached, unless it is among the known. *)
NewAlert(s, d, p, known) ==
    LET a == [subject |-> s, threshold |-> d] IN
    IF p >= ResetBelow /\ p >= d /\ a \notin known THEN <<a>> ELSE <<>>

(* mistake: the table is not asked what was sent *)
PendingAgain(s, p) == NewAlert(s, 80, p, {}) \o NewAlert(s, 90, p, {})

(* mistake: one alert that was sent stands for both *)
PendingOnce(s, p) == IF About(s, sent) = {} THEN PendingAgain(s, p) ELSE <<>>

(* pending_thresholds of what get_sent_thresholds finds in the table. *)
Pending(s, p) == NewAlert(s, 80, p, sent) \o NewAlert(s, 90, p, sent)

(* What was delivered about a subject no longer counts. *)
Forget(s) == told' = told \ About(s, told) /\ unmarked' = unmarked \ About(s, unmarked)

(* A subject is looked at: below RESET_BELOW_PERCENT what was sent is      *)
(* forgotten, else what is missing is put on the list.  The task goes on   *)
(* as m.                                                                   *)
Judge(s, p, m) ==
    /\ monitor' = [m EXCEPT !.pending = @ \o Pending(s, p)]
    /\ IF p \in 0..ResetBelow - 1
       THEN /\ sent' = sent \ About(s, sent)
            /\ Forget(s)
            /\ crossed' = crossed \ {s}
       ELSE /\ crossed' = crossed \cup ({s} \cap leaving)
            /\ UNCHANGED <<sent, told, unmarked>>

-----------------------------------------------------------------------------
(* The background task.                                                    *)

Env == <<percent, enabled, leaving>>

(* A new cycle: list_all reads the resellers, their caps and what is       *)
(* charged to them; nothing reads these columns again in this cycle.       *)
Wake ==
    /\ monitor.pc = "sleep"
    /\ monitor' = [Asleep EXCEPT !.pc = "traffic",
                                 !.owners = {r \in AlertResellers : enabled[r]},
                                 !.caps = [r \in AlertResellers |-> percent[Cap(r)]]]
    /\ UNCHANGED <<Env, sent, told, unmarked, crossed, faults>>

(* _check_reseller_quotas, and the services that list_for_reseller finds. *)
CheckReseller(r) ==
    /\ monitor.pc = "reseller"
    /\ r \in monitor.owners
    /\ Judge(Cap(r), monitor.caps[r],
             [monitor EXCEPT !.pc = "traffic", !.owners = @ \ {r},
                             !.services = {n \in Services : /\ OwnerOf[n] = r
                                                            /\ percent[Service(n)] # Gone}])
    /\ UNCHANGED <<Env, faults>>

(* _check_one_client: get_traffic of the service on its panel. *)
ReadTraffic(n) ==
    /\ monitor.pc = "traffic"
    /\ n \in monitor.services \ Dead
    /\ percent[Service(n)] # Gone
    /\ monitor' = [monitor EXCEPT !.pc = "thresholds", !.email = n, !.seen = percent[Service(n)]]
    /\ UNCHANGED <<Env, sent, told, unmarked, crossed, faults>>

(* No client for the panel is loaded, or the panel reports an error. *)
SkipService(n) ==
    /\ monitor.pc = "traffic"
    /\ n \in monitor.services \ Dead
    /\ monitor' = [monitor EXCEPT !.services = @ \ {n}]
    /\ UNCHANGED <<Env, sent, told, unmarked, crossed, faults>>

CheckService ==
    /\ monitor.pc = "thresholds"
    /\ Judge(Service(monitor.email), monitor.seen,
             [monitor EXCEPT !.pc = "traffic", !.services = @ \ {monitor.email},
                             !.email = "none", !.seen = Gone])
    /\ UNCHANGED <<Env, faults>>

(* mistake: an empty list is worked through like any other *)
AdvanceAnyway ==
    /\ monitor.pc = "traffic"
    /\ monitor.services = {}
    /\ monitor' = IF monitor.owners # {} THEN [monitor EXCEPT !.pc = "reseller"]
                  ELSE [monitor EXCEPT !.pc = "send"]
    /\ UNCHANGED <<Env, sent, told, unmarked, crossed, faults>>

(* The next reseller; after the last one, the messages. *)
Advance ==
    /\ monitor.pc = "traffic"
    /\ monitor.services = {}
    /\ monitor' = IF monitor.owners # {} THEN [monitor EXCEPT !.pc = "reseller"]
                  ELSE IF monitor.pending = <<>> THEN Asleep
                  ELSE [monitor EXCEPT !.pc = "send"]
    /\ UNCHANGED <<Env, sent, told, unmarked, crossed, faults>>

(* The message after the first of the list, in a session that may be broken. *)
NextMessage(b) ==
    monitor' = IF Len(monitor.pending) = 1 THEN Asleep
               ELSE [monitor EXCEPT !.pc = "send", !.pending = Tail(@), !.broken = b]

Deliver(a) ==
    /\ monitor.pc = "send"
    /\ a = Head(monitor.pending)
    /\ monitor' = [monitor EXCEPT !.pc = "mark"]
    /\ told' = told \cup {a}
    /\ UNCHANGED <<Env, sent, unmarked, crossed, faults>>

(* send_message raises: Telegram refuses the message (the reseller has     *)
(* blocked the bot, ...), or takes it and its answer is lost.              *)
DeliveryFails ==
    /\ monitor.pc = "send"
    /\ \/ UNCHANGED <<told, unmarked, faults>>
       \/ /\ told' = told \cup {Head(monitor.pending)}
          /\ unmarked' = unmarked \cup {Head(monitor.pending)}
          /\ faults < MaxFaults /\ faults' = faults + 1
    /\ NextMessage(monitor.broken)
    /\ UNCHANGED <<Env, sent, crossed>>

MarkSent ==
    /\ monitor.pc = "mark"
    /\ ~monitor.broken
    /\ sent' = sent \cup {Head(monitor.pending)}
    /\ unmarked' = unmarked \ {Head(monitor.pending)}
    /\ NextMessage(FALSE)
    /\ UNCHANGED <<Env, told, crossed, faults>>

(* The commit fails, and the message is out; the session then refuses      *)
(* every later commit of the cycle.                                        *)
MarkFails ==
    /\ monitor.pc = "mark"
    /\ IF monitor.broken THEN UNCHANGED faults
       ELSE faults < MaxFaults /\ faults' = faults + 1
    /\ unmarked' = unmarked \cup {Head(monitor.pending)}
    /\ NextMessage(TRUE)
    /\ UNCHANGED <<Env, sent, told, crossed>>

(* An exception nothing in the cycle catches: a panel out of reach raises  *)
(* httpx.HTTPError, which is no XuiError; or the database fails.           *)
CycleFails ==
    /\ \/ monitor.pc = "traffic" /\ monitor.services \cap Dead # {} /\ UNCHANGED faults
       \/ Looking(monitor) /\ faults < MaxFaults /\ faults' = faults + 1
    /\ monitor' = Asleep
    /\ UNCHANGED <<Env, sent, told, unmarked, crossed>>

Monitor ==
    \/ Wake \/ Advance \/ CheckService
    \/ \E r \in AlertResellers : CheckReseller(r)
    \/ \E n \in Services : ReadTraffic(n) \/ SkipService(n)
    \/ \E a \in Alerts : Deliver(a)
    \/ DeliveryFails \/ MarkSent \/ MarkFails \/ CycleFails

-----------------------------------------------------------------------------
(* What happens meanwhile.                                                 *)

(* A service is used or its volume changed; services are sold, the cap is  *)
(* changed; a service or a reseller is new.                                *)
Use(s, p) ==
    /\ percent' = [percent EXCEPT ![s] = p]
    /\ UNCHANGED <<enabled, leaving, sent, monitor, told, unmarked, crossed, faults>>

Switch(r) ==
    /\ enabled' = [enabled EXCEPT ![r] = ~@]
    /\ UNCHANGED <<percent, leaving, sent, monitor, told, unmarked, crossed, faults>>

(* The monitor has the subject in hand. *)
OnItsWay(s) ==
    \/ \E i \in DOMAIN monitor.pending : monitor.pending[i].subject = s
    \/ monitor.pc = "thresholds" /\ s = Service(monitor.email)
    \/ s.name = "cap" /\ s.owner \in monitor.owners

Cross(s) == crossed' = IF OnItsWay(s) THEN crossed \cup {s} ELSE crossed

(* mistake: what was sent about a deleted service stays in the table *)
ClearNothing(n) ==
    LET s == Service(n) IN
    /\ percent[s] # Gone
    /\ s \notin leaving
    /\ leaving' = leaving \cup {s}
    /\ Forget(s)
    /\ Cross(s)
    /\ UNCHANGED <<percent, enabled, monitor, sent, faults>>

(* delete_service, after it asked the panel: what was sent is forgotten... *)
ClearAlerts(n) ==
    LET s == Service(n) IN
    /\ percent[s] # Gone
    /\ s \notin leaving
    /\ leaving' = leaving \cup {s}
    /\ sent' = sent \ About(s, sent)
    /\ Forget(s)
    /\ Cross(s)
    /\ UNCHANGED <<percent, enabled, monitor, faults>>

(* ... and the row goes in a commit of its own. *)
DropService(n) ==
    LET s == Service(n) IN
    /\ s \in leaving
    /\ percent' = [percent EXCEPT ![s] = Gone]
    /\ leaving' = leaving \ {s}
    /\ Forget(s)
    /\ Cross(s)
    /\ UNCHANGED <<enabled, monitor, sent, faults>>

(* ResellerRepository.delete refuses a reseller who has services; all that *)
(* was sent to the reseller goes with the row.                             *)
DeleteReseller(r) ==
    LET s == Cap(r) IN
    /\ percent[s] # Gone
    /\ \A n \in Services : OwnerOf[n] = r => percent[Service(n)] = Gone
    /\ percent' = [percent EXCEPT ![s] = Gone]
    /\ sent' = {a \in sent : a.subject.owner # r}
    /\ told' = {a \in told : a.subject.owner # r}
    /\ unmarked' = {a \in unmarked : a.subject.owner # r}
    /\ Cross(s)
    /\ UNCHANGED <<enabled, monitor, leaving, faults>>

(* The process ends, perhaps with a message out that is not marked. *)
Stop ==
    /\ faults < MaxFaults /\ faults' = faults + 1
    /\ unmarked' = IF monitor.pc = "mark" THEN unmarked \cup {Head(monitor.pending)}
                   ELSE unmarked
    /\ monitor' = Asleep
    /\ leaving' = {}
    /\ UNCHANGED <<percent, enabled, sent, told, crossed>>

AlertNext ==
    \/ Monitor
    \/ \E s \in Subjects, p \in Percents : Use(s, p)
    \/ \E r \in AlertResellers : Switch(r) \/ DeleteReseller(r)
    \/ \E n \in Services : ClearAlerts(n) \/ DropService(n)
    \/ Stop

(* The task is scheduled; a panel that is asked again and again answers,   *)
(* and Telegram takes a message that is sent again and again.              *)
AlertFairness ==
    /\ WF_alertVars(Monitor)
    /\ \A n \in Services : SF_alertVars(ReadTraffic(n))
    /\ \A a \in Alerts : SF_alertVars(Deliver(a))

AlertSpec == AlertInit /\ [][AlertNext]_alertVars /\ AlertFairness

-----------------------------------------------------------------------------
(* What the monitor is for.                                                *)

(* The table tells what resellers were told ("avoid duplicate alerts",     *)
(* db/models.py:130): it hides no alert that was never delivered, and what *)
(* was delivered it holds, unless the commit after that very message       *)
(* failed, was never reached because the process ended or send_message     *)
(* raised (usage_alerts.py:183-186), or is still to come.  Excepted, until *)
(* it is next seen low, is a subject deleted while its alert was on its    *)
(* way: the code then puts a row back that nobody clears.                  *)
Settled == told \ unmarked
BeingMarked(a) == monitor.pc = "mark" /\ a = Head(monitor.pending)
TableTrue ==
    \A a \in Alerts :
        a.subject \notin crossed /\ ~BeingMarked(a) => (a \in sent <=> a \in Settled)

(* The code does repeat alerts, but each repetition has its own mishap: a  *)
(* message about to be sent is one its reseller already had only if the    *)
(* last time it was delivered no row could be written.  Nothing else makes *)
(* it repeat, neither cycles that failed before, nor what was deleted or   *)
(* used since the list of this cycle was made.                             *)
NotRepeated ==
    monitor.pc = "send" => Head(monitor.pending) \notin sent \cup Settled

(* A reseller whose cap or service stays above a threshold is told so, in  *)
(* spite of crashes, failed cycles and refused messages (README.md:259),   *)
(* and in the end a row says so, which ends the repetitions.               *)
High(a) == percent[a.subject] >= a.threshold /\ enabled[a.subject.owner]
Arrives(a) == <>[]High(a) => <>[](a \in told \cap sent \/ a.subject \in crossed)
AlertsArrive == \A a \in Alerts : Arrives(a)

(* The cap of a reseller has nothing to do with the services of another    *)
(* one: it is announced even while their panel is out of reach.            *)
CapAlertsArrive == \A a \in Alerts : a.subject.name = "cap" => Arrives(a)
=============================================================================
