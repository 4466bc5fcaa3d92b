# A specification of the reseller bot

The bot sells VPN services on 3x-ui panels through Telegram. Resellers create,
enlarge, reduce and delete services within a cap of volume an admin gives them;
guests buy plans with a receipt an admin approves; the bot updates its own code
and restores its own database when it starts. This directory models the parts of
the bot that can go wrong between two awaits, two commits or two starts of the
process, model-checks them with TLC and proves the main results with TLAPS.

Contents: [the system](#the-system) · [modules](#modules) · [runs](#runs) ·
[fairness](#fairness) · [proofs](#proofs) · [findings](#findings) ·
[what is not modelled](#what-is-not-modelled) · [plan](#plan).

## The system

| component | state it keeps | operations | talks to | what makes it correct |
|---|---|---|---|---|
| services of a reseller (`services/reseller_service.py`, `services/quota.py`) | none of its own; a session's cached rows while a handler runs | create, add volume, remove volume, delete, renew, enable, limit, comment | repository (commits), 3x-ui client (HTTP) | volume held <= volume charged <= cap; a failed operation leaves nothing half done; a handler touches only its own service, as long as its row id is not given again |
| admin edits (`services/reseller_edit.py`, `bot/handlers/admin_resellers.py`) | - | set, add, subtract, reset the cap; switch; delete; wizard | repository | a new cap is never below what is used |
| repository (`db/repository.py`, `db/session.py`, `db/models.py`) | SQLite tables; per session, every row it has read (`expire_on_commit=False`) | one commit per method | SQLite | unique names, ids, rows that belong together |
| guest sales (`bot/handlers/guest.py`, `admin_guest_orders.py`, `services/guest_sales.py`, `admin_plans.py`, `admin_guest_settings.py`) | plans, orders, settings, a hidden system reseller; the guest's conversation | pick, receipt, approve, reject, offer, hide, delete a plan, configure | repository, `create_service` | one waiting order per guest, but for receipts sent at once; a waiting order can be approved; an approved order has its service, and no other has one |
| update and restore (`services/updater.py`, `services/backup.py`, `bot/main.py`, `admin_update.py`, `admin_backup.py`) | staged files, the installed tree, `data/bot.db`, `data/backups`, result files | stage, cancel, confirm, apply at start | file system, systemd, pip | the newest data is never lost; what runs is one release; the bot comes up |
| conversations of resellers (`bot/handlers/reseller.py`, `bot/states.py`) | per user, one state and one dictionary in memory, shared by all dialogues | some forty handlers | all of the above | a button acts on what its message showed |
| conversations of admins (`bot/handlers/admin_*.py`) | the same, for the menus of an admin | some sixty handlers in nine dialogues | all of the above | what is typed, ticked or confirmed reaches what the question was about; no missing key |
| panel assignments (`services/reseller_panel_edit.py`, `db/repository.py`) | `reseller_panels` beside the older columns of `resellers` | add, remove, activate, inbounds, client limit, default panel | repository, registry | the two copies agree; no service outside an assignment |
| 3x-ui client (`xui/client.py`) | an HTTP session, a login | request with retries, bulk volume, read-modify-write of a client | 3x-ui | success means the operation took effect; unrelated fields keep their values |
| panel registry (`services/panel_registry.py`, `panel_resolve.py`) | one client object per active panel | load, reload, lookup | repository | a client for each active panel and no other, with the newest settings |
| usage alerts (`services/usage_alerts.py`, `bot/tasks/usage_monitor.py`) | `usage_alert_sent` | a cycle every few minutes | 3x-ui, Telegram | each threshold announced, again only when nothing could be noted of it; the table tells what was delivered and noted |
| rate limiter (`bot/middlewares/auth.py`) | hits of each user | check | - | never more than the limit in a minute |
| templates, reports, broadcast, texts, keyboards | tables of one row per operation, or none | - | - | - |

**How they interact.** aiogram starts one asyncio task per update, so handlers of
one user and of several interleave at every `await`. Each handler opens a
database session; its methods commit one by one, with panel calls in between and
no transaction around them. Because sessions do not expire what they have read,
a handler's last commit is computed from the row it read first, and a column is
written only when the handler changed it. The panel's state is separate from the
database and survives every failure of the bot; a panel call may take effect and
still fail. The process may end at any point; conversations are lost with it,
committed rows, panel clients and files are not.

**What is hard here.** Lost updates between handlers; operations of several
commits that stop half way; requests repeated after a lost answer; row ids used
again; approvals, rejections and edits of plans that cross each other; stale
buttons over shared conversation data; a background task whose list is made before
and worked through after many awaits; a start that is killed while it replaces
the program or the database. `PROJECT.json` lists each hazard with its line and
the properties that watch it.

## Modules

```
QuotaAccount            what is promised about a reseller's volume (abstract)
ResellerLedger          the handlers and sessions that keep the promise
LedgerRefinement        ResellerLedger under a mapping to QuotaAccount
ServiceIds              ResellerLedger with a history of ids given again
MCLedger, MCLedgerModes, MCLedgerIds
                        constants, initial states and instances for TLC
LedgerProofs            types, the charge and the cap, own services
SharedCapProofs         the account, the refinement, what services hold

GuestOrders             orders, plans, the system reseller, approvals
GuestReceipts           GuestOrders with a history of receipts that met
MCGuestOrders, MCGuestModes
GuestOrderProofs

Maintenance             staging, update, restore and start of the process
MCMaintenance
MaintenanceProofs

Conversation            the state and data of one reseller's dialogues
MCConversation
ConversationProofs

AdminConversation       the state and data of one admin's dialogues
MCAdmin
AdminConversationProofs

PanelAccess             panels, assignments and the default panel of a reseller
PanelRegistry           the clients of panels, made from their rows and reloaded
XuiClient               the calls of one client: attempts, lost answers, updates
MCPanelAccess           the three of them
PanelAccessProofs

UsageAlerts             the usage monitor and what it has sent
MCAlerts
PanelAndAlertProofs     PanelRegistry, XuiClient and UsageAlerts
```

The systems meet only where the code makes them meet: the confirmations of
Conversation are the `...Begin` steps of ResellerLedger, the saves of
AdminConversation those of ResellerLedger, PanelAccess and GuestOrders; GuestOrders
creates its services in the shape `create_service` has there; PanelAccess has a
charge of ResellerLedger as a change of the row that is not copied, and keeps of a
service the panel it lies on; what ResellerLedger takes as the outcomes of a panel
call is what XuiClient shows a call to do; the deletions of UsageAlerts are those of
ResellerLedger and PanelAccess, reduced to what they do to its table; Maintenance
takes every commit of the others as one `Change` of the database. They are checked
apart, because no property relates the inner state of two of them. Where one run
has several instances, its first state chooses among them and a variable (`about`,
`menus`) remembers the choice; a behaviour never changes it.

### ResellerLedger

* `resellers[r]` is the committed row: `quota` (`quota_bytes`), `lifetime`
  (`lifetime_allocated_bytes`), `active` (`is_active`). `records` is the table
  `client_records`; `nextId` the AUTOINCREMENT counter that tables made by
  migration 005 have and tables made by `create_all` lack (`IdReuse`). `panel[n]`
  is the panel's client `n`: the volume it may transfer and what it has used.
* `task[t]` is a running handler: its step `pc`, its request, and what its session
  cached (`quota`, `lifetime`, `active` of the reseller row, `id` and `alloc` of
  the record). A step is the code between two awaits that change something.

| code | actions |
|---|---|
| `confirm_create`, `create_service` | `CreateBegin` (row read) `CreateValidate` (`validate_create`, `email_exists`) `CreateProbe` (`get_client`) `CreateInsert` `CreatePanel` `CreateSubId` then `Charge`, or `CreateUndo` |
| `add_traffic_confirm`, `add_service_traffic` | `AddBegin` `Fetch` `AddPanel` `AddRecord` `Charge` |
| `reduce_traffic_confirm`, `remove_service_traffic` | `RemoveBegin` `Fetch` `RemoveTraffic` `RemovePanel` `RemoveRecord` `Credit` |
| `service_delete_confirm`, `delete_service` | `DeleteBegin` `Fetch` `DeleteTraffic` `DeletePanel` `DeleteRecord` `Credit` |
| `apply_quota`, `apply_add_quota`, `apply_subtract_quota`, `apply_reset_quota_usage`, `reseller_toggle` | `SetBegin` `GrowBegin` `ShrinkBegin` `ResetBegin`/`ResetSum` `ToggleBegin`, then `AdminCommit` |
| the end of the process | `Crash`: tasks go, tables and panel stay |
| the client's traffic | `Consume` (external) |

`Put(committed, read, new)` is SQLAlchemy's unit of work: a commit writes a column
over whatever is committed, and only if the handler changed the value it read.
`Attempts` is how often `XuiClient._request` sends a request; every attempt may
take effect before its answer is lost. Left out: panels and inbounds of an
assignment (a start they refuse changes nothing), templates, expiry dates.

`QuotaAccount` is the promise: buying, giving back, forfeiting and forgiving are
single steps on `[quota, charged, held]`. `LedgerRefinement` maps the ledger to
it: `held` counts a record from the moment it is charged and until it is
credited. `ImplementsAccountAlone` (for handlers that run one at a time) says
that every commit of the program is one account operation or none.

`ServiceIds` asks what the row id a session has cached means by the time it is used.
A new installation gets its tables from `create_all` (`db/session.py:28`), without
AUTOINCREMENT, and migration 005 leaves them so: SQLite gives the id of a deleted row
again. The history `regiven` has the handlers whose id was given to a new row after the
row they had read was gone. `TouchesOwnService` says that every other handler changes
and removes rows of its own service only; the handlers in `regiven` do hit the row of
another service, and without the exception TLC refutes the property.

### GuestOrders

* `plans[p]`, `orders` (a sequence: rows are never deleted), `sales` (the settings
  row), `pool` (the row of the system reseller: its panel, cap and use),
  `records` and `clients` (the orders whose service exists in `client_records` and
  on the panel: `guest{tg}_{order}` names the order), `draft[g]` (the guest's
  conversation), `task`.
* `PickPlan`, `ReceiptBegin`, `Submit`, `ClearDraft` are `guest_plan_picked` and
  `guest_receipt_received`. `ApproveBegin` is `guest_order_approve` up to its first
  await on a commit, `Ensure` `ensure_system_reseller`, `Grant` `add_quota_bytes`,
  `Check` `xui_for_reseller_panel` and `validate_create`, `Probe` to `Charge`
  `create_service` (in the shape it has in ResellerLedger), `Mark`
  `mark_approved`. `RejectBegin`/`Reject`, `Offer`, `HideBegin`/`Hide`,
  `DeleteBegin`/`Drop`, `Configure`, `ToggleSales` are the admin's side.
* A guest may send receipts faster than they are answered (Telegram delivers an album
  as several messages at once). `GuestReceipts` adds the histories `met` (receipts that
  were between the look for a waiting order and the insertion together with another of
  the same guest) and `twins` (the orders such receipts inserted).
  `OnePendingPerGuest` allows two waiting orders of one guest only among the `twins`.

### Maintenance

* Files: `tree[p]` (the version of each installed part, `Broken` between its
  `rmtree` and the end of its `copytree`), `zip`, `target`, `report`
  (`pending_update.zip`, `pending_update.json`, `update_result.json`), `db`,
  `journal` (a rollback journal a killed process left), `backups`, `restore` and
  `described` (`pending_restore.db` and whether its JSON file is there). A database is
  the number of changes made to it; `Empty` has no data and `Broken` is damaged: an
  interrupted write leaves them, and an admin may upload them (`Uploads`), since
  only the first bytes of an upload are looked at (`backup.py:111`).
* `process` is where `main` is and the version it imported (`RUNNING_VERSION`).
  `Boot` is systemd's start; `NothingStaged`, `UpdateBegin`, `CopyPart`,
  `UpdateDone`, `UpdateReport`, `UpdateFail`, `CopyFail` are
  `apply_pending_update`; `RestoreBegin`, `EmptyDb`, `FillDb`, `RestoreDone`,
  `NoRestore`, `FillFail` are `apply_pending_restore`; `InitDb`, `Notify` end the
  start. `Change` is any commit of the bot, `StageUpdate`, `CancelUpdate`,
  `StageRestore`, `CancelRestore`, `MakeBackup`, `Restart` the admin. `Kill` and
  `KillStaging` end the process between any two steps, or in the middle of
  writing a staged file.
* `changes`, `announced`, `damaged`, `harm` and `faults` are history variables. `harm`
  has what may keep the bot down: a part of the program whose copy was cut short
  (Python cannot import it), a database whose restore was cut short, and a database over
  which a damaged file was restored. `ComesUp` says that the bot comes up from every
  other state it is down in.

### Conversation

* `fsm` and `data` are what `FSMContext` holds for one reseller: one state and one
  dictionary, in memory (`MemoryStorage`), used by every dialogue. The keys that
  several handlers read are kept: `email`, `panel` (`panel_id`), `volume`
  (`volume_gb`), `days` (`expiry_days`), `suffix` (`client_suffix`) and
  `create_locked`. `None` is a missing key.
* `task[t]` is a handler with what it has read from the data. Reading and writing
  `MemoryStorage` does not suspend, so a step goes from one await that does (the
  database, the panel) to the next; updates of one user are handled by separate
  tasks and are not serialised.
* Buttons stay on old messages and messages survive a restart, so almost every
  action may happen in any state; where the code filters by state
  (`CreateServiceStates.confirm` and the typed answers) the guard is on `fsm`.
* `shown` (the last question of each kind), `asked` (the service whose field was
  asked for last) and `crossed` (an update has come while another was at work) are
  history variables.

| code | actions |
|---|---|
| `start_create`, `create_manual`, `create_pick_panel`, `create_from_template` | `StartCreate` `OfferPanels` `CreateManual` `PickPanel` `SetPanel` `PickTemplate` `UseTemplate` |
| `process_volume`, `process_expiry`, `process_client_name`, `create_auto_name`, `_show_create_confirm` | `GiveVolume` `GiveDays` `SetDays` `GiveName` `ReadDraft` `ShowDraft` |
| `confirm_create` | `ConfirmCreate` `EndCreate` |
| add and reduce volume: menu, quick volume, typed volume, `_show_..._confirm`, `..._confirm` | `OpenMenu` `PickVolume` `AskVolume` `TypeVolume` `ShowChange` `ConfirmChange` `EndChange` |
| expiry, limit, comment | `OpenField` `GiveField` `SetUnlimited` `EndChange` |
| cancel buttons, search | `Dismiss` `Search` `StopSearch` |
| the end of the process | `Crash`: the conversation goes, the messages stay |

### PanelAccess

* `panels[p]` is whether panel `p` is active (`None`: no row), `reseller` the row of
  `resellers` with its default panel and the columns that are copied (`Columns`:
  the inbounds, `max_clients`), `assigned[p]` the row of `reseller_panels`,
  `services[p]` the number of records on `p`. One reseller: no operation relates
  two.
* `task[t]` is a handler of the admin (`Admins`) or of the reseller (`Sellers`):
  the row it has read and the assignment its session still holds. `Changed` is
  the unit of work again, for the columns of a row.
* Every method of `ResellerRepository` that changes a row commits it, refreshes it,
  reads the assignment of its default panel and then adds or edits that one
  (`_sync_primary_panel_assignment`): `CommitRow` `Refresh` `Lookup` `Sync`. A charge
  does so as well, though it changes no copied column.
* Any handlers may cross. What the code breaks then is left to three history
  variables, which except no more than that. `spoiled` has the panels taken away by a
  handler that met another one, until nothing dangles there; `NoDangling` is about the
  others. `revoked` has the panels taken away and not given back; a removal does not
  count when the panel is the default one or a handler at work is about to copy to it or
  to make it that (`Reviving`), because it comes back then. `apart` is true when an edit
  of the copied columns has met another handler, a process has ended between its two
  commits, or the default panel's assignment was removed, until a handler that changes
  the row and meets no other has ended (`Sync`, `DefaultCopy`); `RowsAgree` is about the
  rest, where charges, services, switches and assignments cross as they like.

| code | actions |
|---|---|
| `wizard_save`, `upsert`; inbounds and limit; charges and refunds | `NewBegin` `EditBegin` `ChargeBegin`, then `InsertRow` or `CommitRow`, `Refresh` `Lookup` `Sync` |
| `create_service`, `delete_service` | `CreateBegin` `CreateRecord` `CreateOnPanel` (then `CommitRow`...) or `CreateFails`; `Drop` |
| `apply_add_panel_assignment`, `apply_remove_panel_assignment`, `apply_panel_toggle_create_allowed` | `AddBegin` `Add`; `RemoveBegin` `RemoveOthers` `Remove`; `Switch` |
| `apply_set_default_panel`, `apply_reseller_panel` | `DefaultBegin` `DefaultFetch` `DefaultCopy` |
| panels: create, switch, delete; deletion of a reseller | `CreatePanel` `SwitchPanel` `DeletePanelBegin`/`DeletePanel`; `DeleteBegin`/`Delete` |
| the end of the process | `Crash` |

### PanelRegistry

* `rows[p]` is the row of `panels`: a version of its connection settings and
  `is_active`. `clients[p]` is `PanelRegistry._clients`: the version a client was
  made from, or none. `visit[v]` is a handler at work on a panel with the row its
  session has. `raced` has the panels that were last written while another handler
  was at work on them.
* `AddPanel`, `ReadRow` then `EditPanel` or `TogglePanel`, `DropPanel` and `Reread` are
  the handlers of `admin_panels.py`; `SaveReseller` the end of the wizard; `Reload`
  and `Install` are `reload_panel` before and after it awaits the close of the old
  client; `FindClient` is `_xui_for_panel_id`; `Restart` is a new process and
  `load_from_db`.
* Closing is no state of a client here: httpx refuses a closed client, `XuiClient`
  opens a new one for the next request, so a handler that holds an old client goes
  on with the settings it was made from.

### XuiClient

* `remote[e]` is a service on the panel (volume, one settable field, switch),
  `call[c]` a running call with its request, the service it has read, how many
  attempts have failed, how often the panel has acted on it and whether it said that
  the service is absent. An addition to an absent service is a success to the caller
  (`client.py:426`), a subtraction is not.
* `Begin` is a call of `create_client`, `delete_client`, `add_client_traffic_bytes`,
  `subtract_client_traffic_bytes` or one of the four updates of a field; `Get` is the read of
  `_get_client_dict_for_update`, `PostRefused`, `PostActs` and `PostSkips` an attempt
  of `_request` with its outcome, `Retry` the next attempt or the exception.
* `due` is what the service would be if every change were applied to it in turn;
  `mixed` the services changed while another handler held a copy to write back.

### UsageAlerts

* A subject is the cap of a reseller or a service; `percent` is what is used of it
  now (`Gone`: no cap, no service). `sent` is the table `usage_alert_sent`, `monitor`
  the task of `tasks/usage_monitor.py` with its session, its list of messages and
  what is left to look at. `told` (what was delivered), `unmarked` (what of it no commit
  has followed: the process ended or the commit failed after `send_message`, or
  `send_message` raised though the message was out), `crossed` (subjects deleted
  with their alert on its way), `faults` are history variables; `leaving` has the
  services between the two commits of a deletion. Nothing that was delivered leaves
  `told` before its subject is used less or deleted.

| code | actions |
|---|---|
| `usage_alert_loop`, `collect_pending_alerts` | `Wake` `Advance` |
| `_check_reseller_quotas` | `CheckReseller` |
| `_check_clients`, `_check_one_client` | `ReadTraffic` `SkipService` `CheckService` |
| `pending_thresholds`, `clear` below 75 per cent | `Judge` |
| `run_usage_alert_cycle`, `mark_sent` | `Deliver` `DeliveryFails` `MarkSent` `MarkFails` |
| an exception that nothing in the cycle catches | `CycleFails` |
| `delete_service`, `ResellerRepository.delete`, the switch, use | `ClearAlerts` `DropService` `DeleteReseller` `Switch` `Use` |
| the end of the process | `Stop` |

### AdminConversation

* As in Conversation, one `fsm` state and one dictionary `data`, shared by the nine
  dialogues of the admin menus; `task[t]` is a handler with what it has read.
  `question` is the question the conversation waits for an answer to, with what it
  was about, and `crossed` becomes true once an update has come while another was
  being handled. What is typed is one draft; `given` has the keys that have been
  typed.
* A handler that looks at the conversation and writes it after a wait has an action
  for each; one that only looks or only writes has one.
* Of the confirmation of a reseller's new panel (`set_confirm`) `ConfirmsWhatItShows`
  says that it saves the panel it shows and shows the label the data has. That label
  need not be of the reseller it changes: an edit menu of an older message replaces the
  reseller in the data and leaves the label (`admin_resellers.py:666`,
  `admin_set_panel.py:209`), without any crossing.

| dialogue (`bot/handlers/`) | actions |
|---|---|
| add a reseller (`admin_resellers.py`) | `StartReseller` `GiveTelegramId` `StoreTelegramId` `GiveResellerName` `OfferPanels` `PickResellerPanel` `StoreResellerPanel` `GiveQuota` `ListInbounds` `ToggleInbound` `ConfirmReseller` `ShowReseller` `SaveReseller` `ResellerMenus` |
| edit a reseller (`admin_resellers.py`) | `EditMenus` `ResetQuota` `AskValue` (`EditQuota`, `EditNameOrLimit`) `GiveValue` `AskAllowed` `AskAttach` `ToggleEdited` `SaveInbounds` |
| choose a reseller's panel (`admin_set_panel.py`) | `StartSetPanel` `PickReseller` `PickNewPanel` `StoreNewPanel` `CancelSetPanel` `SaveSetPanel` |
| give a reseller a panel (`admin_reseller_panels.py`) | `AssignMenus` `StartAssign` `PickAssignPanel` `ListAssign` `ToggleAssigned` `SaveAssign` |
| panels, templates, plans | `Answer` and `Save` with `PanelSteps`, `TemplateSteps`, `PlanSteps` |
| edit a panel (`admin_panels.py`) | `PanelMenus` `AskPanelValue` `GivePanelValue` |
| broadcast (`admin_broadcast.py`) | `StartBroadcast` `Compose` `ShowBroadcast` `SendBroadcast` `CancelBroadcast` |
| guest sales (`admin_guest_settings.py`) | `SalesMenus` `AskGuestPanel` `PickGuestPanel` `ListGuestInbounds` `ToggleSold` `SaveGuestPanel` `AskCard` `GiveCard` |
| update, backup (`admin_update.py`, `admin_backup.py`) | `UpdateMenus` `BackupMenus` `AskFile` `GiveFile` `RestoreFile` |
| the end of the process | `Crash` |

Definitions marked "mistake" are wrong variants of the definition after them. No
action uses them; they are there so that each property can be shown to notice a
plausible bug in the code it is about (`PROJECT.json`, "mutants").

## Runs

| run | question | instance | result |
|---|---|---|---|
| ledger | Does a reseller's volume keep the promise of QuotaAccount? | "alone": 1 handler at a time, 2 names, volumes 1-2, cap <= 4, 2 attempts per request, every operation; "crossed": 2 handlers, crashes, 1 name, no edits of the cap; "deletions": 3 handlers delete 2 sold services | `TypeOK`, `LifetimeWithinQuota`, `SharedCapAlone`, `DeletionsCovered`, `ImplementsAccountAlone` hold |
| ledger_ids | Which handlers can hit another service's row, in a table that gives ids again? Does every handler end? | 2 handlers, 2 names, create and delete, 3 ids, `IdReuse = TRUE` | `TouchesOwnService` (only a handler whose id was given again), `HandlersFinish` hold |
| ledger_overcommit | Is the cap shared when two additions run together? | 2 handlers, 2 sold services | `SharedCap` **violated** |
| guest | Is a waiting order approvable and the grant enough? Do crossing approvals keep orders and services together? | "alone": 1 handler at a time, 2 plans, 2 orders of one guest, crashes; "crossed": 2 handlers, 2 guests, 3 orders, 1 plan, no rejections and plan removals; receipts sent at once | `TypeOK`, `OnePendingPerGuest` (but for receipts that met), `ApprovedHasService`, `PendingPlanExistsAlone`, `GrantSufficesAlone`, `ServicesAccountedCrossed` hold |
| guest_panel_change | Does an approval deliver after the admin chose another panel? | 1 handler, 2 panels | `DeliveryPanelAssigned` **violated** |
| maintenance | Does any staging, kill or disk failure lose data or mix releases? What can keep the bot down? | 2 parts, 3 releases, 2 changes, 2 faults, damaged and empty uploads | `TypeOK`, `Recoverable`, `RunningTreeWhole`, `ReportedInstalled`, `ComesUp` (only a copy cut short or a damaged file restored keeps it down) hold |
| conversation | Does a button or a typed answer act on what its question was about? | 2 handlers, 2 services, 2 panels, every template, crashes | `TypeOK`, `AnswerGoesToAsked`, `DraftComplete`, `CreatedAsShown` hold |
| conversation_stale | Does a confirmed change go to the service its question showed? | 1 handler | `ChangedAsShown` **violated** |
| admin | Does an answer of an admin reach what was asked about, is every key there? Is what is saved what was shown, but for the reseller a new panel is for? | 2 handlers in every pair of the nine dialogues, 1 handler at a time in all nine; 2 resellers, 2 panels, 1 inbound, 2 drafts, crashes | `TypeOK`, `AnswerGoesToAsked`, `ConfirmsWhatItShows`, `KeysPresent` hold |
| panels | When do the tables about a reseller's panels agree, which services keep their panel, which removed panels stay removed? Does the registry follow the rows? What does a call that fails, repeats or overlaps do to a service? | "access": 1 admin, 2 handlers of the reseller, 2 of the three at a time, 2 panels, 1 copied column of 2 values, every operation, crashes; "registry": 2 panels, 2 handlers, 2 versions, restarts; "calls": 2 callers, 1 service, 2 attempts | `TypeOK`, `NoDangling`, `RowsAgree`, `RemovedStays`, `RegistryTypeOK`, `RegistryAgrees`, `CallTypeOK`, `NothingOverwritten`, `SuccessMeansDone` hold |
| alerts | Does the table tell what was delivered, is nothing repeated but what could not be noted, does every alert arrive? | 1 reseller, 1 service, 50, 85 and 95 per cent, 1 fault (end of the process, failed cycle or commit, lost answer), deletions, switches | `AlertTypeOK`, `TableTrue`, `NotRepeated`, `AlertsArrive` hold |
| alerts_starved | Is a reseller warned whatever the panel of another one does? | 2 resellers, 1 service on a dead panel | `CapAlertsArrive` **violated** |

**Why the bounds are enough.** Quantities matter only through comparisons with a cap, a
minimum and a use, so one unit below, at and above each of them is covered by volumes 1
and 2 and caps of 3 to 6. Every race in the code is between two handlers that touch one
row, so two tasks show it; deletions get three, because a refund may race with another
that itself raced. Two names are needed for "another service", three ids for an id given
again. Guests: two guests for "another guest's order", three orders so that one guest
can come back after an approval. Maintenance: two parts make a mixed tree, three
releases allow an update over an interrupted one and a refused older file, two faults
allow a kill during the repair of the first kill, and a file torn by one kill to be
restored before the next. Conversations: two services (resellers, panels) for "another
service", two panels because one panel asks no question, two values of what a property
tells apart (days and panels in the large run, volumes in the small one: the code treats
them alike), two tasks because a race there is of one handler with one other; some
properties speak of updates that do not cross, and then one task would do.
AdminConversation takes its dialogues in pairs when two handlers run at once, because a
race there is of two handlers, each in one dialogue; what a longer walk through the
menus leaves in the data is met by one handler at a time in all nine. They have no
bounds on behaviour. PanelAccess: services lie on one of the two panels only, since the
two differ only in which is the default, which changes; two panels, one of them the
default and one not; two values of a column are "changed" and "not changed"; one service
on a panel is enough to forbid its removal. Every operation is there and any two
handlers cross, two of the reseller from tables that nothing parted or spoiled; that two
admins' handlers cross is left to the theorems. A panel and its assignment are not both
switched off, and an edit changes its column. Registry: two
panels for "another one", two handlers because a race there is of two; calls: two
attempts for "again", one service because no call relates two, volumes of up to 2.
Alerts: the percentages are below, between and above the thresholds, 50 is below the
reset; one reseller and one service are the two kinds of subject, and subjects meet only
in the list, for which two suffice (the theorems are about any number); one fault at any
step. `MaxTotal`, `MaxVersion`, `MaxServices`, `MaxQuota`, `MaxAlloc`, `MaxUsed`,
`MaxId`, `MaxPlan`, `MaxOrders`, `MaxPool`, `MaxFaults`, `MaxChanges` are bounds of the
model and stand in the guards of the actions named for them; the program has no such
limits. In the crossed handlers of guest, rejections and plan removals are left out
because with them the properties are about which of two admins commits last, and no
document says who should win. `CHECK_DEADLOCK FALSE` appears only in the guest and
maintenance runs: at its bounds, or with nobody using it, that system rests; an
installation whose files are broken stays down.

## Fairness

`MCLedgerIds!ShopSpec` (`ResellerLedger!FairSpec` for creations and deletions) assumes weak
fairness of the steps of a handler that has begun: asyncio resumes a
task whose await is done, database calls return, and `httpx` calls end by their
timeouts. Nothing is assumed about new requests or about the panel's answers:
success and failure of a call are both allowed, always. `Maintenance!FairSpec`
assumes weak fairness of `Start`: systemd starts the service whenever it is down
(`Restart=always`) and the start runs on as long as nobody kills it; kills are
bounded by `MaxFaults`. `AlertFairness` assumes weak fairness of `Monitor` (the loop
of `usage_alert_loop` sleeps, runs a cycle, catches what it raises and sleeps
again), and strong fairness of `ReadTraffic` and `Deliver`: a panel that is asked in
every cycle answers now and then, unless it is among the `Dead` ones, and Telegram
accepts a message that is sent again in every cycle. `AlertsArrive` needs both: a
service that is never read and a reseller who has blocked the bot are never told. `ComesUp` promises
no start to a bot that `KeptDown` describes: it stays down until somebody repairs it.
Everything else is checked without fairness.

## Proofs

TLC checks the instances above; TLAPS proves the following for all values of the
constants (number of handlers, resellers, services, guests, parts, releases, attempts
and so on), from the assumptions named in each module (`LedgerAssumptions`,
`GuestAssumptions`, `MaintenanceAssumptions`, `ConversationAssumptions`,
`AdminAssumptions`, `PanelAssumptions`, `RegistryAssumptions`, `CallAssumptions`,
`AlertAssumptions`: bounds are naturals, volumes positive, `None` is no value) and those
stated in the theorem.

| theorem | says | argument |
|---|---|---|
| `LedgerProofs!TypeCorrect` | `CrashSpec => []TypeOK` | by itself not inductive: a job also has the owner, name and id its step needs |
| `LedgerProofs!LifetimeCapped` | if no operation edits caps, `CrashSpec => []LifetimeWithinQuota` | every cached `lifetime` was once at most the cap, which does not change; a job past its check caches `lifetime + vol <= quota` |
| `LedgerProofs!LifetimeCappedSerially` | if one handler runs at a time and there is no reset, the same with all cap edits | a running job's cache equals the committed row, so floors and checks are exact |
| `LedgerProofs!OwnServiceTouched` | `IdsSpec => TouchesOwnService`, whether ids are given again or not | `IdInv`: ids are unique in the table (and below `nextId` where there is AUTOINCREMENT); a job's id names a row with the job's name and owner or no row, unless the job is in `regiven` |
| `SharedCapProofs!AccountAlwaysSound` | the abstract account keeps `held <= charged <= quota` | inductive as it stands |
| `SharedCapProofs!SerialImplementsAccount`, `OneAtATimeImplements` | `SerialSpec => ImplementsAccount`: every step of a handler that runs alone is one operation of the account or a stutter | `SerialInv`: ids are unique and below `nextId`; one handler is at work (`OneBusy`), its caches are the committed rows and what it has still to charge or give back is measured by its record (`Known`); `accountOf` is sound |
| `SharedCapProofs!SerialSharedCap`, `OneAtATimeSharesCap` | `SerialSpec => [](SharedCap /\ LifetimeWithinQuota)`, with every edit of the admin, the reset included | a consequence of `SerialInv`: between handlers `held` is what services hold, and during one nothing is charged that the check did not allow |
| `SharedCapProofs!DeletionsKeepCovered`, `InterleavedDeletionsCovered` | any number of deletions at once, crashes included: `[]ActiveCovered` from every settled state | `DelInv`: each deletion has cached a charge from which what it gives back can still be taken, because its row is there or because another deletion has taken the row from what services hold (`Refundable`) |
| `GuestOrderProofs!TypeCorrect` | `CrashSpec => []TypeOK` | with `JobsSound`: what a job at each step caches |
| `GuestOrderProofs!OneOrderAtATime` | `ReceiptSpec => []OnePendingPerGuest`, receipts sent at once included | `LookedMet` and `WaitingMet`: two receipts between look and insertion are both in `met`; a receipt beside a waiting order of its guest is in `met` and the order in `twins` |
| `GuestOrderProofs!ApprovedKeepsService` | `CrashSpec => []ApprovedHasService` | with `HeldOnce`, `HeldRecorded`, `ApprovedReleased`: at most one job holds an order's service, what it holds is recorded, and nobody holds that of an approved order |
| `GuestOrderProofs!NoServiceGivenAway`, `NoneGivenAwayCrossed` | without rejections, `Spec => []ServicesAccounted` | a service is created by an approval that holds its order and is either approved with it or undone |
| `GuestOrderProofs!SerialGrantSuffices`, `GrantSufficesOneAtATime` | handlers one at a time, crashes anywhere: `SerialSpec => []GrantSuffices` | `FundsInv`: the pool's use never passes its cap, a handler that has granted has read the row it wrote, and the grant was at least what the plan needs |
| `GuestOrderProofs!SerialPlanExists`, `PlanExistsOneAtATime` | the same, `SerialSpec => []PendingPlanExists` | `PlansInv`: a receipt that is being stored is for a plan that is there; no order waits for a plan a handler is about to delete |
| `MaintenanceProofs!TypeCorrect`, `DataKept`, `TreeWhole`, `ReportTrue` | `Spec => []TypeOK`, `[]Recoverable`, `[]RunningTreeWhole`, `[]ReportedInstalled` | `CopySound` (what holds during a copy), `MixedSound` (an interrupted copy leaves the staged release, a readable database and no journal, so the next start must repeat it), `ReportKept`, `RestoreSound` (what is about to be overwritten is in a backup) |
| `ConversationProofs!TypeCorrect` | `Spec => []TypeOK` | inductive as it stands: `TypeOK` includes what each step of a handler needs (`HasWhatItNeeds`) |
| `ConversationProofs!AnswersReachAsked` | `Spec => []AnswerGoesToAsked` | inductive with `TypeOK`: a handler that stores another service also leaves the field states |
| `ConversationProofs!DraftsComplete`, `CreationsShown` | `Spec => []DraftComplete`, `[]CreatedAsShown` | `DialogueInv`: unless updates crossed, at most one handler is at work (`OneAtWork`), the state implies the keys it needs and, in `confirm`, that the draft is the one shown (`StateSound`), and what the working handler has read is still what the data holds (`Settled`) |
| `PanelAccessProofs!TypeCorrect`, `NothingDangles` | `Spec => []TypeOK`, `[]NoDangling`, any handlers crossing | `Shape` (what a handler has read at each step), `Met` (two that are at work both know that they met); `SpoilInv`: about a panel that is not `spoiled` the tables are sound and what each handler has checked still holds (`Relies`), since only a removal can end it, and a removal that met somebody spoils its panel |
| `PanelAccessProofs!RemovedStayRemoved` | `Spec => []RemovedStays`, any handlers crossing | `RevokedInv`: a revoked panel is unassigned, not the default one, and no handler is about to copy to it or to make it that (`Gone`); only additions and new rows end that, and they give it back |
| `PanelAccessProofs!TablesAgree` | `Spec => []RowsAgree`, any handlers crossing | `AgreeInv`: what a handler that met nobody has read is what is there (`Fresh`), so that its copy mends the tables; while nothing parted them and nobody edits, what the reseller's handlers have read of the row and of the assignment is the same (`Follows`), so that a charge copies what is there already |
| `AdminConversationProofs!TypeCorrect`, `AnswersReachAsked` | `Spec => []TypeOK`, `[]AnswerGoesToAsked` | each handler that writes `reseller_tg_id`, `edit_kind` or `panel_id` also leaves the states that read them, or asks anew, in the same step |
| `AdminConversationProofs!ConfirmationsShown`, `KeysThere` | `Spec => []ConfirmsWhatItShows`, `[]KeysPresent` | for the dialogues that do not wait, state and data change together; for the others, while updates do not cross, at most one handler is at work and what it has read is still what the data holds |
| `PanelAndAlertProofs!RegistryTypeCorrect`, `RegistryFollowsRows` | `RegistrySpec => []RegistryTypeOK`, `[]RegistryAgrees` | `Agreeing`: since a panel was last written alone, whoever is at work on it has read its row, and a client that is not yet right is being seen to |
| `PanelAndAlertProofs!CallTypeCorrect`, `ChangesKept`, `SuccessTrue` | `CallSpec => []CallTypeOK`, `[]NothingOverwritten`, `[]SuccessMeansDone` | the copy of an update that is not among the `mixed` is the service as it is, but for its own earlier hits, which writing it again repeats (`CopyTrue`); each attempt that acts adds one hit and, unless it succeeds, one try (`CallSound`) |
| `PanelAndAlertProofs!AlertsTypeCorrect`, `TableTells`, `NothingRepeated` | `AlertSpec => []AlertTypeOK`, `[]TableTrue`, `[]NotRepeated` | `ListSound` (the list has nothing twice, nothing that was sent and nothing about what is still to be looked at), `TableSound` (table and deliveries differ by the alert being marked and by what was deleted under way), `DeletionsSound` (of what is deleted nothing is sent or listed, unless the deletion crossed its alert) |

The assumption on caps is needed: without `Ops` free of cap edits, a cap lowered while a
creation is on its way ends below the charge. So are the exceptions that histories make.
TLC refutes, each in seconds to a minute: `TouchesOwnService` without `regiven` (a
second deletion in flight removes the row of a service created meanwhile);
`OnePendingPerGuest` without `twins`; `NoDangling` without `spoiled` (an assignment is
removed between the check of a creation and its record); `RowsAgree` without `apart` (an
edit crosses a charge); `RemovedStays` with the default panel's removal counted;
`ComesUp` without any one of the three kinds of `harm`; `NotRepeated` and `TableTrue`
without `unmarked`; `ConfirmsWhatItShows` if the reseller shown in `set_confirm` had to be
the one that is changed. The run `ledger_overcommit` shows what happens
without "one at a time".
`SerialSpec` of the ledger has no crash: a process that ends between the commit of a
record and the charge leaves a service that is never charged, and later sales can
then pass the cap; that of guest sales has one. `Settled` in
`DeletionsKeepCovered` asks for unique ids, no handler at work and services that are
charged for: every state of a table with a primary key in which nobody sells. The
`SaleAssumptions` of MCLedger only say that its initial states name a reseller and two
services that exist. The strengthened invariants hold in TLC's instances as well.

What the services of a reseller hold is the sum of a column over a set of rows. A sum
defined by recursion or a fold could only be reasoned about by induction, with rules
that take an operator as a parameter; `ResellerLedger!Total` counts bytes instead: it
is the cardinality of the set of all (row, byte) pairs. What a row added, deleted or
written does to it (`BytesAdd`, `BytesDrop`, `RowAdded`, `RowGone`, `RowWritten`) then
follows from the theorems about finite sets, and TLC evaluates the same definition.

Only model-checked: `HandlersFinish`, `ComesUp` and `AlertsArrive`, which are liveness
under fairness and out of TLAPS's reach. Every invariant and action property that a
passing run checks is stated by a theorem; those of the instances
(`SharedCapAlone`, `PendingPlanExistsAlone` and so on) are proved of the same
`ModesSpec` that TLC explores, with its constants left open.

## Findings

* **ledger_overcommit**: two volumes confirmed together are both checked against
  the same remaining volume; both are recorded, the second charge overwrites the
  first (`db/repository.py:335`; `CHANGELOG.md:80` promises one shared cap).
* **guest_panel_change**: `upsert` does not move an existing reseller to another
  panel, so `ensure_system_reseller` cannot follow the settings
  (`services/guest_sales.py:23`; `CHANGELOG.md:35`).
* **conversation_stale**: after the question "add 10 GB to a?", opening "add days"
  of b and pressing the older confirmation adds the 10 GB to b; the confirm
  buttons carry no service and are bound to no state
  (`bot/handlers/reseller.py:1122`; `bot/texts/fa.py:617`).
* **alerts_starved**: one service on a panel that is out of reach ends every cycle of
  the monitor before it has sent a message, so nobody is warned of anything
  (`services/usage_alerts.py:127`; `README.md:259`).

Seen while modelling and not made into runs: two admins' grants of volume can lose one;
two approvals at once can lose one grant, and the second service is refused;
`apply_quota` switches a disabled reseller on; a failed creation leaves the panel's
client behind, and for a guest's order the name is then taken for good; a full disk
during an update leaves a mixed tree, and cancelling the update removes the file that
would repair it; an upload that is refused has replaced the staged one already. Receipts
that arrive together (an album of photos) make two waiting orders of one guest
(`bot/handlers/guest.py:197`; `CHANGELOG.md:38` says that this is prevented; in a run,
`OnePendingPerGuest` excepts them). In a table made by `create_all`, two deletions of
one service can remove a service created between them (`db/repository.py:751`). A
damaged file that is staged, or a staged file a kill has cut short, is copied over the
database by the next start, and no start succeeds after that (`services/backup.py:111`,
`219`, `274`); the data is in a backup. The start that installs a release announces it
and runs on with the old code (`Maintenance!AnnouncedRuns` states what
`bot/texts/fa.py:712` says; it fails on the first update). A confirmed reduction can be
carried out by an older "add" button, and the volume of a half-made draft can be added
to a service. When updates cross, a creation that ends late unlocks or clears a newer
draft (`create_locked` belongs to the conversation), and one draft can be shown and
another created. `bulkAdjust` is repeated after a lost answer and adds again
(`xui/client.py:206`); an addition the panel reports as skipped is taken for done
(`xui/client.py:426`). An update of a client that overlaps another change of it writes
its older copy back (`xui/client.py:374`). Two handlers that reload one panel at a time
can leave the client of the older row. An alert that was sent, when the process ends or
the commit fails before it is marked, is sent again in the next cycle
(`services/usage_alerts.py:183`). An alert that is on its way when its service is
deleted leaves its row in `usage_alert_sent`, and a service of the same name is then not
warned. `max_clients` is counted before the insert, so two creations may pass the last
free place (`services/quota.py:150`). The assignment of the default panel can be removed
like any other (`bot/texts/fa.py:240` then says it is gone), and the next charge or edit
adds it again, active (`db/repository.py:231`). A charge that refreshed its row before
an edit of the admin, and looks the assignment up after it, writes the old columns back
over it (`db/repository.py:243`; `CHANGELOG.md:135` and `db/repository.py:443` say that
the two are kept in sync). A removal counts the services of a panel before it deletes: a
creation that crosses it is left without an assignment. A reseller with an assignment
cannot be deleted: the flush would blank the key of the assignment and fails
(`db/repository.py:422`; the tests use a mock session). The wizard for an existing
reseller leaves its panel as it is (`db/repository.py:198`). In the admin's dialogues:
the confirmation of a reseller's new panel shows the name of the reseller the dialogue
began with and changes the one whose edit menu was opened last, from an older message
and without any crossing (`admin_set_panel.py:209`, `admin_resellers.py:666`); buttons
of an older list of inbounds save for the reseller opened last; saving twice before the
first save has cleared the conversation creates a second panel, template or plan, or
sends a broadcast twice; a late end of one dialogue clears a newer one; the older
"apply" buttons apply whichever file is staged; `/cancel` typed where a broadcast is
expected becomes the broadcast, since its handler is registered first.

## What is not modelled

* **Rate limiter** (`bot/middlewares/auth.py`): one function without an await on the
  hits of one user; nothing interleaves in it.
* **Login, CSRF token, inbounds, links** of the 3x-ui client: they read, or are
  repeated until they succeed, and end a call before it has begun.
* **Service templates**: one table, one commit per operation, nothing that depends on
  two; their wizard is in AdminConversation, their use in Conversation.
* **Broadcast and reports**: the loop that sends, and queries, keep no state; the
  dialogue of a broadcast is in AdminConversation.
* **Migrations** beyond what 005 does to ids: scripts that run once before anything
  else. **GitHub releases**: a download whose file enters Maintenance like an upload.
* **Start, menus, cancel; texts, keyboards, formatting; configuration; deployment;
  tests**: no state that a property could relate.
* In modelled parts: six functions of `reseller_panel_edit.py` (a panel's own quota,
  inbounds and limit) have no caller; names, labels and the settings of a panel are
  not told apart beyond a version; the test of a connection may refuse an edit before
  it begins; a rejection that overtakes an approval is in GuestOrders, but no
  property says which one should win.

Telegram itself is reduced to requests that arrive at any time, in any order and
repeatedly; 3x-ui to its clients; SQLite to atomic commits, ids and a rollback journal.

## Plan

All components that keep state are modelled at least in part. Next, in order:

1. An abstract view of PanelAccess ("which panels may this reseller use") and a
   refinement to it; an abstract mailbox ("each alert once") for UsageAlerts.
2. A history of grants in ResellerLedger, for edits of the cap that overwrite each
   other, and of rejections in GuestOrders.
3. Pure algorithms as functions against reference definitions: expiry, inbound
   subsets, version order.
