----------------------------- MODULE ServiceIds -----------------------------
(***************************************************************************)
(* What the id that a session has cached names by the time it is used.     *)
(* ResellerLedger with a history variable: a handler's id is given again   *)
(* when, after the row the handler had read was deleted, SQLite gives the  *)
(* same id to a new row.  It does that in a table made by create_all       *)
(* (db/session.py:28; models.py:110 does not ask for AUTOINCREMENT), as    *)
(* every new installation has it; migration 005 rebuilds only the tables   *)
(* of older ones.                                                          *)
(***************************************************************************)
EXTENDS ResellerLedger

VARIABLE regiven    \* history: handlers at work whose id was given again

idVars == <<vars, regiven>>

GivenAgain(t) ==
    /\ task[t].id # 0
    /\ ~RowExists(task[t].id)
    /\ \E x \in records' : x.id = task[t].id

(* A handler that ends forgets its id. *)
Remember ==
    regiven' = {t \in Tasks : task'[t] # Idle /\ (t \in regiven \/ GivenAgain(t))}

IdsInit == Init /\ regiven = {}
IdsNext == (Next \/ Crash) /\ Remember
IdsSpec == IdsInit /\ [][IdsNext]_idVars

(* A row of client_records is changed or removed only by a handler that    *)
(* works on the service of that name ("are you sure you want to delete     *)
(* service {email}?", bot/texts/fa.py:521): the id a session has cached    *)
(* still means the row it was read from.  The exception is a handler whose *)
(* id was given again while it was at work: it works on the new row, which *)
(* is the service of somebody else, and then only in a table that gives    *)
(* ids again.                                                              *)
OwnRowsOnly ==
    \A x \in records : x \notin records' =>
        \E t \in Tasks :
            /\ task'[t] # task[t]
            /\ task[t].id = x.id
            /\ \/ task[t].name = x.name /\ task[t].owner = x.owner
               \/ IdReuse /\ t \in regiven

TouchesOwnService == [][OwnRowsOnly]_idVars
=============================================================================
