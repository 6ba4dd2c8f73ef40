------------------------------ MODULE Accounts ------------------------------
(***************************************************************************)
(* AccountService over its storages (accounts/).  Every operation reads    *)
(* the row, decides, and then writes in a second statement: the lifecycle  *)
(* operations write the status column, the others the whole row.  Nothing  *)
(* in the write looks at what was read.                                    *)
(***************************************************************************)
EXTENDS Calls

CONSTANTS
    Ids,            \* account ids
    NoName          \* no username

VARIABLES
    rows,           \* the accounts table
    events,         \* notifications handed to spawned tasks, in no order
    intent,         \* of each account: the target of its last status operation
    overlapped      \* accounts whose last status operation met a pending write

accountVars == <<rows, events, intent, overlapped>>

AccountStatus == {"PendingVerification", "Active", "Disabled", "Locked", "Expired", "Suspended"}

Account(emails, names, passwords) ==
    [email : emails, username : names, password : passwords, status : AccountStatus,
     verified : BOOLEAN, expires : {"never", "later", "past"}, logged_in : BOOLEAN]

\* The lifecycle an administrator may drive.
can_transition_to(from, to) ==
    to \in CASE from = "PendingVerification" -> {"Active", "Disabled", "Expired"}
             [] from = "Active"              -> {"Disabled", "Locked", "Expired", "Suspended"}
             [] from = "Disabled"            -> {"Active"}
             [] OTHER                        -> {"Active", "Disabled"}

AccountsInit(table) ==
    /\ rows = table /\ events = {}
    /\ intent = [i \in Ids |-> "none"] /\ overlapped = {}

-----------------------------------------------------------------------------
(* The storages.                                                           *)

\* What sets a backend apart: whether a statement that is refused fails the
\* call, and whether delete looks before it deletes.
PgAccountStorage == [checked |-> TRUE, looks |-> FALSE]
TursoAccountStorage == [checked |-> TRUE, looks |-> FALSE]
SurrealDbAccountStorage == [checked |-> FALSE, looks |-> TRUE]

Storage ==
    CASE load.backend = "postgres" -> PgAccountStorage
      [] load.backend = "turso"    -> TursoAccountStorage
      [] OTHER                     -> SurrealDbAccountStorage

get_by_email(e) == {i \in DOMAIN rows : rows[i].email = e}
get_by_username(n) == {i \in DOMAIN rows : rows[i].username = n}

\* The email column is UNIQUE in every schema; the username column is not.
Refused(id, e) == \E i \in get_by_email(e) : i # id

\* A statement on a row that is gone changes nothing and succeeds.
WriteRow(id, row) == rows' = [i \in DOMAIN rows |-> IF i = id THEN row ELSE rows[i]]

\* UPDATE of the status and the columns of its reason.
update_status(id, status) ==
    rows' = [i \in DOMAIN rows |-> IF i = id THEN [rows[i] EXCEPT !.status = status] ELSE rows[i]]

-----------------------------------------------------------------------------
(* The service.                                                            *)

\* AuditAccountNotification: how an event is entered in the audit trail.
audit_kind(event) ==
    CASE event = "Created" -> "AccountCreated"
      [] event = "Activated" -> "AccountEnabled"
      [] event \in {"Disabled", "Suspended"} -> "AccountDisabled"
      [] event = "Locked" -> "AccountLocked"
      [] event = "Unlocked" -> "AccountUnlocked"
      [] event = "Expired" -> "AccountExpired"
      [] event = "Deleted" -> "AccountDeleted"
      [] event = "PasswordChanged" -> "AuthPasswordChanged"
      [] OTHER -> "AccountUpdated"

notify(names, id) == events' = events \cup {<<audit_kind(n), id>> : n \in names}

\* UPDATE of every column but id and created_at, and what the call tells.
update(c, id, account, names) ==
    LET refused == id \in DOMAIN rows /\ Refused(id, account.email)
    IN  /\ IF refused THEN UNCHANGED rows ELSE WriteRow(id, account)
        /\ IF refused /\ Storage.checked THEN Return(c, "Storage") /\ UNCHANGED events
           ELSE Return(c, "ok") /\ notify(names, id)
        /\ UNCHANGED <<intent, overlapped>>

is_valid_email(e) == e # "malformed"

Quiet == UNCHANGED <<events, intent, overlapped>>

\* Email and username are looked up, then the row is inserted.
create_account(c) ==
    LET a == Arg(c)
    IN  \/ /\ Doing(c, "create_account", "idle")
           /\ IF ~is_valid_email(a.email) THEN Return(c, "Validation")
              ELSE IF get_by_email(a.email) # {} THEN Return(c, "AlreadyExists")
              ELSE Proceed(c, "name", Unread)
           /\ UNCHANGED rows /\ Quiet
        \/ /\ Doing(c, "create_account", "name")
           /\ IF a.unique /\ a.username # NoName /\ get_by_username(a.username) # {}
              THEN Return(c, "AlreadyExists") ELSE Proceed(c, "insert", Unread)
           /\ UNCHANGED rows /\ Quiet
        \/ /\ Doing(c, "create_account", "insert")
           /\ LET row == [email |-> a.email, username |-> a.username, password |-> a.password,
                          status |-> IF a.verify THEN "PendingVerification" ELSE "Active",
                          verified |-> ~a.verify, expires |-> a.expires, logged_in |-> FALSE]
              IN  IF get_by_email(a.email) # {}
                  THEN /\ UNCHANGED rows
                       /\ IF Storage.checked THEN Return(c, "Storage") /\ UNCHANGED events
                          ELSE Return(c, "ok") /\ notify({"Created"}, a.id)
                  ELSE /\ rows' = [i \in DOMAIN rows \cup {a.id} |-> IF i = a.id THEN row ELSE rows[i]]
                       /\ Return(c, "ok") /\ notify({"Created"}, a.id)
           /\ UNCHANGED <<intent, overlapped>>

\* An account past its expiry is marked so when it is read by its id.
get_account(c) ==
    LET i == Arg(c).id
    IN  \/ /\ Doing(c, "get_account", "idle")
           /\ IF i \in DOMAIN rows /\ rows[i].status # "Expired" /\ rows[i].expires = "past"
              THEN Proceed(c, "expire", [row |-> rows[i]]) ELSE Return(c, "ok")
           /\ UNCHANGED rows /\ Quiet
        \/ /\ Doing(c, "get_account", "expire")
           /\ update_status(i, "Expired") /\ Return(c, "ok") /\ notify({"Expired"}, i)
           /\ UNCHANGED <<intent, overlapped>>

\* require_account for an operation that will write the whole row.
LoadRow(c, op, next) ==
    /\ Doing(c, op, "idle")
    /\ IF Arg(c).id \notin DOMAIN rows THEN Return(c, "NotFound")
       ELSE Proceed(c, next, [row |-> rows[Arg(c).id]])
    /\ UNCHANGED rows /\ Quiet

update_account(c) ==
    LET a == Arg(c)
        new == [Seen(c).row EXCEPT !.email = a.email, !.expires = a.expires]
    IN  \/ LoadRow(c, "update_account", "email")
        \/ /\ Doing(c, "update_account", "email")
           /\ IF ~is_valid_email(a.email) THEN Return(c, "Validation")
              ELSE IF Refused(a.id, a.email) THEN Return(c, "AlreadyExists")
              ELSE Proceed(c, "save", Seen(c))
           /\ UNCHANGED rows /\ Quiet
        \/ /\ Doing(c, "update_account", "save")
           /\ update(c, a.id, new, {"ProfileUpdated"})

\* Mutant of verified_status: whatever the account's state, it becomes active.
verified_status_Always(status) == "Active"

\* Only an account that waits for it becomes active with its address.
verified_status(status) == IF status = "PendingVerification" THEN "Active" ELSE status

verify_email(c) ==
    LET i == Arg(c).id
        new == [Seen(c).row EXCEPT !.verified = TRUE, !.status = verified_status(@)]
    IN  \/ /\ Doing(c, "verify_email", "idle")
           /\ IF i \notin DOMAIN rows THEN Return(c, "NotFound")
              ELSE IF rows[i].verified THEN Return(c, "ok")
              ELSE Proceed(c, "save", [row |-> rows[i]])
           /\ UNCHANGED rows /\ Quiet
        \/ /\ Doing(c, "verify_email", "save")
           /\ update(c, i, new, {"EmailVerified"} \cup (IF new.status = "Active" THEN {"Activated"} ELSE {}))

change_password(c) ==
    LET i == Arg(c).id
    IN  \/ LoadRow(c, "change_password", "save")
        \/ /\ Doing(c, "change_password", "save")
           /\ update(c, i, [Seen(c).row EXCEPT !.password = Arg(c).password], {"PasswordChanged"})

\* The steps at which a call is about to write back what it read.
PendingWrites == {"email", "save", "expire"}

\* The operations that drive the lifecycle: their target and event.
Transitions ==
    [disable_account |-> <<"Disabled", "Disabled">>, enable_account |-> <<"Active", "Activated">>,
     lock_account |-> <<"Locked", "Locked">>, unlock_account |-> <<"Active", "Unlocked">>,
     suspend_account |-> <<"Suspended", "Suspended">>]

\* disable, enable, lock, unlock and suspend: the transition is validated on
\* the row that was read, the status is then written whatever it has become.
transition(c, op) ==
    LET i == Arg(c).id
        to == Transitions[op][1]
    IN  \/ /\ Doing(c, op, "idle")
           /\ IF i \notin DOMAIN rows THEN Return(c, "NotFound")
              ELSE IF ~can_transition_to(rows[i].status, to) THEN Return(c, "InvalidTransition")
              ELSE Proceed(c, "status", Unread)
           /\ UNCHANGED rows /\ Quiet
        \/ /\ Doing(c, op, "status")
           /\ update_status(i, to) /\ Return(c, "ok") /\ notify({Transitions[op][2]}, i)
           /\ intent' = [intent EXCEPT ![i] = to]
           /\ overlapped' = IF Holding(c, PendingWrites, i) # {} THEN overlapped \cup {i}
                            ELSE overlapped \ {i}

\* Two statements in SurrealDB, one in the others.
delete_account(c) ==
    LET i == Arg(c).id
        gone == /\ rows' = [j \in DOMAIN rows \ {i} |-> rows[j]]
                /\ Return(c, "ok") /\ notify({"Deleted"}, i) /\ UNCHANGED <<intent, overlapped>>
    IN  \/ /\ Doing(c, "delete_account", "idle") /\ i \notin DOMAIN rows
           /\ Return(c, "NotFound") /\ UNCHANGED rows /\ Quiet
        \/ /\ Doing(c, "delete_account", "idle") /\ i \in DOMAIN rows
           /\ IF Storage.looks THEN Proceed(c, "delete", Unread) /\ UNCHANGED rows /\ Quiet ELSE gone
        \/ Doing(c, "delete_account", "delete") /\ gone

\* authenticate up to the login it records; the expiry is not looked at.
authenticate(e, password) ==
    IF get_by_email(e) = {} THEN "NotFound"
    ELSE LET row == rows[CHOOSE i \in get_by_email(e) : TRUE]
         IN  IF row.status # "Active" THEN "AccountInactive"
             ELSE IF row.password # password THEN "InvalidCredentials" ELSE "ok"

record_login(e) ==
    rows' = [i \in DOMAIN rows |-> IF rows[i].email = e THEN [rows[i] EXCEPT !.logged_in = TRUE] ELSE rows[i]]

\* The clock passes the account's expiry.
Elapse(i) ==
    /\ i \in DOMAIN rows /\ rows[i].expires = "later"
    /\ rows' = [rows EXCEPT ![i].expires = "past"]
    /\ UNCHANGED callVars /\ Quiet

AccountsStep(c) ==
    \/ create_account(c) \/ get_account(c) \/ update_account(c) \/ verify_email(c)
    \/ change_password(c) \/ delete_account(c)
    \/ \E op \in DOMAIN Transitions : transition(c, op)

-----------------------------------------------------------------------------
(* Properties.                                                             *)

\* An account that was locked, disabled or suspended, by an operation that met
\* no pending write of the same row, stays so until an operation lifts it: no
\* password change, update, verification or expiry re-activates it.
StatusAsAdministered ==
    \A i \in DOMAIN rows \ overlapped :
        intent[i] \in {"Locked", "Disabled", "Suspended"} => rows[i].status \in {intent[i], "Expired"}

=============================================================================
