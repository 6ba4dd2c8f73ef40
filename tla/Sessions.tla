------------------------------- MODULE Sessions -------------------------------
(***************************************************************************)
(* Sessions (session/) of one browser.  A request loads the record of the  *)
(* identifier in its cookie, changes it in memory, and the session layer   *)
(* writes the whole record back when the response leaves.  TypedSession,   *)
(* CSRF tokens and flash messages are entries of that one record.  Login   *)
(* is the handler of the AuthSession documentation: login, save, and a new *)
(* identifier.                                                             *)
(***************************************************************************)
EXTENDS Calls

VARIABLES
    session,        \* the stored records, by identifier, in the order these were drawn
    cookie,         \* the identifier the browser sends, 0 if it sends none
    guests          \* identifiers that were drawn for a record without a user

sessionVars == <<session, cookie, guests>>

\* AuthSession ("none" before it is first saved), CSRF token (0: none) and
\* flash messages waiting.  A record without entries is not stored.
NoRecord == [auth |-> "none", csrf |-> 0, flash |-> 0]

SessionInit == session = << >> /\ cookie = 0 /\ guests = {}

\* The layer loads the record when the request first asks for it; an
\* identifier that is not stored counts as none.
load_record(c, op) ==
    LET known == cookie # 0 /\ session[cookie] # NoRecord
    IN  /\ Doing(c, op, "idle")
        /\ Proceed(c, "handling", IF known THEN [id |-> cookie, row |-> session[cookie]] ELSE [id |-> 0, row |-> NoRecord])
        /\ UNCHANGED sessionVars

\* The response leaves.  An empty record ends the cookie, an unchanged one is
\* left alone; any other is written as a whole, under a new identifier if the
\* request has none, and the cookie goes with it.
save_record(c, record, out) ==
    LET id == Seen(c).id
    IN  /\ Return(c, out)
        /\ \/ record = NoRecord /\ cookie' = 0 /\ UNCHANGED <<session, guests>>
           \/ record # NoRecord /\ id # 0 /\ record = Seen(c).row /\ UNCHANGED sessionVars
           \/ /\ record # NoRecord /\ id # 0 /\ record # Seen(c).row
              /\ session' = [session EXCEPT ![id] = record] /\ cookie' = id /\ UNCHANGED guests
           \/ /\ record # NoRecord /\ id = 0
              /\ session' = Append(session, record) /\ cookie' = Len(session) + 1
              /\ guests' = IF record.auth = "user" THEN guests ELSE guests \cup {Len(session) + 1}

\* The stored record is deleted at once; the request goes on without identifier.
forget(c, record) ==
    /\ session' = IF Seen(c).id = 0 THEN session ELSE [session EXCEPT ![Seen(c).id] = NoRecord]
    /\ Proceed(c, "leaving", [id |-> 0, row |-> record])
    /\ UNCHANGED <<cookie, guests>>

\* Mutant of regenerate_id: the record keeps its identifier.
regenerate_id_Keeps(c, record) == save_record(c, record, "ok")

\* TypedSession::regenerate.
regenerate_id(c, record) == forget(c, record)

leave(c, op) == Doing(c, op, "leaving") /\ save_record(c, Seen(c).row, "ok")

\* AuthSession::login, save and regenerate.
login_session(c) ==
    \/ load_record(c, "sign_in")
    \/ Doing(c, "sign_in", "handling") /\ regenerate_id(c, [Seen(c).row EXCEPT !.auth = "user"])
    \/ leave(c, "sign_in")

\* regenerate by itself, for a change of privileges.
renew(c) ==
    \/ load_record(c, "renew")
    \/ Doing(c, "renew", "handling") /\ regenerate_id(c, Seen(c).row)
    \/ leave(c, "renew")

\* TypedSession::logout: the data of nobody is saved.
logout(c) ==
    \/ load_record(c, "sign_out")
    \/ Doing(c, "sign_out", "handling") /\ save_record(c, [Seen(c).row EXCEPT !.auth = "guest"], "ok")

\* TypedSession::clear: the entry is removed.
clear(c) ==
    \/ load_record(c, "clear")
    \/ Doing(c, "clear", "handling") /\ save_record(c, [Seen(c).row EXCEPT !.auth = "none"], "ok")

\* TypedSession::destroy.
destroy(c) ==
    \/ load_record(c, "destroy")
    \/ Doing(c, "destroy", "handling") /\ forget(c, NoRecord)
    \/ leave(c, "destroy")

\* CsrfToken::regenerate replaces the token of the record that was loaded.
regenerate(c) ==
    \/ load_record(c, "regenerate")
    \/ Doing(c, "regenerate", "handling") /\ save_record(c, [Seen(c).row EXCEPT !.csrf = Arg(c).fresh], "ok")

\* A page shows the form with its CSRF token, made on first use, and takes
\* the flash messages.
get_or_create(c) ==
    \/ load_record(c, "page")
    \/ /\ Doing(c, "page", "handling")
       /\ save_record(c, [Seen(c).row EXCEPT !.csrf = IF @ = 0 THEN Arg(c).fresh ELSE @, !.flash = 0], "ok")

\* CsrfMiddleware: no session, no token in it, none sent or another: 403.
csrf_check(record, sent) == record.csrf # 0 /\ sent = record.csrf

\* A state-changing request, and the flash message its handler leaves.
csrf_middleware(c) ==
    \/ load_record(c, "submit")
    \/ /\ Doing(c, "submit", "handling")
       /\ IF csrf_check(Seen(c).row, Arg(c).sent)
          THEN save_record(c, [Seen(c).row EXCEPT !.flash = @ + 1], "ok")
          ELSE save_record(c, Seen(c).row, "Forbidden")

SessionStep(c) ==
    \/ login_session(c) \/ renew(c) \/ logout(c) \/ clear(c) \/ destroy(c)
    \/ regenerate(c) \/ get_or_create(c) \/ csrf_middleware(c)

-----------------------------------------------------------------------------
(* Properties.                                                             *)

\* What TypedSession::regenerate after a login is for: an identifier that was
\* given to a browser nobody had logged in with, and that somebody else may
\* therefore have planted there, never leads to a user's record, whatever
\* the requests write back that were in flight during the login.
FixedIdStaysAnonymous == \A i \in guests : session[i].auth # "user"

=============================================================================
