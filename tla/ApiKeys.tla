------------------------------- MODULE ApiKeys -------------------------------
(***************************************************************************)
(* The API key storages (auth/api_keys) under the validation of the        *)
(* api-keys page, and the single-use state of an OAuth login.  The         *)
(* databases change a column in one statement; Redis reads the record and  *)
(* writes it back, next to a mapping of prefixes and a set per user.       *)
(***************************************************************************)
EXTENDS Calls

CONSTANTS Keys, States

ASSUME KeysAssumption == Keys \cap States = {}

VARIABLES
    keys,           \* of each stored key: whether it is revoked and expired
    prefixes,       \* keys that can be found by their prefix
    listed,         \* keys in their user's set
    states,         \* OAuth states waiting for their callback
    spent           \* revoked keys no pending write can bring back, states redeemed

keyVars == <<keys, prefixes, listed, states, spent>>

KeysInit(stored) ==
    /\ keys = [k \in stored |-> [revoked |-> FALSE, expired |-> FALSE]]
    /\ prefixes = stored /\ listed = stored /\ states = {} /\ spent = {}

\* Redis keeps the prefix mapping and the user's set itself and changes a
\* record by writing it back; in the databases one statement does all of it.
RedisApiKeyStorage == [indexed |-> TRUE]
PgApiKeyStorage == [indexed |-> FALSE]
TursoApiKeyStorage == [indexed |-> FALSE]
SurrealDbApiKeyStorage == [indexed |-> FALSE]

ApiKeyStorage ==
    CASE load.backend = "redis"    -> RedisApiKeyStorage
      [] load.backend = "postgres" -> PgApiKeyStorage
      [] load.backend = "turso"    -> TursoApiKeyStorage
      [] OTHER                     -> SurrealDbApiKeyStorage

Indexed == ApiKeyStorage.indexed

\* Mutant of is_valid: only the expiry is looked at.
is_valid_ExpiryOnly(record) == ~record.expired

is_valid(record) == ~record.revoked /\ ~record.expired

\* SET by id, SET of the prefix, SADD to the user's set; one INSERT otherwise.
create(c) ==
    LET k == Arg(c).id
        record == [revoked |-> FALSE, expired |-> FALSE]
    IN  \/ /\ Doing(c, "create", "idle")
           /\ keys' = [j \in DOMAIN keys \cup {k} |-> IF j = k THEN record ELSE keys[j]]
           /\ IF Indexed THEN Proceed(c, "prefix", Unread) /\ UNCHANGED <<prefixes, listed>>
              ELSE Return(c, "ok") /\ prefixes' = prefixes \cup {k} /\ listed' = listed \cup {k}
           /\ UNCHANGED <<states, spent>>
        \/ /\ Doing(c, "create", "prefix")
           /\ prefixes' = prefixes \cup {k} /\ Proceed(c, "sadd", Unread)
           /\ UNCHANGED <<keys, listed, states, spent>>
        \/ /\ Doing(c, "create", "sadd")
           /\ listed' = listed \cup {k} /\ Return(c, "ok") /\ UNCHANGED <<keys, prefixes, states, spent>>

NoKeys == UNCHANGED keyVars

\* get_by_prefix: Redis follows the mapping with a second GET.
get_by_prefix(c) ==
    /\ Doing(c, "present", "idle")
    /\ IF Arg(c).id \notin prefixes THEN Return(c, "Unknown") ELSE Proceed(c, "get_by_id", Unread)
    /\ NoKeys

\* get_by_id and the hash of the whole key; the caller then asks is_valid.
get_by_key(c) ==
    LET k == Arg(c).id
    IN  /\ Doing(c, "present", "get_by_id")
        /\ IF k \in DOMAIN keys /\ Arg(c).secret /\ is_valid(keys[k])
           THEN Proceed(c, "admitted", Unread) ELSE Return(c, "Refused")
        /\ NoKeys

\* The record is written back as it was read, with the time.
update_last_used(c) ==
    LET k == Arg(c).id
    IN  \/ /\ Doing(c, "present", "admitted")
           /\ IF Indexed /\ k \in DOMAIN keys THEN Proceed(c, "touch", [row |-> keys[k]])
              ELSE Return(c, "ok")
           /\ NoKeys
        \/ /\ Doing(c, "present", "touch")
           /\ keys' = [j \in DOMAIN keys \cup {k} |-> IF j = k THEN Seen(c).row ELSE keys[j]]
           /\ Return(c, "ok") /\ UNCHANGED <<prefixes, listed, states, spent>>

\* A revocation is final unless another call is about to write the record back.
Spent(c, k) == IF Holding(c, {"touch"}, k) = {} THEN spent \cup {k} ELSE spent

revoke_key(c) ==
    LET k == Arg(c).id
        record(r) == [j \in DOMAIN keys \cup {k} |-> IF j = k THEN [r EXCEPT !.revoked = TRUE] ELSE keys[j]]
    IN  \/ /\ Doing(c, "revoke_key", "idle")
           /\ IF k \notin DOMAIN keys THEN Return(c, "ok") /\ NoKeys
              ELSE IF Indexed THEN Proceed(c, "mark", [row |-> keys[k]]) /\ NoKeys
              ELSE /\ keys' = record(keys[k]) /\ spent' = Spent(c, k) /\ Return(c, "ok")
                   /\ UNCHANGED <<prefixes, listed, states>>
        \/ /\ Doing(c, "revoke_key", "mark")
           /\ keys' = record(Seen(c).row) /\ spent' = Spent(c, k) /\ Return(c, "ok")
           /\ UNCHANGED <<prefixes, listed, states>>

\* SREM, DEL of the prefix, DEL of the record; one DELETE otherwise.
delete(c) ==
    LET k == Arg(c).id
        others == [j \in DOMAIN keys \ {k} |-> keys[j]]
    IN  \/ /\ Doing(c, "delete", "idle")
           /\ IF k \notin DOMAIN keys THEN Return(c, "ok") /\ UNCHANGED <<keys, prefixes, listed>>
              ELSE IF Indexed
              THEN Proceed(c, "del_prefix", Unread) /\ listed' = listed \ {k} /\ UNCHANGED <<keys, prefixes>>
              ELSE Return(c, "ok") /\ keys' = others /\ prefixes' = prefixes \ {k} /\ listed' = listed \ {k}
           /\ UNCHANGED <<states, spent>>
        \/ /\ Doing(c, "delete", "del_prefix")
           /\ prefixes' = prefixes \ {k} /\ Proceed(c, "del_id", Unread) /\ UNCHANGED <<keys, listed, states, spent>>
        \/ /\ Doing(c, "delete", "del_id")
           /\ keys' = others /\ Return(c, "ok") /\ UNCHANGED <<prefixes, listed, states, spent>>

KeyExpired(k) ==
    /\ load.ageing /\ k \in DOMAIN keys /\ ~keys[k].expired
    /\ keys' = [keys EXCEPT ![k].expired = TRUE]
    /\ UNCHANGED <<callVars, prefixes, listed, states, spent>>

-----------------------------------------------------------------------------
(* OAuth.                                                                  *)

\* SETEX of a fresh state before the redirect to the provider.
create_state(c) ==
    /\ Doing(c, "authorize", "idle")
    /\ states' = states \cup {Arg(c).id} /\ Return(c, "ok")
    /\ UNCHANGED <<keys, prefixes, listed, spent>>

\* GETDEL: of two callbacks with one state one is let through; the code is
\* then exchanged, which the provider may refuse.
validate_state(c) ==
    LET s == Arg(c).id
    IN  \/ /\ Doing(c, "callback", "idle")
           /\ IF s \notin states THEN Return(c, "BadRequest") /\ NoKeys
              ELSE /\ states' = states \ {s} /\ spent' = spent \cup {s}
                   /\ Proceed(c, "redeemed", Unread) /\ UNCHANGED <<keys, prefixes, listed>>
        \/ /\ Doing(c, "callback", "redeemed")
           /\ \E r \in {"ok", "exchange failed"} : Return(c, r)
           /\ NoKeys

StateExpires(s) ==
    /\ load.ageing /\ s \in states
    /\ states' = states \ {s}
    /\ UNCHANGED <<callVars, keys, prefixes, listed, spent>>

KeysStep(c) ==
    \/ create(c) \/ get_by_prefix(c) \/ get_by_key(c) \/ update_last_used(c) \/ revoke_key(c) \/ delete(c)
    \/ create_state(c) \/ validate_state(c)

-----------------------------------------------------------------------------
(* Properties.                                                             *)

\* Nothing spent is admitted: a key whose revocation no pending write could
\* undo opens no request again, and a second callback with one OAuth state is
\* turned away, whichever calls run at the same time or are abandoned.
SpentIsRefused ==
    [][\A c \in Clients :
         call[c].at # call'[c].at /\ call'[c].at \in {"admitted", "redeemed"} => Arg(c).id \notin spent]_<<keyVars, callVars>>

=============================================================================
