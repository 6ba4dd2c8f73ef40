---------------------------- MODULE RefreshTokens ----------------------------
(***************************************************************************)
(* The refresh token storages (auth/tokens/refresh.rs) for the tokens of   *)
(* one user and family, under the refresh handler of the token-generation  *)
(* page: get, then revoke_family if the token was revoked, else rotate.    *)
(***************************************************************************)
EXTENDS Calls

CONSTANTS Tokens

VARIABLES
    tokens,         \* of each token: "absent", "valid" or "revoked"
    age,            \* "live", expired "today", or on a day that is "past"
    family,         \* Redis: the set of the family's tokens
    owned           \* Redis: the set of the user's tokens

tokenVars == <<tokens, age, family, owned>>

TokensInit(stored) ==
    /\ tokens = [t \in Tokens |-> IF t \in stored THEN "valid" ELSE "absent"]
    /\ age = [t \in Tokens |-> "live"] /\ family = stored /\ owned = stored

-----------------------------------------------------------------------------
(* The storages.                                                           *)

\* Only Redis keeps sets of its own; only PostgreSQL rotates in a transaction;
\* Turso compares RFC 3339 text with datetime('now'), in which a token that
\* expired today is still ahead.
RedisRefreshStorage == [indexed |-> TRUE, transaction |-> FALSE, expired |-> {"today", "past"}]
PgRefreshStorage == [indexed |-> FALSE, transaction |-> TRUE, expired |-> {"today", "past"}]
TursoRefreshStorage == [indexed |-> FALSE, transaction |-> FALSE, expired |-> {"past"}]
SurrealDbRefreshStorage == [indexed |-> FALSE, transaction |-> FALSE, expired |-> {"today", "past"}]

RefreshStorage ==
    CASE load.backend = "redis"    -> RedisRefreshStorage
      [] load.backend = "postgres" -> PgRefreshStorage
      [] load.backend = "turso"    -> TursoRefreshStorage
      [] OTHER                     -> SurrealDbRefreshStorage

\* get: revoked tokens are returned too, expired ones are not.
get(t) == IF age[t] \in RefreshStorage.expired THEN "absent" ELSE tokens[t]

Revoked(S) == [t \in Tokens |-> IF t \in S /\ tokens[t] = "valid" THEN "revoked" ELSE tokens[t]]

Tables == UNCHANGED <<age, family, owned>>

\* SETEX, then the two sets; one INSERT in the databases.
store(c, op, at, t, done) ==
    \/ /\ Doing(c, op, at)
       /\ tokens' = [tokens EXCEPT ![t] = "valid"]
       /\ IF RefreshStorage.indexed THEN Proceed(c, "sadd_family", Unread) ELSE Return(c, done)
       /\ Tables
    \/ /\ Doing(c, op, "sadd_family")
       /\ family' = family \cup {t} /\ Proceed(c, "sadd_user", Unread) /\ UNCHANGED <<tokens, age, owned>>
    \/ /\ Doing(c, op, "sadd_user")
       /\ owned' = owned \cup {t} /\ Return(c, done) /\ UNCHANGED <<tokens, age, family>>

\* One UPDATE; in Redis the set is read, then its members are revoked one by
\* one (GET and SETEX of a record nothing else changes).
revoke_each(c, op, done) ==
    /\ Doing(c, op, "each")
    /\ IF RefreshStorage.indexed /\ Seen(c).row # {}
       THEN \E t \in Seen(c).row : tokens' = Revoked({t}) /\ Proceed(c, "each", [row |-> Seen(c).row \ {t}])
       ELSE tokens' = Revoked(Seen(c).row) /\ Return(c, done)
    /\ Tables

Members(set) == [row |-> IF RefreshStorage.indexed THEN set ELSE Tokens]

-----------------------------------------------------------------------------
(* The callers.                                                            *)

\* A login stores the first token of a family.
issue(c) ==
    \/ Doing(c, "issue", "idle") /\ Proceed(c, "store", Unread) /\ UNCHANGED tokenVars
    \/ store(c, "issue", "store", Arg(c).id, "stored")

revoke(c) ==
    \/ Doing(c, "revoke", "idle") /\ Proceed(c, "each", [row |-> {Arg(c).id}]) /\ UNCHANGED tokenVars
    \/ revoke_each(c, "revoke", "revoked")

revoke_family(c) ==
    \/ Doing(c, "revoke_family", "idle") /\ Proceed(c, "each", Members(family)) /\ UNCHANGED tokenVars
    \/ revoke_each(c, "revoke_family", "revoked")

revoke_all_for_user(c) ==
    \/ Doing(c, "revoke_all", "idle") /\ Proceed(c, "each", Members(owned)) /\ UNCHANGED tokenVars
    \/ revoke_each(c, "revoke_all", "revoked")

\* Mutant of tx_revoke: the statement is run on the pool, outside the transaction.
tx_revoke_OnPool(old) == tokens' = Revoked({old})

\* In the transaction: nobody else sees it before the commit.
tx_revoke(old) == UNCHANGED tokens

\* PostgreSQL: UPDATE, INSERT and COMMIT; a call dropped before is rolled back.
rotate_in_transaction(c) ==
    /\ RefreshStorage.transaction
    /\ \/ /\ Doing(c, "refresh", "rotate")
          /\ tx_revoke(Arg(c).id) /\ Proceed(c, "tx_insert", Unread)
       \/ /\ Doing(c, "refresh", "tx_insert")
          /\ Proceed(c, "tx_commit", Unread) /\ UNCHANGED tokens
       \/ /\ Doing(c, "refresh", "tx_commit")
          /\ tokens' = [Revoked({Arg(c).id}) EXCEPT ![Arg(c).new] = "valid"]
          /\ Return(c, "rotated")
    /\ Tables

\* Mutant of rotate_in_pieces: the new token is stored before the old one is revoked.
rotate_in_pieces_StoreFirst(c) ==
    /\ ~RefreshStorage.transaction
    /\ \/ /\ Doing(c, "refresh", "rotate")
          /\ tokens' = [tokens EXCEPT ![Arg(c).new] = "valid"] /\ Proceed(c, "tx_commit", Unread)
       \/ /\ Doing(c, "refresh", "tx_commit")
          /\ tokens' = Revoked({Arg(c).id}) /\ Return(c, "rotated")
    /\ Tables

\* The others: revoke, then store.
rotate_in_pieces(c) ==
    /\ ~RefreshStorage.transaction
    /\ \/ /\ Doing(c, "refresh", "rotate")
          /\ tokens' = Revoked({Arg(c).id}) /\ Proceed(c, "store", Unread) /\ Tables
       \/ store(c, "refresh", "store", Arg(c).new, "rotated")

\* The handler: nothing looks at the token again when it is rotated.
refresh(c) ==
    \/ /\ Doing(c, "refresh", "idle")
       /\ CASE get(Arg(c).id) = "absent"  -> Return(c, "Invalid")
            [] get(Arg(c).id) = "revoked" -> Proceed(c, "reuse", Unread)
            [] OTHER                      -> Proceed(c, "rotate", Unread)
       /\ UNCHANGED tokenVars
    \/ Doing(c, "refresh", "reuse") /\ Proceed(c, "each", Members(family)) /\ UNCHANGED tokenVars
    \/ revoke_each(c, "refresh", "reuse")
    \/ rotate_in_transaction(c) \/ rotate_in_pieces(c)

\* DELETE of what has expired; nothing to do in Redis.
cleanup_expired(c) ==
    /\ Doing(c, "cleanup", "idle") /\ Return(c, "ok")
    /\ tokens' = [t \in Tokens |-> IF ~RefreshStorage.indexed /\ age[t] \in RefreshStorage.expired
                                   THEN "absent" ELSE tokens[t]]
    /\ Tables

\* Time passes; Redis drops the key at once.
TokenAges(t) ==
    /\ load.ageing /\ tokens[t] # "absent" /\ age[t] # "past"
    /\ age' = [age EXCEPT ![t] = IF @ = "live" THEN "today" ELSE "past"]
    /\ tokens' = IF RefreshStorage.indexed THEN [tokens EXCEPT ![t] = "absent"] ELSE tokens
    /\ UNCHANGED <<callVars, family, owned>>

TokensStep(c) ==
    issue(c) \/ revoke(c) \/ revoke_family(c) \/ revoke_all_for_user(c) \/ refresh(c) \/ cleanup_expired(c)

-----------------------------------------------------------------------------
(* Properties.                                                             *)

\* What a call of a storage method has still to do.
Work(c) ==
    LET idle == [busy |-> FALSE, revoke |-> {}, store |-> {}]
        left(r, s) == [busy |-> TRUE, revoke |-> r, store |-> s]
        of == IF call[c].todo = << >> THEN "none" ELSE Arg(c).op
    IN  CASE call[c].at = "each" -> left(Seen(c).row, {})
          [] call[c].at = "store" /\ of = "issue" -> left({}, {Arg(c).id})
          [] call[c].at = "store" /\ of = "refresh" -> left({}, {Arg(c).new})
          [] call[c].at \in {"sadd_family", "sadd_user"} -> left({}, {})
          [] call[c].at \in {"rotate", "tx_insert", "tx_commit"} -> left({Arg(c).id}, {Arg(c).new})
          [] OTHER -> idle

Trait == INSTANCE RefreshTokenStorage WITH
    Callers <- Clients, token <- tokens, work <- [c \in Clients |-> Work(c)],
    answer <- [c \in Clients |-> call[c].out \in {"stored", "revoked", "rotated", "reuse"}]

\* The contract of the trait, with its "rotate: atomically revoke old and
\* create new", for whichever storage the deployment has.
ImplementsTrait == Trait!Spec

\* The storage with a transaction implements the contract: each call does all
\* of its work in one step or none of it, whatever is dropped in between, and
\* no step of any call makes a revoked token valid again.
PgImplementsTrait ==
    /\ RefreshStorage.transaction => Trait!Init
    /\ [][RefreshStorage.transaction => Trait!Next]_(Trait!contract)

\* On every storage, in a transaction or in pieces, a rotation gives out the
\* new token only when the old one can no longer be used, however many calls
\* are on the same tokens and wherever they are dropped.
OldSpentFirst ==
    [][\A c \in Clients :
          call[c].todo # << >> /\ Arg(c).op = "refresh" /\ tokens[Arg(c).new] # "valid" /\ tokens'[Arg(c).new] = "valid"
              => tokens'[Arg(c).id] # "valid"]_<<tokens, call>>

=============================================================================
