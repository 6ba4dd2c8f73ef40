----------------------------- MODULE Credentials -----------------------------
(***************************************************************************)
(* The authentication services of one deployment: accounts and their       *)
(* lockout, refresh tokens, API keys and OAuth states, and sessions, used  *)
(* by concurrent requests.  A call belongs to one service and leaves the   *)
(* records of the others alone.                                            *)
(***************************************************************************)
EXTENDS Lockout, RefreshTokens, ApiKeys, Sessions

\* What may be asked of the services.
Operations ==
    [op : DOMAIN Transitions \cup {"get_account", "verify_email", "delete_account"}, id : Ids]
      \cup [op : {"update_account"}, id : Ids, email : STRING, expires : {"never", "later"}]
      \cup [op : {"change_password"}, id : Ids, password : STRING]
      \cup [op : {"create_account"}, id : Ids, email : STRING, username : STRING \cup {NoName}, password : STRING,
            unique : BOOLEAN, verify : BOOLEAN, expires : {"never", "later"}]
      \cup [op : {"login"}, id : Ids, identity : Identities, password : STRING, enabled : BOOLEAN]
      \cup [op : {"unlock"}, id : Ids, identity : Identities]
      \cup [op : {"issue", "revoke", "revoke_family", "revoke_all", "cleanup"}, id : Tokens]
      \cup [op : {"refresh"}, id : Tokens, new : Tokens]
      \cup [op : {"create", "revoke_key", "delete"}, id : Keys] \cup [op : {"present"}, id : Keys, secret : BOOLEAN]
      \cup [op : {"authorize", "callback"}, id : States]
      \cup [op : {"sign_in", "renew", "sign_out", "clear", "destroy"}, id : {"session"}]
      \cup [op : {"page", "regenerate"}, id : {"session"}, fresh : Nat] \cup [op : {"submit"}, id : {"session"}, sent : Nat]

\* The records a call makes, under an identifier that is drawn for it.
Made(x) ==
    CASE x.op = "create_account"         -> {<<"account", x.id>>}
      [] x.op \in {"create", "authorize"} -> {<<"secret", x.id>>}
      [] x.op = "issue"                  -> {<<"token", x.id>>}
      [] x.op = "refresh"                -> {<<"token", x.new>>}
      [] OTHER                           -> {}

\* No identifier is drawn twice.
ASSUME WorkloadsAssumption ==
    \A w \in Workloads :
        /\ w.calls \in [Clients -> Seq(Operations)]
        /\ \A c, d \in Clients : \A i \in 1 .. Len(w.calls[c]), j \in 1 .. Len(w.calls[d]) :
               Made(w.calls[c][i]) \cap Made(w.calls[d][j]) # {} => c = d /\ i = j
        /\ \A c \in Clients : \A i \in 1 .. Len(w.calls[c]) : \A r \in Made(w.calls[c][i]) :
               CASE r[1] = "account" -> r[2] \notin DOMAIN w.accounts
                 [] r[1] = "token"   -> r[2] \notin w.tokens
                 [] OTHER            -> r[2] \notin w.keys
        /\ DOMAIN w.accounts \subseteq Ids /\ w.tokens \subseteq Tokens /\ w.keys \subseteq Keys
        /\ \A i \in DOMAIN w.accounts : w.accounts[i] \in Account(STRING, STRING \cup {NoName}, STRING)

vars == <<callVars, accountVars, lockoutVars, tokenVars, keyVars, sessionVars>>

\* Each workload says what is stored when its calls begin.
Init ==
    \E w \in Workloads :
        /\ CallInit(w) /\ AccountsInit(w.accounts) /\ LockoutInit
        /\ TokensInit(w.tokens) /\ KeysInit(w.keys) /\ SessionInit

OnlyAccounts == UNCHANGED <<tokenVars, keyVars, sessionVars>>
OnlyTokens == UNCHANGED <<accountVars, lockoutVars, keyVars, sessionVars>>
OnlyKeys == UNCHANGED <<accountVars, lockoutVars, tokenVars, sessionVars>>
OnlySessions == UNCHANGED <<accountVars, lockoutVars, tokenVars, keyVars>>

Request(c) ==
    \/ AccountsStep(c) /\ NoLockout /\ OnlyAccounts
    \/ LockoutStep(c) /\ OnlyAccounts
    \/ TokensStep(c) /\ OnlyTokens
    \/ KeysStep(c) /\ OnlyKeys
    \/ SessionStep(c) /\ OnlySessions

\* The caller goes away or a command fails between two steps of a call.
Dropped(c) == Abandon(c) /\ UNCHANGED <<accountVars, lockoutVars, tokenVars, keyVars, sessionVars>>

\* What the clock does to the records.
Clock ==
    \/ \E i \in Ids : Elapse(i) /\ NoLockout /\ OnlyAccounts
    \/ \E k \in Identities : KeyExpires(k) /\ OnlyAccounts
    \/ \E t \in Tokens : TokenAges(t) /\ OnlyTokens
    \/ \E k \in Keys : KeyExpired(k) /\ OnlyKeys
    \/ \E s \in States : StateExpires(s) /\ OnlyKeys

Next == (\E c \in Clients : Request(c) \/ Dropped(c)) \/ Clock

Spec == Init /\ [][Next]_vars

=============================================================================
