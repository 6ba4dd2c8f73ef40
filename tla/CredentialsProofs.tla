-------------------------- MODULE CredentialsProofs --------------------------
(***************************************************************************)
(* Proofs about Credentials for any number of clients, accounts, tokens,   *)
(* keys and identities, and any calls of the clients that draw no          *)
(* identifier twice.                                                       *)
(***************************************************************************)
EXTENDS Credentials, FiniteSetTheorems, SequenceTheorems, TLAPS

-----------------------------------------------------------------------------
(* Calls.                                                                  *)

\* What the calls of each service are, and the steps they wait at.
AccountOps ==
    {"create_account", "get_account", "update_account", "verify_email", "change_password", "delete_account",
     "disable_account", "enable_account", "lock_account", "unlock_account", "suspend_account"}
AccountPlaces == {"name", "insert", "expire", "email", "save", "status", "delete"}

LockoutOps == {"login", "unlock"}
LockoutPlaces ==
    {"handler", "record_login", "incr", "expire_lock", "expire_key", "lock", "exists", "del", "del_locked"}

TokenOps == {"issue", "revoke", "revoke_family", "revoke_all", "refresh", "cleanup"}
TokenPlaces == {"store", "each", "reuse", "rotate", "tx_insert", "tx_commit", "sadd_family", "sadd_user"}

KeyOps == {"create", "present", "revoke_key", "delete", "authorize", "callback"}
KeyPlaces ==
    {"prefix", "sadd", "get_by_id", "admitted", "touch", "mark", "del_prefix", "del_id", "redeemed"}

SessionOps == {"sign_in", "renew", "sign_out", "clear", "destroy", "page", "regenerate", "submit"}
SessionPlaces == {"handling", "leaving"}

\* A client waits at a step of the service its call is for.
InPlace(c, ops, places) == call[c].at \in places /\ call[c].todo # << >> /\ Arg(c).op \in ops

CallsTyped ==
    /\ DOMAIN call = Clients
    /\ \A c \in Clients :
           /\ DOMAIN call[c] = {"todo", "at", "seen", "out"} /\ call[c].todo \in Seq(Operations)
           /\ \/ call[c].at = "idle"
              \/ InPlace(c, AccountOps, AccountPlaces) \/ InPlace(c, LockoutOps, LockoutPlaces)
              \/ InPlace(c, TokenOps, TokenPlaces) \/ InPlace(c, KeyOps, KeyPlaces)
              \/ InPlace(c, SessionOps, SessionPlaces)
    /\ aborts \in Nat /\ load \in Workloads /\ load.aborts \in Nat /\ aborts <= load.aborts

\* What a step does to the calls: c waits at a step, or has done with its call.
Waits(c, at, what) ==
    /\ DOMAIN call' = Clients /\ \A d \in Clients \ {c} : call'[d] = call[d]
    /\ DOMAIN call'[c] = {"todo", "at", "seen", "out"}
    /\ call'[c].todo = call[c].todo /\ call'[c].at = at /\ call'[c].seen = what /\ call'[c].out = call[c].out

Ended(c, out) ==
    /\ DOMAIN call' = Clients /\ \A d \in Clients \ {c} : call'[d] = call[d]
    /\ DOMAIN call'[c] = {"todo", "at", "seen", "out"}
    /\ call'[c].todo = Tail(call[c].todo) /\ call'[c].at = "idle" /\ call'[c].seen = Unread /\ call'[c].out = out

LEMMA Proceeds ==
    ASSUME CallsTyped, NEW c \in Clients, NEW at, NEW what, Proceed(c, at, what)
    PROVE  Waits(c, at, what) /\ UNCHANGED <<load, aborts>>
BY DEF CallsTyped, Proceed, Waits

LEMMA Returns ==
    ASSUME CallsTyped, NEW c \in Clients, NEW out, Return(c, out)
    PROVE  Ended(c, out) /\ UNCHANGED <<load, aborts>>
BY DEF CallsTyped, Return, Ended

LEMMA Abandons ==
    ASSUME CallsTyped, NEW c \in Clients, Abandon(c)
    PROVE  /\ Ended(c, "aborted") /\ UNCHANGED load /\ aborts' = aborts - 1 /\ aborts > 0
           /\ call[c].at # "idle"
BY DEF CallsTyped, Abandon, Ended

\* A step of a call of these operations, which then waits at one of these
\* steps or has ended.
OfService(c, ops, places) ==
    /\ call[c].todo # << >> /\ Arg(c).op \in ops
    /\ (\E at \in places : \E what : Proceed(c, at, what)) \/ (\E out : Return(c, out))

LEMMA AccountsOfService ==
    ASSUME NEW c \in Clients, AccountsStep(c)
    PROVE  OfService(c, AccountOps, AccountPlaces)
<1> USE DEF OfService, AccountOps, AccountPlaces, Doing, Arg
<1>1. CASE create_account(c)
  BY <1>1 DEF create_account
<1>2. CASE get_account(c)
  BY <1>2 DEF get_account
<1>3. CASE update_account(c)
  BY <1>3 DEF update_account, LoadRow, update
<1>4. CASE verify_email(c)
  BY <1>4 DEF verify_email, update
<1>5. CASE change_password(c)
  BY <1>5 DEF change_password, LoadRow, update
<1>6. CASE delete_account(c)
  BY <1>6 DEF delete_account
<1>7. ASSUME NEW op \in DOMAIN Transitions, transition(c, op)
      PROVE  OfService(c, AccountOps, AccountPlaces)
  <2>1. op \in AccountOps
    BY <1>7 DEF Transitions
  <2> QED  BY <1>7, <2>1 DEF transition
<1> QED  BY <1>1, <1>2, <1>3, <1>4, <1>5, <1>6, <1>7 DEF AccountsStep

LEMMA LockoutOfService ==
    ASSUME NEW c \in Clients, LockoutStep(c)
    PROVE  OfService(c, LockoutOps, LockoutPlaces)
<1> USE DEF OfService, LockoutOps, LockoutPlaces, Doing, Arg
<1>1. CASE middleware(c) \/ handler(c) \/ unlock(c)
  BY <1>1 DEF middleware, handler, unlock
<1>2. CASE record_failure(c)
  BY <1>2 DEF record_failure
<1>3. CASE record_success(c)
  BY <1>3 DEF record_success
<1> QED  BY <1>1, <1>2, <1>3 DEF LockoutStep

LEMMA TokensOfService ==
    ASSUME NEW c \in Clients, TokensStep(c)
    PROVE  OfService(c, TokenOps, TokenPlaces)
<1> USE DEF OfService, TokenOps, TokenPlaces, Doing, Arg
<1>1. ASSUME NEW op \in TokenOps, NEW done, revoke_each(c, op, done)
      PROVE  OfService(c, TokenOps, TokenPlaces)
  BY <1>1 DEF revoke_each
<1>2. ASSUME NEW op \in TokenOps, NEW at, NEW t, NEW done, store(c, op, at, t, done)
      PROVE  OfService(c, TokenOps, TokenPlaces)
  BY <1>2 DEF store
<1>3. CASE issue(c)
  BY <1>2, <1>3 DEF issue
<1>4. CASE revoke(c)
  BY <1>1, <1>4 DEF revoke
<1>5. CASE revoke_family(c)
  BY <1>1, <1>5 DEF revoke_family
<1>6. CASE revoke_all_for_user(c)
  BY <1>1, <1>6 DEF revoke_all_for_user
<1>7. CASE refresh(c)
  <2>1. CASE rotate_in_transaction(c)
    BY <2>1 DEF rotate_in_transaction
  <2>2. CASE rotate_in_pieces(c)
    BY <1>2, <2>2 DEF rotate_in_pieces
  <2>3. CASE revoke_each(c, "refresh", "reuse")
    BY <1>1, <2>3
  <2>4. CASE Doing(c, "refresh", "reuse") /\ Proceed(c, "each", Members(family))
    BY <2>4
  <2>5. CASE /\ Doing(c, "refresh", "idle")
             /\ Return(c, "Invalid") \/ Proceed(c, "reuse", Unread) \/ Proceed(c, "rotate", Unread)
    BY <2>5
  <2> QED  BY <1>7, <2>1, <2>2, <2>3, <2>4, <2>5 DEF refresh
<1>8. CASE cleanup_expired(c)
  BY <1>8 DEF cleanup_expired
<1> QED  BY <1>3, <1>4, <1>5, <1>6, <1>7, <1>8 DEF TokensStep

LEMMA KeysOfService ==
    ASSUME NEW c \in Clients, KeysStep(c)
    PROVE  OfService(c, KeyOps, KeyPlaces)
<1> USE DEF OfService, KeyOps, KeyPlaces, Doing, Arg
<1>1. CASE create(c)
  BY <1>1 DEF create
<1>2. CASE get_by_prefix(c) \/ get_by_key(c)
  BY <1>2 DEF get_by_prefix, get_by_key
<1>3. CASE update_last_used(c)
  BY <1>3 DEF update_last_used
<1>4. CASE revoke_key(c)
  BY <1>4 DEF revoke_key
<1>5. CASE delete(c)
  BY <1>5 DEF delete
<1>6. CASE create_state(c) \/ validate_state(c)
  BY <1>6 DEF create_state, validate_state
<1> QED  BY <1>1, <1>2, <1>3, <1>4, <1>5, <1>6 DEF KeysStep

LEMMA SessionsOfService ==
    ASSUME NEW c \in Clients, SessionStep(c)
    PROVE  OfService(c, SessionOps, SessionPlaces)
<1> USE DEF OfService, SessionOps, SessionPlaces, Doing, Arg
<1>1. ASSUME NEW op \in SessionOps, load_record(c, op)  PROVE OfService(c, SessionOps, SessionPlaces)
  BY <1>1 DEF load_record
<1>2. ASSUME NEW op \in SessionOps, leave(c, op)  PROVE OfService(c, SessionOps, SessionPlaces)
  BY <1>2 DEF leave, save_record
<1>3. CASE login_session(c)
  BY <1>1, <1>2, <1>3 DEF login_session, regenerate_id, forget
<1>4. CASE renew(c)
  BY <1>1, <1>2, <1>4 DEF renew, regenerate_id, forget
<1>5. CASE logout(c) \/ clear(c)
  BY <1>1, <1>5 DEF logout, clear, save_record
<1>6. CASE destroy(c)
  BY <1>1, <1>2, <1>6 DEF destroy, forget
<1>7. CASE regenerate(c)
  BY <1>1, <1>7 DEF regenerate, save_record
<1>8. CASE get_or_create(c)
  BY <1>1, <1>8 DEF get_or_create, save_record
<1>9. CASE csrf_middleware(c)
  BY <1>1, <1>9 DEF csrf_middleware, save_record
<1> QED  BY <1>3, <1>4, <1>5, <1>6, <1>7, <1>8, <1>9 DEF SessionStep

\* What the calls of each service carry.
LEMMA CallCarries ==
    ASSUME NEW x \in Operations
    PROVE  /\ x.op \in AccountOps => x.id \in Ids
           /\ x.op \in LockoutOps => x.identity \in Identities
           /\ x.op = "login" => x.enabled \in BOOLEAN
           /\ x.op \in TokenOps => x.id \in Tokens
           /\ x.op = "refresh" => x.new \in Tokens
           /\ x.op \in {"create", "present", "revoke_key", "delete"} => x.id \in Keys
           /\ x.op \in {"authorize", "callback"} => x.id \in States
           /\ x.op \in SessionOps => x.id = "session"
           /\ x.op \in {"page", "regenerate"} => x.fresh \in Nat
<1> USE DEF AccountOps, LockoutOps, TokenOps, SessionOps
<1>1. CASE x \in [op : DOMAIN Transitions \cup {"get_account", "verify_email", "delete_account"}, id : Ids]
  BY <1>1 DEF Transitions
<1>2. CASE x \in [op : {"update_account"}, id : Ids, email : STRING, expires : {"never", "later"}]
  BY <1>2
<1>3. CASE x \in [op : {"change_password"}, id : Ids, password : STRING]
  BY <1>3
<1>4. CASE x \in [op : {"create_account"}, id : Ids, email : STRING, username : STRING \cup {NoName}, password : STRING,
                  unique : BOOLEAN, verify : BOOLEAN, expires : {"never", "later"}]
  BY <1>4
<1>5. CASE x \in [op : {"login"}, id : Ids, identity : Identities, password : STRING, enabled : BOOLEAN]
  BY <1>5
<1>6. CASE x \in [op : {"unlock"}, id : Ids, identity : Identities]
  BY <1>6
<1>7. CASE x \in [op : {"issue", "revoke", "revoke_family", "revoke_all", "cleanup"}, id : Tokens]
  BY <1>7
<1>8. CASE x \in [op : {"refresh"}, id : Tokens, new : Tokens]
  BY <1>8
<1>9. CASE x \in [op : {"create", "revoke_key", "delete"}, id : Keys] \cup [op : {"present"}, id : Keys, secret : BOOLEAN]
  BY <1>9
<1>10. CASE x \in [op : {"authorize", "callback"}, id : States]
  BY <1>10
<1>11. CASE x \in [op : {"sign_in", "renew", "sign_out", "clear", "destroy"}, id : {"session"}]
  BY <1>11
<1>12. CASE x \in [op : {"page", "regenerate"}, id : {"session"}, fresh : Nat] \cup [op : {"submit"}, id : {"session"}, sent : Nat]
  BY <1>12
<1> QED  BY <1>1, <1>2, <1>3, <1>4, <1>5, <1>6, <1>7, <1>8, <1>9, <1>10, <1>11, <1>12 DEF Operations

\* The call a client is in is one that may be asked for.
LEMMA CallTyped ==
    ASSUME CallsTyped, NEW c \in Clients, call[c].todo # << >>
    PROVE  Arg(c) \in Operations /\ Tail(call[c].todo) \in Seq(Operations)
<1>1. call[c].todo \in Seq(Operations)
  BY DEF CallsTyped
<1> QED  BY <1>1 DEF Arg

\* The services have no operation and no step in common.
LEMMA ServicesApart ==
    /\ "idle" \notin AccountPlaces /\ "idle" \notin LockoutPlaces /\ "idle" \notin TokenPlaces
    /\ "idle" \notin KeyPlaces /\ "idle" \notin SessionPlaces
    /\ AccountPlaces \cap LockoutPlaces = {} /\ AccountPlaces \cap TokenPlaces = {}
    /\ AccountPlaces \cap KeyPlaces = {} /\ AccountPlaces \cap SessionPlaces = {}
    /\ LockoutPlaces \cap TokenPlaces = {} /\ LockoutPlaces \cap KeyPlaces = {} /\ LockoutPlaces \cap SessionPlaces = {}
    /\ TokenPlaces \cap KeyPlaces = {} /\ TokenPlaces \cap SessionPlaces = {} /\ KeyPlaces \cap SessionPlaces = {}
    /\ AccountOps \cap LockoutOps = {} /\ AccountOps \cap TokenOps = {} /\ AccountOps \cap KeyOps = {}
    /\ AccountOps \cap SessionOps = {} /\ LockoutOps \cap TokenOps = {} /\ LockoutOps \cap KeyOps = {}
    /\ LockoutOps \cap SessionOps = {} /\ TokenOps \cap KeyOps = {} /\ TokenOps \cap SessionOps = {}
    /\ KeyOps \cap SessionOps = {}
<1>1. /\ "idle" \notin AccountPlaces /\ "idle" \notin LockoutPlaces /\ "idle" \notin TokenPlaces
      /\ "idle" \notin KeyPlaces /\ "idle" \notin SessionPlaces
  BY DEF AccountPlaces, LockoutPlaces, TokenPlaces, KeyPlaces, SessionPlaces
<1>2. /\ AccountPlaces \cap LockoutPlaces = {} /\ AccountPlaces \cap TokenPlaces = {}
      /\ AccountPlaces \cap KeyPlaces = {} /\ AccountPlaces \cap SessionPlaces = {}
  BY DEF AccountPlaces, LockoutPlaces, TokenPlaces, KeyPlaces, SessionPlaces
<1>3. /\ LockoutPlaces \cap TokenPlaces = {} /\ LockoutPlaces \cap KeyPlaces = {} /\ LockoutPlaces \cap SessionPlaces = {}
      /\ TokenPlaces \cap KeyPlaces = {} /\ TokenPlaces \cap SessionPlaces = {} /\ KeyPlaces \cap SessionPlaces = {}
  BY DEF LockoutPlaces, TokenPlaces, KeyPlaces, SessionPlaces
<1>4. /\ AccountOps \cap LockoutOps = {} /\ AccountOps \cap TokenOps = {}
  BY DEF AccountOps, LockoutOps, TokenOps
<1>5. AccountOps \cap KeyOps = {} /\ AccountOps \cap SessionOps = {}
  BY DEF AccountOps, KeyOps, SessionOps
<1>6. /\ LockoutOps \cap TokenOps = {} /\ LockoutOps \cap KeyOps = {}
      /\ LockoutOps \cap SessionOps = {} /\ TokenOps \cap KeyOps = {} /\ TokenOps \cap SessionOps = {}
      /\ KeyOps \cap SessionOps = {}
  BY DEF LockoutOps, TokenOps, KeyOps, SessionOps
<1> QED  BY <1>1, <1>2, <1>3, <1>4, <1>5, <1>6

\* A client at a step of a service is in a call of it.
LEMMA WhereInCall ==
    ASSUME CallsTyped, NEW c \in Clients
    PROVE  /\ call[c].at # "idle" => call[c].todo # << >>
           /\ call[c].at \in AccountPlaces => InPlace(c, AccountOps, AccountPlaces)
           /\ call[c].at \in LockoutPlaces => InPlace(c, LockoutOps, LockoutPlaces)
           /\ call[c].at \in TokenPlaces => InPlace(c, TokenOps, TokenPlaces)
           /\ call[c].at \in KeyPlaces => InPlace(c, KeyOps, KeyPlaces)
           /\ call[c].at \in SessionPlaces => InPlace(c, SessionOps, SessionPlaces)
<1>1. \/ call[c].at = "idle"
      \/ InPlace(c, AccountOps, AccountPlaces) \/ InPlace(c, LockoutOps, LockoutPlaces)
      \/ InPlace(c, TokenOps, TokenPlaces) \/ InPlace(c, KeyOps, KeyPlaces)
      \/ InPlace(c, SessionOps, SessionPlaces)
  BY DEF CallsTyped
<1>3. ASSUME NEW ops, NEW places, InPlace(c, ops, places)  PROVE call[c].at \in places /\ call[c].todo # << >>
  BY <1>3 DEF InPlace
<1> QED  BY <1>1, <1>3, ServicesApart

\* How many calls have been dropped.
Drops == load.aborts - aborts

LEMMA TypedFrame ==
    ASSUME CallsTyped, NEW c \in Clients, load' = load, aborts' \in Nat, aborts' <= aborts,
           DOMAIN call' = Clients, \A d \in Clients \ {c} : call'[d] = call[d],
           DOMAIN call'[c] = {"todo", "at", "seen", "out"}, call'[c].todo \in Seq(Operations),
           \/ call'[c].at = "idle"
           \/ InPlace(c, AccountOps, AccountPlaces)' \/ InPlace(c, LockoutOps, LockoutPlaces)'
           \/ InPlace(c, TokenOps, TokenPlaces)' \/ InPlace(c, KeyOps, KeyPlaces)'
           \/ InPlace(c, SessionOps, SessionPlaces)'
    PROVE  CallsTyped'
<1>1. ASSUME NEW d \in Clients, d # c
      PROVE  /\ DOMAIN call'[d] = {"todo", "at", "seen", "out"} /\ call'[d].todo \in Seq(Operations)
             /\ \/ call'[d].at = "idle"
                \/ InPlace(d, AccountOps, AccountPlaces)' \/ InPlace(d, LockoutOps, LockoutPlaces)'
                \/ InPlace(d, TokenOps, TokenPlaces)' \/ InPlace(d, KeyOps, KeyPlaces)'
                \/ InPlace(d, SessionOps, SessionPlaces)'
  <2>1. call'[d] = call[d]
    BY <1>1
  <2> QED  BY <2>1 DEF CallsTyped, InPlace, Arg
<1>2. load' \in Workloads /\ load'.aborts \in Nat /\ aborts' <= load'.aborts
  BY DEF CallsTyped
<1> QED  BY <1>1, <1>2 DEF CallsTyped

\* A step of a service keeps the calls in their places.
LEMMA ServiceTyped ==
    ASSUME CallsTyped, NEW c \in Clients, NEW ops, NEW places, OfService(c, ops, places),
           \/ ops = AccountOps /\ places = AccountPlaces
           \/ ops = LockoutOps /\ places = LockoutPlaces
           \/ ops = TokenOps /\ places = TokenPlaces
           \/ ops = KeyOps /\ places = KeyPlaces
           \/ ops = SessionOps /\ places = SessionPlaces
    PROVE  CallsTyped'
<1>1. call[c].todo # << >> /\ Arg(c).op \in ops /\ call[c].todo \in Seq(Operations) /\ aborts \in Nat
  BY DEF OfService, CallsTyped
<1>2. ASSUME NEW at \in places, NEW what, Proceed(c, at, what)  PROVE CallsTyped'
  <2>1. Waits(c, at, what) /\ load' = load /\ aborts' = aborts
    BY <1>2, Proceeds
  <2>2. InPlace(c, ops, places)'
    BY <1>1, <1>2, <2>1 DEF Waits, InPlace, Arg
  <2>3. \/ InPlace(c, AccountOps, AccountPlaces)' \/ InPlace(c, LockoutOps, LockoutPlaces)'
        \/ InPlace(c, TokenOps, TokenPlaces)' \/ InPlace(c, KeyOps, KeyPlaces)'
        \/ InPlace(c, SessionOps, SessionPlaces)'
    BY <2>2
  <2> QED  BY <1>1, <2>1, <2>3, TypedFrame DEF Waits
<1>3. ASSUME NEW out, Return(c, out)  PROVE CallsTyped'
  <2>1. Ended(c, out) /\ load' = load /\ aborts' = aborts
    BY <1>3, Returns
  <2>2. call'[c].todo \in Seq(Operations) /\ aborts' \in Nat /\ aborts' <= aborts
    BY <1>1, <2>1 DEF Ended
  <2> QED  BY <2>1, <2>2, TypedFrame DEF Ended
<1> QED  BY <1>2, <1>3 DEF OfService

\* Calls are typed from the start and stay so.
LEMMA CallsTypedInductive ==
    /\ Init => CallsTyped
    /\ CallsTyped /\ [Next]_vars => CallsTyped'
<1>1. ASSUME Init  PROVE CallsTyped
  <2>1. PICK w \in Workloads : CallInit(w)
    BY <1>1 DEF Init
  <2>2. w.calls \in [Clients -> Seq(Operations)] /\ w.aborts \in Nat
    BY CallsAssumption, WorkloadsAssumption
  <2> QED  BY <2>1, <2>2 DEF CallInit, CallsTyped
<1>2. ASSUME CallsTyped, UNCHANGED callVars  PROVE CallsTyped'
  BY <1>2 DEF callVars, CallsTyped, InPlace, Arg
<1>3. ASSUME CallsTyped, NEW c \in Clients, Request(c)  PROVE CallsTyped'
  <2>1. CASE AccountsStep(c)
    BY <1>3, <2>1, AccountsOfService, ServiceTyped
  <2>2. CASE LockoutStep(c)
    BY <1>3, <2>2, LockoutOfService, ServiceTyped
  <2>3. CASE TokensStep(c)
    BY <1>3, <2>3, TokensOfService, ServiceTyped
  <2>4. CASE KeysStep(c)
    BY <1>3, <2>4, KeysOfService, ServiceTyped
  <2>5. CASE SessionStep(c)
    BY <1>3, <2>5, SessionsOfService, ServiceTyped
  <2> QED  BY <1>3, <2>1, <2>2, <2>3, <2>4, <2>5 DEF Request
<1>4. ASSUME CallsTyped, NEW c \in Clients, Abandon(c)  PROVE CallsTyped'
  <2>1. Ended(c, "aborted") /\ load' = load /\ aborts' = aborts - 1 /\ aborts > 0 /\ call[c].at # "idle"
    BY <1>4, Abandons
  <2>2. call[c].todo # << >>
    BY <1>4, <2>1, WhereInCall
  <2>3. call'[c].todo \in Seq(Operations) /\ aborts' \in Nat /\ aborts' <= aborts
    BY <1>4, <2>1, <2>2 DEF Ended, CallsTyped
  <2> QED  BY <1>4, <2>1, <2>3, TypedFrame DEF Ended
<1>5. ASSUME Clock  PROVE UNCHANGED callVars
  BY <1>5 DEF Clock, Elapse, KeyExpires, TokenAges, KeyExpired, StateExpires
<1>6. ASSUME [Next]_vars  PROVE UNCHANGED callVars \/ \E c \in Clients : Request(c) \/ Abandon(c)
  BY <1>5, <1>6 DEF Next, vars, Dropped
<1> QED  BY <1>1, <1>2, <1>3, <1>4, <1>6

\* Services that have no operation and no step in common.
Apart(ops, places, those, there) == ops \cap those = {} /\ places \cap there = {} /\ "idle" \notin there

\* A step of another service neither moves a client that is at one of these
\* places nor brings one there.
LEMMA OtherService ==
    ASSUME CallsTyped, NEW c \in Clients, NEW ops, NEW places, OfService(c, ops, places),
           NEW those, NEW there, Apart(ops, places, those, there),
           call[c].at \in there => InPlace(c, those, there)
    PROVE  \A d \in Clients : call[d].at \in there \/ call'[d].at \in there => call'[d] = call[d]
<1>1. Arg(c).op \in ops /\ call[c].at \notin there
  BY DEF OfService, InPlace, Apart
<1>2. ASSUME NEW at \in places, NEW what, Proceed(c, at, what)
      PROVE  call'[c].at \notin there /\ \A d \in Clients \ {c} : call'[d] = call[d]
  BY <1>2, Proceeds DEF Waits, Apart
<1>3. ASSUME NEW out, Return(c, out)
      PROVE  call'[c].at \notin there /\ \A d \in Clients \ {c} : call'[d] = call[d]
  BY <1>3, Returns DEF Ended, Apart
<1>4. call'[c].at \notin there /\ \A d \in Clients \ {c} : call'[d] = call[d]
  BY <1>2, <1>3 DEF OfService
<1> QED  BY <1>1, <1>4

-----------------------------------------------------------------------------
(* Sessions.                                                               *)

SessionRecord == [auth : {"none", "guest", "user"}, csrf : Nat, flash : Nat]

\* What a request holds: the record of an identifier that was drawn, or one
\* that has none yet; a guest's identifier comes without a user.
Held(c) ==
    /\ Seen(c).id \in 0 .. Len(session) /\ Seen(c).row \in SessionRecord
    /\ Seen(c).id \in guests => Seen(c).row.auth # "user"

\* A guest's identifier leads to no user, stored or in the hands of a request.
SessionInv ==
    /\ session \in Seq(SessionRecord) /\ cookie \in 0 .. Len(session) /\ guests \subseteq 1 .. Len(session)
    /\ \A i \in guests : session[i].auth # "user"
    /\ \A c \in Clients : call[c].at \in SessionPlaces => Held(c)

\* One client moves; the identifiers drawn stay drawn and no drawn one becomes
\* a guest's.
LEMMA OneHolds ==
    ASSUME SessionInv, NEW c \in Clients, \A d \in Clients \ {c} : call'[d] = call[d],
           call'[c].at \in SessionPlaces => Held(c)',
           session' \in Seq(SessionRecord), Len(session') >= Len(session),
           cookie' \in 0 .. Len(session'), guests' \subseteq 1 .. Len(session'),
           \A i \in 0 .. Len(session) : i \in guests' => i \in guests,
           \A i \in guests' : session'[i].auth # "user"
    PROVE  SessionInv'
<1>1. ASSUME NEW d \in Clients \ {c}, call'[d].at \in SessionPlaces  PROVE Held(d)'
  <2>1. Held(d) /\ Seen(d)' = Seen(d)
    BY <1>1 DEF SessionInv, Seen
  <2>2. Len(session) \in Nat /\ Len(session') \in Nat
    BY DEF SessionInv
  <2> QED  BY <2>1, <2>2 DEF Held
<1> QED  BY <1>1 DEF SessionInv

\* The record a request that goes on without an identifier holds.
LEMMA HeldFresh ==
    ASSUME session' \in Seq(SessionRecord), guests' \subseteq 1 .. Len(session'),
           NEW c \in Clients, NEW record \in SessionRecord, Seen(c)' = [id |-> 0, row |-> record]
    PROVE  Held(c)'
<1>1. 0 \in 0 .. Len(session') /\ 0 \notin guests'
  OBVIOUS
<1> QED  BY <1>1 DEF Held

LEMMA LoadKeeps ==
    ASSUME CallsTyped, SessionInv, NEW c \in Clients, NEW op, load_record(c, op)
    PROVE  SessionInv'
<1>1. PICK what : /\ Proceed(c, "handling", what)
                  /\ \/ what = [id |-> cookie, row |-> session[cookie]] /\ cookie # 0
                     \/ what = [id |-> 0, row |-> NoRecord]
  BY DEF load_record
<1>2. Waits(c, "handling", what) /\ UNCHANGED <<session, cookie, guests>>
  BY <1>1, Proceeds DEF load_record, sessionVars
<1>3. Seen(c)' = what /\ \A d \in Clients \ {c} : call'[d] = call[d]
  BY <1>2 DEF Waits, Seen
<1>4. Held(c)'
  <2>1. NoRecord \in SessionRecord
    BY DEF NoRecord, SessionRecord
  <2>2. CASE what = [id |-> 0, row |-> NoRecord]
    BY <1>2, <1>3, <2>1, <2>2, HeldFresh DEF SessionInv
  <2>3. CASE what = [id |-> cookie, row |-> session[cookie]] /\ cookie # 0
    <3>1. cookie \in 1 .. Len(session) /\ session[cookie] \in SessionRecord
      BY <2>3 DEF SessionInv
    <3> QED  BY <1>2, <1>3, <2>3, <3>1 DEF SessionInv, Held
  <2> QED  BY <1>1, <2>2, <2>3
<1> QED  BY <1>2, <1>3, <1>4, OneHolds DEF SessionInv

\* A request ends, having written a record that gives no guest a user.
LEMMA SaveKeeps ==
    ASSUME CallsTyped, SessionInv, NEW c \in Clients, call[c].at \in SessionPlaces, NEW record \in SessionRecord, NEW out,
           save_record(c, record, out), Seen(c).id \in guests => record.auth # "user"
    PROVE  SessionInv'
<1>1. call'[c].at \notin SessionPlaces /\ \A d \in Clients \ {c} : call'[d] = call[d]
  <2>1. Ended(c, out)
    BY Returns DEF save_record
  <2> QED  BY <2>1 DEF Ended, SessionPlaces
<1>2. /\ session \in Seq(SessionRecord) /\ Len(session) \in Nat /\ guests \subseteq 1 .. Len(session)
      /\ cookie \in 0 .. Len(session) /\ Seen(c).id \in 0 .. Len(session)
      /\ \A i \in guests : session[i].auth # "user"
  <2>1. Held(c)
    BY DEF SessionInv
  <2>2. Seen(c).id \in 0 .. Len(session)
    BY <2>1 DEF Held
  <2>3. /\ session \in Seq(SessionRecord) /\ cookie \in 0 .. Len(session) /\ guests \subseteq 1 .. Len(session)
        /\ \A i \in guests : session[i].auth # "user"
    BY DEF SessionInv
  <2>4. Len(session) \in Nat
    BY <2>3
  <2> QED  BY <2>2, <2>3, <2>4
<1>3. PICK id : id = Seen(c).id
  OBVIOUS
<1>4. CASE UNCHANGED <<session, guests>> /\ cookie' \in {0, cookie}
  BY <1>1, <1>2, <1>4, OneHolds
<1>5. CASE id # 0 /\ session' = [session EXCEPT ![id] = record] /\ cookie' = id /\ UNCHANGED guests
  <2>1. id \in 1 .. Len(session)
    BY <1>2, <1>3, <1>5
  <2>2. session' \in Seq(SessionRecord) /\ Len(session') = Len(session)
    BY <1>2, <1>5, <2>1
  <2>3. \A i \in guests : session'[i].auth # "user"
    BY <1>2, <1>3, <1>5, <2>1
  <2> QED  BY <1>1, <1>2, <1>5, <2>1, <2>2, <2>3, OneHolds
<1>6. CASE /\ id = 0 /\ session' = Append(session, record) /\ cookie' = Len(session) + 1
           /\ guests' = IF record.auth = "user" THEN guests ELSE guests \cup {Len(session) + 1}
  <2>1. session' \in Seq(SessionRecord) /\ Len(session') = Len(session) + 1
    BY <1>2, <1>6
  <2>2. session'[Len(session) + 1] = record /\ \A i \in 1 .. Len(session) : session'[i] = session[i]
    BY <1>2, <1>6
  <2>3. guests' \subseteq 1 .. Len(session') /\ \A i \in guests' : session'[i].auth # "user"
    <3>1. guests' \subseteq guests \cup {Len(session) + 1} /\ (Len(session) + 1 \in guests' => record.auth # "user")
      BY <1>2, <1>6
    <3>2. guests' \subseteq 1 .. Len(session')
      BY <1>2, <2>1, <3>1
    <3>3. ASSUME NEW i \in guests'  PROVE session'[i].auth # "user"
      <4>1. CASE i \in guests
        <5>1. i \in 1 .. Len(session)
          BY <1>2, <4>1
        <5> QED  BY <1>2, <2>2, <4>1, <5>1
      <4>2. CASE i = Len(session) + 1
        BY <2>2, <3>1, <4>2
      <4> QED  BY <3>1, <4>1, <4>2
    <3> QED  BY <3>2, <3>3
  <2>4. \A i \in 0 .. Len(session) : i \in guests' => i \in guests
    BY <1>2, <1>6
  <2> QED  BY <1>1, <1>2, <1>6, <2>1, <2>3, <2>4, OneHolds
<1> QED  BY <1>3, <1>4, <1>5, <1>6 DEF save_record, sessionVars

\* The identifier is given up and its record deleted.
LEMMA ForgetKeeps ==
    ASSUME CallsTyped, SessionInv, NEW c \in Clients, call[c].at \in SessionPlaces, NEW record \in SessionRecord,
           forget(c, record)
    PROVE  SessionInv'
<1>1. PICK what : what = [id |-> 0, row |-> record]
  OBVIOUS
<1>2. Waits(c, "leaving", what) /\ UNCHANGED <<cookie, guests>>
  BY <1>1, Proceeds DEF forget
<1>3. Seen(c)' = what /\ \A d \in Clients \ {c} : call'[d] = call[d]
  BY <1>2 DEF Waits, Seen
<1>4. /\ session \in Seq(SessionRecord) /\ Len(session) \in Nat /\ guests \subseteq 1 .. Len(session)
      /\ cookie \in 0 .. Len(session) /\ Seen(c).id \in 0 .. Len(session)
      /\ \A i \in guests : session[i].auth # "user"
  <2>1. Held(c)
    BY DEF SessionInv
  <2>2. Seen(c).id \in 0 .. Len(session)
    BY <2>1 DEF Held
  <2>3. /\ session \in Seq(SessionRecord) /\ cookie \in 0 .. Len(session) /\ guests \subseteq 1 .. Len(session)
        /\ \A i \in guests : session[i].auth # "user"
    BY DEF SessionInv
  <2>4. Len(session) \in Nat
    BY <2>3
  <2> QED  BY <2>2, <2>3, <2>4
<1>5. NoRecord \in SessionRecord /\ NoRecord.auth # "user"
  BY DEF NoRecord, SessionRecord
<1>6. /\ session' \in Seq(SessionRecord) /\ Len(session') = Len(session)
      /\ \A i \in guests : session'[i].auth # "user"
  <2>1. PICK id : id = Seen(c).id
    OBVIOUS
  <2>2. CASE id = 0
    BY <1>4, <2>1, <2>2 DEF forget
  <2>3. CASE id # 0
    <3>1. id \in 1 .. Len(session) /\ session' = [session EXCEPT ![id] = NoRecord]
      BY <1>4, <2>1, <2>3 DEF forget
    <3> QED  BY <1>4, <1>5, <3>1
  <2> QED  BY <2>2, <2>3
<1>7. Held(c)'
  BY <1>1, <1>2, <1>3, <1>4, <1>6, HeldFresh
<1> QED  BY <1>2, <1>3, <1>4, <1>6, <1>7, OneHolds

LEMMA SessionStepKeeps ==
    ASSUME CallsTyped, SessionInv, NEW c \in Clients, SessionStep(c)
    PROVE  SessionInv'
<1>1. ASSUME NEW op, load_record(c, op)  PROVE SessionInv'
  BY <1>1, LoadKeeps
<1>2. ASSUME NEW op, NEW at \in SessionPlaces, Doing(c, op, at)
      PROVE  /\ call[c].at \in SessionPlaces /\ Seen(c).row \in SessionRecord
             /\ Seen(c).id \in guests => Seen(c).row.auth # "user"
  BY <1>2 DEF SessionInv, Held, Doing
<1>3. "handling" \in SessionPlaces /\ "leaving" \in SessionPlaces
  BY DEF SessionPlaces
<1>4. ASSUME NEW op, leave(c, op)  PROVE SessionInv'
  BY <1>2, <1>3, <1>4, SaveKeeps DEF leave
<1>5. ASSUME NEW op, Doing(c, op, "handling"), NEW a \in {"none", "guest", "user"}
      PROVE  [Seen(c).row EXCEPT !.auth = a] \in SessionRecord /\ [Seen(c).row EXCEPT !.auth = a].auth = a
  BY <1>2, <1>3, <1>5 DEF SessionRecord
<1>6. CASE login_session(c)
  <2>1. CASE Doing(c, "sign_in", "handling") /\ regenerate_id(c, [Seen(c).row EXCEPT !.auth = "user"])
    BY <1>2, <1>3, <1>5, <2>1, ForgetKeeps DEF regenerate_id
  <2> QED  BY <1>1, <1>4, <1>6, <2>1 DEF login_session
<1>7. CASE renew(c)
  <2>1. CASE Doing(c, "renew", "handling") /\ regenerate_id(c, Seen(c).row)
    BY <1>2, <1>3, <2>1, ForgetKeeps DEF regenerate_id
  <2> QED  BY <1>1, <1>4, <1>7, <2>1 DEF renew
<1>8. ASSUME NEW op, NEW a \in {"none", "guest"}, Doing(c, op, "handling"),
             save_record(c, [Seen(c).row EXCEPT !.auth = a], "ok")
      PROVE  SessionInv'
  <2>1. PICK record : record = [Seen(c).row EXCEPT !.auth = a]
    OBVIOUS
  <2>2. record \in SessionRecord /\ record.auth # "user"
    BY <1>5, <1>8, <2>1
  <2> QED  BY <1>2, <1>3, <1>8, <2>1, <2>2, SaveKeeps
<1>9. CASE logout(c) \/ clear(c)
  BY <1>1, <1>8, <1>9 DEF logout, clear
<1>10. CASE destroy(c)
  <2>1. NoRecord \in SessionRecord
    BY DEF NoRecord, SessionRecord
  <2>2. CASE Doing(c, "destroy", "handling") /\ forget(c, NoRecord)
    BY <1>2, <1>3, <2>1, <2>2, ForgetKeeps
  <2> QED  BY <1>1, <1>4, <1>10, <2>2 DEF destroy
<1>11. ASSUME NEW op, Doing(c, op, "handling"), NEW record \in SessionRecord, record.auth = Seen(c).row.auth,
              NEW out, save_record(c, record, out)
       PROVE  SessionInv'
  BY <1>2, <1>3, <1>11, SaveKeeps
<1>12. CASE regenerate(c)
  <2>1. CASE Doing(c, "regenerate", "handling") /\ save_record(c, [Seen(c).row EXCEPT !.csrf = Arg(c).fresh], "ok")
    <3>1. PICK record : record = [Seen(c).row EXCEPT !.csrf = Arg(c).fresh]
      OBVIOUS
    <3>2. Arg(c).fresh \in Nat
      BY <2>1, CallTyped, CallCarries DEF Doing, Arg
    <3>3. record \in SessionRecord /\ record.auth = Seen(c).row.auth
      BY <1>2, <1>3, <2>1, <3>1, <3>2 DEF SessionRecord
    <3> QED  BY <1>11, <2>1, <3>1, <3>3
  <2> QED  BY <1>1, <1>12, <2>1 DEF regenerate
<1>13. CASE get_or_create(c)
  <2>1. CASE Doing(c, "page", "handling")
    <3>1. PICK record : record = [Seen(c).row EXCEPT !.csrf = IF @ = 0 THEN Arg(c).fresh ELSE @, !.flash = 0]
      OBVIOUS
    <3>2. Arg(c).fresh \in Nat
      BY <2>1, CallTyped, CallCarries DEF Doing, Arg
    <3>3. record \in SessionRecord /\ record.auth = Seen(c).row.auth
      BY <1>2, <1>3, <2>1, <3>1, <3>2 DEF SessionRecord
    <3>4. save_record(c, record, "ok")
      BY <1>13, <2>1, <3>1 DEF get_or_create, load_record, Doing
    <3> QED  BY <1>11, <2>1, <3>3, <3>4
  <2> QED  BY <1>1, <1>13, <2>1 DEF get_or_create
<1>14. CASE csrf_middleware(c)
  <2>1. CASE Doing(c, "submit", "handling")
    <3>1. PICK record : record = [Seen(c).row EXCEPT !.flash = @ + 1]
      OBVIOUS
    <3>2. record \in SessionRecord /\ record.auth = Seen(c).row.auth /\ Seen(c).row \in SessionRecord
      BY <1>2, <1>3, <2>1, <3>1 DEF SessionRecord
    <3>3. save_record(c, record, "ok") \/ save_record(c, Seen(c).row, "Forbidden")
      BY <1>14, <2>1, <3>1 DEF csrf_middleware, load_record, Doing
    <3> QED  BY <1>11, <2>1, <3>2, <3>3
  <2> QED  BY <1>1, <1>14, <2>1 DEF csrf_middleware
<1> QED  BY <1>6, <1>7, <1>9, <1>10, <1>12, <1>13, <1>14 DEF SessionStep

\* Steps that leave the sessions and those who hold them.
LEMMA SessionsAside ==
    ASSUME SessionInv, UNCHANGED sessionVars,
           \A d \in Clients : call'[d].at \in SessionPlaces => call'[d] = call[d]
    PROVE  SessionInv'
<1>1. session' = session /\ cookie' = cookie /\ guests' = guests
  BY DEF sessionVars
<1>2. ASSUME NEW d \in Clients, call'[d].at \in SessionPlaces  PROVE Held(d)'
  <2>1. Held(d) /\ Seen(d)' = Seen(d)
    BY <1>2 DEF SessionInv, Seen
  <2> QED  BY <1>1, <2>1 DEF Held
<1> QED  BY <1>1, <1>2 DEF SessionInv

LEMMA SessionInvInductive ==
    /\ Init => SessionInv
    /\ CallsTyped /\ SessionInv /\ [Next]_vars => SessionInv'
<1>1. ASSUME Init  PROVE SessionInv
  <2>1. \A c \in Clients : call[c].at \notin SessionPlaces
    BY <1>1 DEF Init, CallInit, SessionPlaces
  <2>2. session = << >> /\ cookie = 0 /\ guests = {}
    BY <1>1 DEF Init, SessionInit
  <2> QED  BY <2>1, <2>2 DEF SessionInv
<1>2. ASSUME CallsTyped, SessionInv, NEW c \in Clients, Request(c)  PROVE SessionInv'
  <2>0. call[c].at \in SessionPlaces => InPlace(c, SessionOps, SessionPlaces)
    BY <1>2, WhereInCall
  <2>1. CASE AccountsStep(c) /\ OnlyAccounts
    <3>0. OfService(c, AccountOps, AccountPlaces) /\ Apart(AccountOps, AccountPlaces, SessionOps, SessionPlaces)
      BY <2>1, AccountsOfService, ServicesApart DEF Apart
    <3>1. \A d \in Clients : call'[d].at \in SessionPlaces => call'[d] = call[d]
      BY <1>2, <2>0, <3>0, OtherService
    <3> QED  BY <1>2, <2>1, <3>1, SessionsAside DEF OnlyAccounts
  <2>2. CASE LockoutStep(c) /\ OnlyAccounts
    <3>0. OfService(c, LockoutOps, LockoutPlaces) /\ Apart(LockoutOps, LockoutPlaces, SessionOps, SessionPlaces)
      BY <2>2, LockoutOfService, ServicesApart DEF Apart
    <3>1. \A d \in Clients : call'[d].at \in SessionPlaces => call'[d] = call[d]
      BY <1>2, <2>0, <3>0, OtherService
    <3> QED  BY <1>2, <2>2, <3>1, SessionsAside DEF OnlyAccounts
  <2>3. CASE TokensStep(c) /\ OnlyTokens
    <3>0. OfService(c, TokenOps, TokenPlaces) /\ Apart(TokenOps, TokenPlaces, SessionOps, SessionPlaces)
      BY <2>3, TokensOfService, ServicesApart DEF Apart
    <3>1. \A d \in Clients : call'[d].at \in SessionPlaces => call'[d] = call[d]
      BY <1>2, <2>0, <3>0, OtherService
    <3> QED  BY <1>2, <2>3, <3>1, SessionsAside DEF OnlyTokens
  <2>4. CASE KeysStep(c) /\ OnlyKeys
    <3>0. OfService(c, KeyOps, KeyPlaces) /\ Apart(KeyOps, KeyPlaces, SessionOps, SessionPlaces)
      BY <2>4, KeysOfService, ServicesApart DEF Apart
    <3>1. \A d \in Clients : call'[d].at \in SessionPlaces => call'[d] = call[d]
      BY <1>2, <2>0, <3>0, OtherService
    <3> QED  BY <1>2, <2>4, <3>1, SessionsAside DEF OnlyKeys
  <2>5. CASE SessionStep(c)
    BY <1>2, <2>5, SessionStepKeeps
  <2> QED  BY <1>2, <2>1, <2>2, <2>3, <2>4, <2>5 DEF Request
<1>3. ASSUME CallsTyped, SessionInv, NEW c \in Clients, Dropped(c)  PROVE SessionInv'
  <2>1. Ended(c, "aborted")
    BY <1>3, Abandons DEF Dropped
  <2>2. \A d \in Clients : call'[d].at \in SessionPlaces => call'[d] = call[d]
    BY <2>1 DEF Ended, SessionPlaces
  <2> QED  BY <1>3, <2>2, SessionsAside DEF Dropped
<1>4. ASSUME SessionInv, Clock \/ UNCHANGED vars  PROVE SessionInv'
  <2>1. UNCHANGED call /\ UNCHANGED sessionVars
    BY <1>4 DEF Clock, Elapse, KeyExpires, TokenAges, KeyExpired, StateExpires, OnlyAccounts, OnlyTokens, OnlyKeys,
         callVars, vars
  <2> QED  BY <1>4, <2>1, SessionsAside
<1> QED  BY <1>1, <1>2, <1>3, <1>4 DEF Next

\* An identifier that was given out before anybody had logged in never leads
\* to a user's record, whatever requests in flight during a login, a logout
\* or a change of identifier write back, for any number of them.
THEOREM GuestIdsStayAnonymous == Spec => []FixedIdStaysAnonymous
<1>1. SessionInv => FixedIdStaysAnonymous
  BY DEF SessionInv, FixedIdStaysAnonymous
<1> QED  BY <1>1, CallsTypedInductive, SessionInvInductive, PTL DEF Spec

-----------------------------------------------------------------------------
(* Lockout.                                                                *)

\* Logins on k that the lockout counts, at one of these steps.
On(k, places) == {c \in Clients : call[c].at \in places /\ Arg(c).identity = k /\ Arg(c).enabled}

Passed(k) == On(k, {"handler"})
Failed(k) == On(k, {"incr"})
Unsettled(k) == On(k, {"incr", "expire_lock", "lock"})

LockoutTyped ==
    /\ attempts \in [Identities -> [count : Nat, ttl : BOOLEAN]]
    /\ locked \subseteq Identities /\ guesses \in [Identities -> Nat] /\ overlooked \in [Identities -> Nat]

\* While k is open each wrong password has been counted, is about to be, or
\* its call was dropped; and beyond max_attempts - 1 of them each belongs to a
\* call that is about to count or to lock, or was dropped.  While k is locked
\* only those who had passed the check can still guess, and those whose check
\* missed the lock.
Within(k) ==
    /\ k \notin locked =>
           /\ guesses[k] <= attempts[k].count + Cardinality(Failed(k)) + Drops
           /\ guesses[k] <= MaxAttempts - 1 + Cardinality(Unsettled(k)) + Drops
    /\ k \in locked =>
           guesses[k] + Cardinality(Passed(k)) <= MaxAttempts - 1 + Cardinality(Clients) + Drops + overlooked[k]

GuessInv == LockoutTyped /\ \A k \in Identities : Within(k)

LEMMA OnFinite ==
    ASSUME NEW k, NEW places
    PROVE  IsFiniteSet(On(k, places)) /\ Cardinality(On(k, places)) \in Nat
<1>1. On(k, places) \in SUBSET Clients /\ IsFiniteSet(Clients)
  BY CallsAssumption DEF On
<1> QED  BY <1>1, FS_Subset, FS_CardinalityType

\* Nobody is at two steps.
LEMMA PassedAndUnsettled ==
    ASSUME NEW k
    PROVE  /\ Cardinality(Passed(k)) + Cardinality(Unsettled(k)) <= Cardinality(Clients)
           /\ Cardinality(Failed(k)) <= Cardinality(Unsettled(k))
           /\ Cardinality(Passed(k)) \in Nat /\ Cardinality(Unsettled(k)) \in Nat
           /\ Cardinality(Failed(k)) \in Nat /\ Cardinality(Clients) \in Nat
<1>1. /\ IsFiniteSet(Passed(k)) /\ Cardinality(Passed(k)) \in Nat
      /\ IsFiniteSet(Unsettled(k)) /\ Cardinality(Unsettled(k)) \in Nat
      /\ IsFiniteSet(Failed(k)) /\ Cardinality(Failed(k)) \in Nat
  BY OnFinite DEF Passed, Unsettled, Failed
<1>2. IsFiniteSet(Clients) /\ Cardinality(Clients) \in Nat
  BY CallsAssumption, FS_CardinalityType
<1>3. Passed(k) \cap Unsettled(k) = {}
  BY DEF Passed, Unsettled, On
<1>4. Passed(k) \cup Unsettled(k) \in SUBSET Clients
  BY DEF Passed, Unsettled, On
<1>5. Cardinality(Passed(k) \cup Unsettled(k)) = Cardinality(Passed(k)) + Cardinality(Unsettled(k))
  <2>1. Cardinality(Passed(k) \cup Unsettled(k))
          = Cardinality(Passed(k)) + Cardinality(Unsettled(k)) - Cardinality(Passed(k) \cap Unsettled(k))
    BY <1>1, FS_Union
  <2>2. Cardinality(Passed(k) \cap Unsettled(k)) = 0
    BY <1>3, FS_EmptySet
  <2> QED  BY <1>1, <2>1, <2>2
<1>6. Cardinality(Passed(k) \cup Unsettled(k)) <= Cardinality(Clients)
  BY <1>2, <1>4, FS_Subset
<1>7. Failed(k) \in SUBSET Unsettled(k)
  BY DEF Failed, Unsettled, On
<1>8. Cardinality(Failed(k)) <= Cardinality(Unsettled(k))
  BY <1>1, <1>7, FS_Subset
<1> QED  BY <1>1, <1>2, <1>5, <1>6, <1>8

\* One client moves: it comes, goes, or nothing changes.
LEMMA OnMoved ==
    ASSUME NEW c \in Clients, \A d \in Clients \ {c} : call'[d] = call[d], NEW k, NEW places
    PROVE  /\ (c \in On(k, places) <=> c \in On(k, places)') => On(k, places)' = On(k, places)
           /\ c \notin On(k, places) /\ c \in On(k, places)'
                => Cardinality(On(k, places)') = Cardinality(On(k, places)) + 1
           /\ c \in On(k, places) /\ c \notin On(k, places)'
                => Cardinality(On(k, places)') = Cardinality(On(k, places)) - 1
<1>1. \A d \in Clients \ {c} : d \in On(k, places) <=> d \in On(k, places)'
  BY DEF On, Arg
<1>2. On(k, places) \subseteq Clients /\ On(k, places)' \subseteq Clients
  BY DEF On
<1>3. PICK S : S = On(k, places)
  OBVIOUS
<1>4. PICK T : T = On(k, places)'
  OBVIOUS
<1>5. IsFiniteSet(S)
  BY <1>3, OnFinite
<1>6. ASSUME c \notin S, c \in T  PROVE Cardinality(T) = Cardinality(S) + 1
  <2>1. T = S \cup {c}
    BY <1>1, <1>2, <1>3, <1>4, <1>6
  <2> QED  BY <1>5, <1>6, <2>1, FS_AddElement
<1>7. ASSUME c \in S, c \notin T  PROVE Cardinality(T) = Cardinality(S) - 1
  <2>1. T = S \ {c}
    BY <1>1, <1>2, <1>3, <1>4, <1>7
  <2> QED  BY <1>5, <1>7, <2>1, FS_RemoveElement
<1>8. ASSUME c \in S <=> c \in T  PROVE T = S
  BY <1>1, <1>2, <1>3, <1>4, <1>8
<1> QED  BY <1>3, <1>4, <1>6, <1>7, <1>8

\* Identities whose logins stay where they are.
LEMMA WithinFrame ==
    ASSUME NEW k, Within(k), Passed(k)' = Passed(k), Failed(k)' = Failed(k), Unsettled(k)' = Unsettled(k),
           UNCHANGED <<load, aborts>>, guesses'[k] = guesses[k], attempts'[k].count = attempts[k].count,
           k \in locked' <=> k \in locked, overlooked'[k] = overlooked[k]
    PROVE  Within(k)'
<1>1. Drops' = Drops
  BY DEF Drops
<1> QED  BY <1>1 DEF Within

\* A client that is in no login of k before or after.
LEMMA OtherIdentity ==
    ASSUME NEW c \in Clients, \A d \in Clients \ {c} : call'[d] = call[d], NEW k,
           Arg(c).identity # k,
           call'[c].at = "idle" \/ call'[c].todo = call[c].todo
    PROVE  Passed(k)' = Passed(k) /\ Failed(k)' = Failed(k) /\ Unsettled(k)' = Unsettled(k)
<1>1. ASSUME NEW places, "idle" \notin places  PROVE On(k, places)' = On(k, places)
  <2>1. c \notin On(k, places) /\ c \notin On(k, places)'
    BY <1>1 DEF On, Arg
  <2> QED  BY <2>1, OnMoved
<1> QED  BY <1>1 DEF Passed, Failed, Unsettled

LEMMA OnFiniteNext ==
    ASSUME NEW k, NEW places
    PROVE  IsFiniteSet(On(k, places)') /\ Cardinality(On(k, places)') \in Nat
<1>1. On(k, places)' \in SUBSET Clients /\ IsFiniteSet(Clients)
  BY CallsAssumption DEF On
<1> QED  BY <1>1, FS_Subset, FS_CardinalityType

LEMMA Counts ==
    ASSUME NEW k
    PROVE  /\ Cardinality(Passed(k)') \in Nat /\ Cardinality(Failed(k)') \in Nat /\ Cardinality(Unsettled(k)') \in Nat
           /\ Cardinality(Passed(k)) \in Nat /\ Cardinality(Failed(k)) \in Nat /\ Cardinality(Unsettled(k)) \in Nat
<1>1. ASSUME NEW places
      PROVE  Cardinality(On(k, places)') \in Nat /\ Cardinality(On(k, places)) \in Nat
  BY OnFinite, OnFiniteNext
<1> QED  BY <1>1 DEF Passed, Failed, Unsettled

\* How the sets of k change when a client in a login of k moves.
LEMMA LoginMoved ==
    ASSUME NEW c \in Clients, \A d \in Clients \ {c} : call'[d] = call[d],
           call'[c].at = "idle" \/ call'[c].todo = call[c].todo,
           NEW k, k = Arg(c).identity, Arg(c).enabled \in BOOLEAN, NEW places, "idle" \notin places
    PROVE  /\ ~Arg(c).enabled => On(k, places)' = On(k, places)
           /\ (call[c].at \in places <=> call'[c].at \in places) => On(k, places)' = On(k, places)
           /\ Arg(c).enabled /\ call[c].at \notin places /\ call'[c].at \in places
                => Cardinality(On(k, places)') = Cardinality(On(k, places)) + 1
           /\ Arg(c).enabled /\ call[c].at \in places /\ call'[c].at \notin places
                => Cardinality(On(k, places)') = Cardinality(On(k, places)) - 1
<1>1. c \in On(k, places) <=> call[c].at \in places /\ Arg(c).enabled
  BY DEF On
<1>2. c \in On(k, places)' <=> call'[c].at \in places /\ Arg(c).enabled
  <2>1. CASE call'[c].at = "idle"
    BY <2>1 DEF On
  <2>2. CASE call'[c].todo = call[c].todo
    <3>1. Arg(c)' = Arg(c)
      BY <2>2 DEF Arg
    <3> QED  BY <3>1 DEF On
  <2> QED  BY <2>1, <2>2
<1> QED  BY <1>1, <1>2, OnMoved

\* The call of a client in a login.
LEMMA LoginCall ==
    ASSUME CallsTyped, NEW c \in Clients, NEW at, Doing(c, "login", at)
    PROVE  /\ Arg(c).identity \in Identities /\ Arg(c).enabled \in BOOLEAN /\ call[c].at = at
           /\ call[c].todo # << >>
<1>1. call[c].todo # << >> /\ Arg(c).op = "login" /\ call[c].at = at
  BY DEF Doing, Arg
<1>2. Arg(c) \in Operations
  BY <1>1, CallTyped
<1> QED  BY <1>1, <1>2, CallCarries DEF LockoutOps

\* An identity that is cleared starts again.
LEMMA Cleared ==
    ASSUME CallsTyped, NEW k \in Identities, guesses'[k] = 0, k \notin locked', attempts'[k].count \in Nat,
           UNCHANGED <<load, aborts>>
    PROVE  Within(k)'
<1>1. Drops' \in Nat
  BY DEF CallsTyped, Drops
<1>2. Cardinality(Failed(k)') \in Nat /\ Cardinality(Unsettled(k)') \in Nat
  BY Counts
<1>3. MaxAttempts - 1 \in Nat
  BY LockoutAssumption
<1> QED  BY <1>1, <1>2, <1>3 DEF Within

\* The numbers of k in a step of a login of k, and the identities beside it.
LEMMA BesideK ==
    ASSUME NEW c \in Clients, \A d \in Clients \ {c} : call'[d] = call[d],
           call'[c].at = "idle" \/ call'[c].todo = call[c].todo,
           \A k \in Identities : Within(k), NEW j, j = Arg(c).identity, UNCHANGED <<load, aborts>>,
           \A k \in Identities \ {j} :
               /\ guesses'[k] = guesses[k] /\ attempts'[k].count = attempts[k].count
               /\ k \in locked' <=> k \in locked
               /\ overlooked'[k] = overlooked[k]
    PROVE  \A k \in Identities \ {j} : Within(k)'
<1> SUFFICES ASSUME NEW k \in Identities \ {j}  PROVE Within(k)'
  OBVIOUS
<1>1. Passed(k)' = Passed(k) /\ Failed(k)' = Failed(k) /\ Unsettled(k)' = Unsettled(k)
  BY OtherIdentity
<1> QED  BY <1>1, WithinFrame

\* A login's steps outside the count.
LEMMA CalmStep ==
    ASSUME CallsTyped, GuessInv, NEW c \in Clients, NEW at, Doing(c, "login", at),
           UNCHANGED <<guesses, locked, overlooked>>, attempts' \in [Identities -> [count : Nat, ttl : BOOLEAN]],
           \A k \in Identities : attempts'[k].count = attempts[k].count,
           UNCHANGED <<load, aborts>>, \A d \in Clients \ {c} : call'[d] = call[d],
           call'[c].at = "idle" \/ call'[c].todo = call[c].todo,
           at # "incr" /\ call'[c].at # "incr",
           at \in {"expire_lock", "lock"} <=> call'[c].at \in {"expire_lock", "lock"},
           call'[c].at = "handler" => at = "handler" \/ ~Arg(c).enabled \/ Arg(c).identity \notin locked
    PROVE  GuessInv'
<1>1. PICK k : k = Arg(c).identity
  OBVIOUS
<1>2. k \in Identities /\ Arg(c).enabled \in BOOLEAN /\ call[c].at = at
  BY <1>1, LoginCall
<1>3. Failed(k)' = Failed(k)
  <2>1. call[c].at \in {"incr"} <=> call'[c].at \in {"incr"}
    BY <1>2
  <2> QED  BY <1>1, <1>2, <2>1, LoginMoved DEF Failed
<1>4. Unsettled(k)' = Unsettled(k)
  <2>1. call[c].at \in {"incr", "expire_lock", "lock"} <=> call'[c].at \in {"incr", "expire_lock", "lock"}
    BY <1>2
  <2> QED  BY <1>1, <1>2, <2>1, LoginMoved DEF Unsettled
<1>5. k \in locked => Cardinality(Passed(k)') <= Cardinality(Passed(k))
  <2> SUFFICES ASSUME k \in locked  PROVE Cardinality(Passed(k)') <= Cardinality(Passed(k))
    OBVIOUS
  <2>0. \/ ~Arg(c).enabled
        \/ (call[c].at \in {"handler"} <=> call'[c].at \in {"handler"})
        \/ Arg(c).enabled /\ call[c].at \in {"handler"} /\ call'[c].at \notin {"handler"}
    BY <1>1, <1>2
  <2>1. Passed(k)' = Passed(k) \/ Cardinality(Passed(k)') = Cardinality(Passed(k)) - 1
    BY <1>1, <1>2, <2>0, LoginMoved DEF Passed
  <2>2. Cardinality(Passed(k)) \in Nat
    BY Counts
  <2> QED  BY <2>1, <2>2
<1>6. Within(k)'
  <2>1. Drops' = Drops /\ Drops \in Int
    BY DEF Drops, CallsTyped
  <2>2. guesses[k] \in Nat /\ overlooked[k] \in Nat /\ Cardinality(Clients) \in Nat /\ Cardinality(Passed(k)) \in Nat /\ Cardinality(Passed(k)') \in Nat
    BY <1>2, Counts, PassedAndUnsettled DEF GuessInv, LockoutTyped
  <2>3. Within(k) /\ guesses'[k] = guesses[k] /\ attempts'[k].count = attempts[k].count /\ (k \in locked' <=> k \in locked)
    BY <1>2 DEF GuessInv
  <2>4. k \in locked => guesses[k] + Cardinality(Passed(k)') <= MaxAttempts - 1 + Cardinality(Clients) + Drops + overlooked[k]
    BY <1>5, <2>1, <2>2, <2>3, LockoutAssumption DEF Within
  <2> QED  BY <1>3, <1>4, <2>1, <2>3, <2>4 DEF Within
<1>7. \A j \in Identities \ {k} : Within(j)'
  BY <1>1, BesideK DEF GuessInv
<1> QED  BY <1>6, <1>7 DEF GuessInv, LockoutTyped

\* A check that misses the lock of k adds one who may guess, and is counted.
LEMMA MissStep ==
    ASSUME CallsTyped, GuessInv, NEW c \in Clients, Doing(c, "login", "idle"), ~check(c),
           overlooked' = [overlooked EXCEPT ![Arg(c).identity] = @ + 1], UNCHANGED <<attempts, locked, guesses>>,
           UNCHANGED <<load, aborts>>, \A d \in Clients \ {c} : call'[d] = call[d],
           call'[c].todo = call[c].todo, call'[c].at = "handler"
    PROVE  GuessInv'
<1>1. PICK k : k = Arg(c).identity
  OBVIOUS
<1>2. k \in Identities /\ call[c].at = "idle" /\ Arg(c).enabled = TRUE /\ k \in locked
  BY <1>1, LoginCall DEF check
<1>3. Cardinality(Passed(k)') = Cardinality(Passed(k)) + 1
  BY <1>1, <1>2, LoginMoved DEF Passed
<1>4. Within(k)'
  <2>1. Drops' = Drops /\ Drops \in Int
    BY DEF Drops, CallsTyped
  <2>2. /\ guesses[k] \in Nat /\ overlooked[k] \in Nat /\ overlooked'[k] = overlooked[k] + 1
        /\ Cardinality(Clients) \in Nat /\ Cardinality(Passed(k)) \in Nat
    BY <1>1, <1>2, PassedAndUnsettled DEF GuessInv, LockoutTyped
  <2>3. Within(k) /\ guesses'[k] = guesses[k] /\ k \in locked'
    BY <1>2 DEF GuessInv
  <2> QED  BY <1>2, <1>3, <2>1, <2>2, <2>3, LockoutAssumption DEF Within
<1>5. \A j \in Identities \ {k} : Within(j)'
  <2>1. \A j \in Identities \ {k} : overlooked'[j] = overlooked[j]
    BY <1>1 DEF GuessInv, LockoutTyped
  <2> QED  BY <1>1, <2>1, BesideK DEF GuessInv
<1>6. LockoutTyped'
  BY <1>1, <1>2 DEF GuessInv, LockoutTyped
<1> QED  BY <1>4, <1>5, <1>6 DEF GuessInv

\* A wrong password: the call that had passed the check is about to count it.
LEMMA GuessStep ==
    ASSUME CallsTyped, GuessInv, NEW c \in Clients, Doing(c, "login", "handler"), Arg(c).enabled = TRUE,
           guesses' = [guesses EXCEPT ![Arg(c).identity] = @ + 1], UNCHANGED <<attempts, locked, overlooked>>,
           UNCHANGED <<load, aborts>>, \A d \in Clients \ {c} : call'[d] = call[d],
           call'[c].todo = call[c].todo, call'[c].at = "incr"
    PROVE  GuessInv'
<1>1. PICK k : k = Arg(c).identity
  OBVIOUS
<1>2. k \in Identities /\ call[c].at = "handler"
  BY <1>1, LoginCall
<1>3. Cardinality(Failed(k)') = Cardinality(Failed(k)) + 1
  BY <1>1, <1>2, LoginMoved DEF Failed
<1>4. Cardinality(Unsettled(k)') = Cardinality(Unsettled(k)) + 1
  <2>1. PICK places : places = {"incr", "expire_lock", "lock"}
    OBVIOUS
  <2>2. "idle" \notin places /\ call[c].at \notin places /\ call'[c].at \in places
    BY <1>2, <2>1
  <2>3. Cardinality(On(k, places)') = Cardinality(On(k, places)) + 1
    BY <1>1, <2>2, LoginMoved
  <2> QED  BY <2>1, <2>3 DEF Unsettled
<1>5. Cardinality(Passed(k)') = Cardinality(Passed(k)) - 1
  BY <1>1, <1>2, LoginMoved DEF Passed
<1>6. Within(k)'
  <2>1. Drops' = Drops /\ Drops \in Int
    BY DEF Drops, CallsTyped
  <2>2. /\ guesses[k] \in Nat /\ overlooked[k] \in Nat /\ overlooked'[k] = overlooked[k] /\ Cardinality(Clients) \in Nat /\ attempts[k].count \in Nat
        /\ Cardinality(Passed(k)) \in Nat /\ Cardinality(Failed(k)) \in Nat /\ Cardinality(Unsettled(k)) \in Nat
    BY <1>2, Counts, PassedAndUnsettled DEF GuessInv, LockoutTyped
  <2>3. Within(k) /\ guesses'[k] = guesses[k] + 1 /\ attempts'[k] = attempts[k] /\ (k \in locked' <=> k \in locked)
    BY <1>1, <1>2 DEF GuessInv, LockoutTyped
  <2> QED  BY <1>3, <1>4, <1>5, <2>1, <2>2, <2>3, LockoutAssumption DEF Within
<1>7. \A j \in Identities \ {k} : Within(j)'
  <2>1. \A j \in Identities \ {k} : guesses'[j] = guesses[j]
    BY <1>1 DEF GuessInv, LockoutTyped
  <2> QED  BY <1>1, <2>1, BesideK DEF GuessInv
<1>8. LockoutTyped'
  BY <1>1, <1>2 DEF GuessInv, LockoutTyped
<1> QED  BY <1>6, <1>7, <1>8 DEF GuessInv

\* A failure is counted: the call returns, or goes on to lock.
LEMMA CountStep ==
    ASSUME CallsTyped, GuessInv, NEW c \in Clients, Doing(c, "login", "incr"),
           NEW n, n = attempts[Arg(c).identity].count + 1,
           attempts' = [attempts EXCEPT ![Arg(c).identity].count = n], UNCHANGED <<guesses, locked, overlooked>>,
           UNCHANGED <<load, aborts>>, \A d \in Clients \ {c} : call'[d] = call[d],
           call'[c].at = "idle" \/ call'[c].todo = call[c].todo,
           call'[c].at \in {"idle", "expire_key", "expire_lock", "lock"},
           n >= MaxAttempts => call'[c].at \in {"expire_lock", "lock"}
    PROVE  GuessInv'
<1>1. PICK k : k = Arg(c).identity
  OBVIOUS
<1>2. k \in Identities /\ Arg(c).enabled \in BOOLEAN /\ call[c].at = "incr"
  BY <1>1, LoginCall
<1>3. /\ guesses[k] \in Nat /\ Cardinality(Clients) \in Nat /\ attempts[k] \in [count : Nat, ttl : BOOLEAN]
      /\ attempts[k].count \in Nat /\ n = attempts[k].count + 1
      /\ Cardinality(Passed(k)) \in Nat /\ Cardinality(Failed(k)) \in Nat /\ Cardinality(Unsettled(k)) \in Nat
  BY <1>1, <1>2, Counts, PassedAndUnsettled DEF GuessInv, LockoutTyped
<1>4. /\ attempts' \in [Identities -> [count : Nat, ttl : BOOLEAN]] /\ attempts'[k].count = n
      /\ \A j \in Identities \ {k} : attempts'[j] = attempts[j]
  BY <1>1, <1>2, <1>3 DEF GuessInv, LockoutTyped
<1>5. Failed(k)' = Failed(k) \/ Cardinality(Failed(k)') = Cardinality(Failed(k)) - 1
  <2>1. call[c].at \in {"incr"} /\ call'[c].at \notin {"incr"}
    BY <1>2
  <2> QED  BY <1>1, <1>2, <2>1, LoginMoved DEF Failed
<1>6. n >= MaxAttempts => Unsettled(k)' = Unsettled(k)
  BY <1>1, <1>2, LoginMoved DEF Unsettled
<1>7. Passed(k)' = Passed(k)
  <2>1. call[c].at \in {"handler"} <=> call'[c].at \in {"handler"}
    BY <1>2
  <2> QED  BY <1>1, <1>2, <2>1, LoginMoved DEF Passed
<1>8. Within(k)'
  <2>1. Drops' = Drops /\ Drops \in Nat
    BY DEF Drops, CallsTyped
  <2>2. Within(k) /\ guesses'[k] = guesses[k] /\ (k \in locked' <=> k \in locked)
    BY <1>2 DEF GuessInv
  <2>3. k \notin locked => guesses[k] <= n + Cardinality(Failed(k)') + Drops
    BY <1>3, <1>5, <2>1, <2>2 DEF Within
  <2>4. Cardinality(Failed(k)') <= Cardinality(Unsettled(k)')
    <3>1. Failed(k)' \in SUBSET Unsettled(k)'
      BY DEF Failed, Unsettled, On
    <3>2. IsFiniteSet(Unsettled(k)')
      BY OnFiniteNext DEF Unsettled
    <3> QED  BY <3>1, <3>2, FS_Subset
  <2>5. Cardinality(Failed(k)') \in Nat /\ Cardinality(Unsettled(k)') \in Nat /\ MaxAttempts \in Nat
    BY Counts, LockoutAssumption
  <2>6. CASE n >= MaxAttempts
    BY <1>3, <1>4, <1>6, <1>7, <2>1, <2>2, <2>3, <2>6 DEF Within
  <2>7. CASE ~(n >= MaxAttempts)
    <3>1. k \notin locked => guesses[k] <= MaxAttempts - 1 + Cardinality(Unsettled(k)') + Drops
      BY <1>3, <2>1, <2>3, <2>4, <2>5, <2>7
    <3> QED  BY <1>4, <1>7, <2>1, <2>2, <2>3, <3>1 DEF Within
  <2> QED  BY <2>6, <2>7
<1>9. \A j \in Identities \ {k} : Within(j)'
  BY <1>1, <1>4, BesideK DEF GuessInv
<1> QED  BY <1>4, <1>8, <1>9 DEF GuessInv, LockoutTyped

\* The lock is set.
LEMMA LockStep ==
    ASSUME CallsTyped, GuessInv, NEW c \in Clients, Doing(c, "login", "lock"),
           locked' = locked \cup {Arg(c).identity}, UNCHANGED <<guesses, attempts, overlooked>>,
           UNCHANGED <<load, aborts>>, \A d \in Clients \ {c} : call'[d] = call[d],
           call'[c].at = "idle"
    PROVE  GuessInv'
<1>1. PICK k : k = Arg(c).identity
  OBVIOUS
<1>2. k \in Identities /\ Arg(c).enabled \in BOOLEAN /\ call[c].at = "lock"
  BY <1>1, LoginCall
<1>3. Passed(k)' = Passed(k)
  <2>1. call[c].at \in {"handler"} <=> call'[c].at \in {"handler"}
    BY <1>2
  <2> QED  BY <1>1, <1>2, <2>1, LoginMoved DEF Passed
<1>4. Within(k)'
  <2>1. Drops' = Drops /\ Drops \in Int
    BY DEF Drops, CallsTyped
  <2>2. /\ guesses[k] \in Nat /\ overlooked[k] \in Nat /\ Cardinality(Clients) \in Nat
        /\ Cardinality(Passed(k)) \in Nat /\ Cardinality(Unsettled(k)) \in Nat
        /\ Cardinality(Passed(k)) + Cardinality(Unsettled(k)) <= Cardinality(Clients)
    BY <1>2, PassedAndUnsettled DEF GuessInv, LockoutTyped
  <2>3. Within(k) /\ guesses'[k] = guesses[k] /\ k \in locked'
    BY <1>1, <1>2 DEF GuessInv
  <2>4. guesses[k] + Cardinality(Passed(k)) <= MaxAttempts - 1 + Cardinality(Clients) + Drops + overlooked[k]
    BY <2>1, <2>2, <2>3, LockoutAssumption DEF Within
  <2> QED  BY <1>3, <2>1, <2>3, <2>4 DEF Within
<1>5. \A j \in Identities \ {k} : Within(j)'
  BY <1>1, BesideK DEF GuessInv
<1> QED  BY <1>1, <1>2, <1>4, <1>5 DEF GuessInv, LockoutTyped

\* Both keys are deleted.
LEMMA ClearStep ==
    ASSUME CallsTyped, GuessInv, NEW c \in Clients, NEW k \in Identities, k = Arg(c).identity, Clear(k),
           UNCHANGED <<load, aborts>>, \A d \in Clients \ {c} : call'[d] = call[d],
           call'[c].at = "idle"
    PROVE  GuessInv'
<1>1. /\ attempts' \in [Identities -> [count : Nat, ttl : BOOLEAN]] /\ attempts'[k].count \in Nat
      /\ guesses' \in [Identities -> Nat] /\ guesses'[k] = 0 /\ locked' \subseteq Identities /\ k \notin locked'
      /\ overlooked' = overlooked
  BY DEF Clear, NoAttempts, GuessInv, LockoutTyped
<1>2. \A j \in Identities \ {k} :
          attempts'[j] = attempts[j] /\ guesses'[j] = guesses[j] /\ (j \in locked' <=> j \in locked)
  BY DEF Clear, GuessInv, LockoutTyped
<1>3. Within(k)'
  BY <1>1, Cleared
<1>4. \A j \in Identities \ {k} : Within(j)'
  BY <1>1, <1>2, BesideK DEF GuessInv
<1> QED  BY <1>1, <1>3, <1>4 DEF GuessInv, LockoutTyped

\* The steps of a login and of an unlock.
LEMMA LockoutStepKeeps ==
    ASSUME CallsTyped, GuessInv, NEW c \in Clients, LockoutStep(c)
    PROVE  GuessInv'
<1>1. ASSUME NEW at, Proceed(c, at, Unread)
      PROVE  /\ \A d \in Clients \ {c} : call'[d] = call[d]
             /\ call'[c].todo = call[c].todo /\ call'[c].at = at /\ UNCHANGED <<load, aborts>>
  BY <1>1, Proceeds DEF Waits
<1>2. ASSUME NEW out, Return(c, out)
      PROVE  /\ \A d \in Clients \ {c} : call'[d] = call[d]
             /\ call'[c].at = "idle" /\ UNCHANGED <<load, aborts>>
  BY <1>2, Returns DEF Ended
<1>3. attempts \in [Identities -> [count : Nat, ttl : BOOLEAN]]
  BY DEF GuessInv, LockoutTyped
<1>4. CASE middleware(c)
  <2>1. Doing(c, "login", "idle") /\ UNCHANGED <<attempts, locked, guesses>>
    BY <1>4 DEF middleware
  <2>2. CASE check(c) /\ Proceed(c, "handler", Unread) /\ UNCHANGED overlooked
    <3>1. ~Arg(c).enabled \/ Arg(c).identity \notin locked
      BY <2>2 DEF check
    <3> QED  BY <1>1, <1>3, <2>1, <2>2, <3>1, CalmStep
  <2>3. CASE Return(c, "Locked") /\ UNCHANGED overlooked
    BY <1>2, <1>3, <2>1, <2>3, CalmStep
  <2>4. CASE check_fails_open(c) /\ Proceed(c, "handler", Unread)
    BY <1>1, <2>1, <2>4, MissStep DEF check_fails_open
  <2> QED  BY <1>4, <2>2, <2>3, <2>4 DEF middleware
<1>5. CASE handler(c)
  <2>1. PICK r : r = authenticate(Email(Arg(c).identity), Arg(c).password)
    OBVIOUS
  <2>2. /\ Doing(c, "login", "handler") /\ UNCHANGED <<attempts, locked, overlooked>>
        /\ IF r = "ok" THEN Proceed(c, "record_login", Unread)
           ELSE IF r = "InvalidCredentials" /\ Arg(c).enabled THEN Proceed(c, "incr", Unread)
           ELSE Return(c, r)
        /\ guesses' = IF r = "InvalidCredentials" /\ Arg(c).enabled
                      THEN [guesses EXCEPT ![Arg(c).identity] = @ + 1] ELSE guesses
    BY <1>5, <2>1 DEF handler
  <2>3. Arg(c).enabled \in BOOLEAN
    BY <2>2, LoginCall
  <2>4. CASE r = "InvalidCredentials" /\ Arg(c).enabled
    <3>1. Proceed(c, "incr", Unread) /\ guesses' = [guesses EXCEPT ![Arg(c).identity] = @ + 1]
      BY <2>2, <2>4
    <3> QED  BY <1>1, <2>2, <2>3, <2>4, <3>1, GuessStep
  <2>5. CASE ~(r = "InvalidCredentials" /\ Arg(c).enabled)
    <3>1. UNCHANGED guesses /\ (Proceed(c, "record_login", Unread) \/ Return(c, r))
      BY <2>2, <2>5
    <3> QED  BY <1>1, <1>2, <1>3, <2>2, <3>1, CalmStep
  <2> QED  BY <2>4, <2>5
<1>6. CASE record_failure(c)
  <2>1. CASE Doing(c, "login", "incr")
    <3>1. PICK n : n = attempts[Arg(c).identity].count + 1
      OBVIOUS
    <3>2. /\ attempts' = [attempts EXCEPT ![Arg(c).identity].count = n] /\ UNCHANGED <<locked, guesses, overlooked>>
          /\ IF n = 1 THEN Proceed(c, IF locks(n) THEN "expire_lock" ELSE "expire_key", Unread)
             ELSE IF locks(n) THEN Proceed(c, "lock", Unread)
             ELSE Return(c, "InvalidCredentials")
      BY <1>6, <2>1, <3>1 DEF record_failure, Doing
    <3>3. /\ UNCHANGED <<load, aborts>> /\ \A d \in Clients \ {c} : call'[d] = call[d]
          /\ call'[c].at = "idle" \/ call'[c].todo = call[c].todo
          /\ call'[c].at \in {"idle", "expire_key", "expire_lock", "lock"}
          /\ n >= MaxAttempts => call'[c].at \in {"expire_lock", "lock"}
      BY <1>1, <1>2, <3>2 DEF locks
    <3> QED  BY <2>1, <3>1, <3>2, <3>3, CountStep
  <2>2. CASE Doing(c, "login", "expire_key") \/ Doing(c, "login", "expire_lock")
    <3>1. PICK k : k = Arg(c).identity
      OBVIOUS
    <3>2. /\ attempts' = [attempts EXCEPT ![k].ttl = attempts[k].count > 0] /\ UNCHANGED <<locked, guesses, overlooked>>
          /\ \/ Doing(c, "login", "expire_key") /\ Return(c, "InvalidCredentials")
             \/ Doing(c, "login", "expire_lock") /\ Proceed(c, "lock", Unread)
      BY <1>6, <2>2, <3>1 DEF record_failure, Doing
    <3>3. k \in Identities
      BY <2>2, <3>1, LoginCall
    <3>4. (attempts[k].count > 0) \in BOOLEAN
      BY <1>3, <3>3
    <3>5. PICK b \in BOOLEAN : b = (attempts[k].count > 0)
      BY <3>4
    <3>6. attempts' = [attempts EXCEPT ![k].ttl = b]
      BY <3>2, <3>5
    <3>7. /\ attempts' \in [Identities -> [count : Nat, ttl : BOOLEAN]]
          /\ \A j \in Identities : attempts'[j].count = attempts[j].count
      BY <1>3, <3>3, <3>6
    <3> QED  BY <1>1, <1>2, <3>2, <3>7, CalmStep
  <2>3. CASE Doing(c, "login", "lock")
    <3>1. /\ locked' = locked \cup {Arg(c).identity} /\ Return(c, "InvalidCredentials")
          /\ UNCHANGED <<attempts, guesses, overlooked>>
      BY <1>6, <2>3 DEF record_failure, Doing
    <3> QED  BY <1>2, <2>3, <3>1, LockStep
  <2> QED  BY <1>6, <2>1, <2>2, <2>3 DEF record_failure
<1>7. CASE record_success(c)
  <2>1. CASE Doing(c, "login", "record_login")
    <3>1. UNCHANGED <<attempts, locked, guesses, overlooked>> /\ (Proceed(c, "exists", Unread) \/ Return(c, "ok"))
      BY <1>7, <2>1 DEF record_success, Doing, lockoutVars
    <3> QED  BY <1>1, <1>2, <1>3, <2>1, <3>1, CalmStep
  <2>2. CASE Doing(c, "login", "exists")
    <3>1. PICK at \in {"del", "del_locked"} : Proceed(c, at, Unread) /\ UNCHANGED <<attempts, locked, guesses, overlooked>>
      BY <1>7, <2>2 DEF record_success, Doing, lockoutVars
    <3> QED  BY <1>1, <1>3, <2>2, <3>1, CalmStep
  <2>3. CASE Doing(c, "login", "del") \/ Doing(c, "login", "del_locked")
    <3>1. PICK k : k = Arg(c).identity
      OBVIOUS
    <3>2. Clear(k) /\ Return(c, "ok")
      BY <1>7, <2>3, <3>1 DEF record_success, Doing
    <3>3. k \in Identities
      BY <2>3, <3>1, LoginCall
    <3> QED  BY <1>2, <3>1, <3>2, <3>3, ClearStep
  <2> QED  BY <1>7, <2>1, <2>2, <2>3 DEF record_success
<1>8. CASE unlock(c)
  <2>1. PICK k : k = Arg(c).identity
    OBVIOUS
  <2>2. Clear(k) /\ Return(c, "ok") /\ call[c].todo # << >> /\ Arg(c).op = "unlock"
    BY <1>8, <2>1 DEF unlock, Doing, Arg
  <2>3. k \in Identities
    BY <2>1, <2>2, CallTyped, CallCarries DEF LockoutOps
  <2> QED  BY <1>2, <2>1, <2>2, <2>3, ClearStep
<1> QED  BY <1>4, <1>5, <1>6, <1>7, <1>8 DEF LockoutStep

\* A key of k runs out.
LEMMA ExpiryKeeps ==
    ASSUME CallsTyped, GuessInv, NEW k \in Identities, KeyExpires(k)
    PROVE  GuessInv'
<1>1. UNCHANGED <<load, aborts>> /\ UNCHANGED call /\ UNCHANGED overlooked
  BY DEF KeyExpires, callVars
<1>2. \A j : Passed(j)' = Passed(j) /\ Failed(j)' = Failed(j) /\ Unsettled(j)' = Unsettled(j)
  BY <1>1 DEF Passed, Failed, Unsettled, On, Arg
<1>3. /\ attempts' \in [Identities -> [count : Nat, ttl : BOOLEAN]] /\ guesses' \in [Identities -> Nat]
      /\ locked' \subseteq Identities
      /\ \A j \in Identities \ {k} :
             attempts'[j] = attempts[j] /\ guesses'[j] = guesses[j] /\ (j \in locked' <=> j \in locked)
  <2>1. LockoutTyped
    BY DEF GuessInv
  <2>2. PICK n \in Nat : guesses' = [guesses EXCEPT ![k] = n]
    BY <2>1 DEF KeyExpires, LockoutTyped
  <2>3. guesses' \in [Identities -> Nat] /\ \A j \in Identities \ {k} : guesses'[j] = guesses[j]
    BY <2>1, <2>2 DEF LockoutTyped
  <2>4. NoAttempts \in [count : Nat, ttl : BOOLEAN]
    BY DEF NoAttempts
  <2>5. \/ attempts' = [attempts EXCEPT ![k] = NoAttempts] /\ locked' = locked
        \/ attempts' = attempts /\ locked' = locked \ {k}
    BY DEF KeyExpires
  <2>6. attempts' \in [Identities -> [count : Nat, ttl : BOOLEAN]] /\ \A j \in Identities \ {k} : attempts'[j] = attempts[j]
    BY <2>1, <2>4, <2>5 DEF LockoutTyped
  <2> QED  BY <2>1, <2>3, <2>5, <2>6 DEF LockoutTyped
<1>4. \A j \in Identities \ {k} : Within(j)'
  BY <1>1, <1>2, <1>3, WithinFrame DEF GuessInv
<1>5. Within(k)'
  <2>1. attempts'[k].count \in Nat
    BY <1>3
  <2>2. CASE k \in locked' 
    <3>1. guesses'[k] = guesses[k] /\ k \in locked
      BY <2>2 DEF KeyExpires, GuessInv, LockoutTyped
    <3>2. Drops' = Drops
      BY <1>1 DEF Drops
    <3> QED  BY <1>1, <1>2, <2>2, <3>1, <3>2 DEF GuessInv, Within
  <2>3. CASE k \notin locked'
    <3>1. guesses'[k] = 0
      BY <2>3 DEF KeyExpires, GuessInv, LockoutTyped
    <3> QED  BY <1>1, <2>1, <2>3, <3>1, Cleared
  <2> QED  BY <2>2, <2>3
<1> QED  BY <1>1, <1>3, <1>4, <1>5 DEF GuessInv, LockoutTyped

\* A call is dropped: what it might have counted is allowed for.
LEMMA DropKeeps ==
    ASSUME CallsTyped, GuessInv, NEW c \in Clients, Abandon(c), UNCHANGED lockoutVars
    PROVE  GuessInv'
<1>1. /\ \A d \in Clients \ {c} : call'[d] = call[d] /\ call'[c].at = "idle"
      /\ UNCHANGED load /\ aborts' = aborts - 1 /\ aborts > 0
  BY Abandons DEF Ended
<1>2. \A d \in Clients \ {c} : call'[d] = call[d]
  BY <1>1
<1>3. Drops' = Drops + 1 /\ Drops \in Nat
  BY <1>1 DEF Drops, CallsTyped
<1>4. ASSUME NEW k, NEW places, "idle" \notin places
      PROVE  \/ On(k, places)' = On(k, places)
             \/ Cardinality(On(k, places)') = Cardinality(On(k, places)) - 1
  <2>1. call'[c].at = "idle"
    BY Abandons DEF Ended
  <2>2. c \notin On(k, places)'
    BY <1>4, <2>1 DEF On
  <2> QED  BY <1>2, <2>2, OnMoved
<1>5. ASSUME NEW k \in Identities  PROVE Within(k)'
  <2>1. Passed(k)' = Passed(k) \/ Cardinality(Passed(k)') = Cardinality(Passed(k)) - 1
    BY <1>4 DEF Passed
  <2>2. Failed(k)' = Failed(k) \/ Cardinality(Failed(k)') = Cardinality(Failed(k)) - 1
    BY <1>4 DEF Failed
  <2>3. Unsettled(k)' = Unsettled(k) \/ Cardinality(Unsettled(k)') = Cardinality(Unsettled(k)) - 1
    BY <1>4 DEF Unsettled
  <2>4. /\ guesses[k] \in Nat /\ overlooked[k] \in Nat /\ Cardinality(Clients) \in Nat /\ attempts[k].count \in Nat
        /\ Cardinality(Passed(k)) \in Nat /\ Cardinality(Failed(k)) \in Nat /\ Cardinality(Unsettled(k)) \in Nat
    BY Counts, PassedAndUnsettled DEF GuessInv, LockoutTyped
  <2>5. Within(k) /\ guesses' = guesses /\ attempts' = attempts /\ locked' = locked /\ overlooked' = overlooked
    BY DEF GuessInv, lockoutVars
  <2> QED  BY <1>3, <2>1, <2>2, <2>3, <2>4, <2>5, LockoutAssumption DEF Within
<1> QED  BY <1>5 DEF GuessInv, LockoutTyped, lockoutVars

\* Steps of the other services leave the logins where they are.
LEMMA LockoutAside ==
    ASSUME GuessInv, UNCHANGED lockoutVars, UNCHANGED <<load, aborts>>,
           \A d \in Clients : call[d].at \in LockoutPlaces \/ call'[d].at \in LockoutPlaces => call'[d] = call[d]
    PROVE  GuessInv'
<1>1. ASSUME NEW k, NEW places, places \subseteq LockoutPlaces  PROVE On(k, places)' = On(k, places)
  BY <1>1 DEF On, Arg
<1>2. \A k : Passed(k)' = Passed(k) /\ Failed(k)' = Failed(k) /\ Unsettled(k)' = Unsettled(k)
  BY <1>1 DEF Passed, Failed, Unsettled, LockoutPlaces
<1>3. attempts' = attempts /\ locked' = locked /\ guesses' = guesses /\ overlooked' = overlooked
  BY DEF lockoutVars
<1>4. \A k \in Identities : Within(k)'
  BY <1>2, <1>3, WithinFrame DEF GuessInv
<1> QED  BY <1>3, <1>4 DEF GuessInv, LockoutTyped

LEMMA GuessInvInductive ==
    /\ Init => GuessInv
    /\ CallsTyped /\ GuessInv /\ [Next]_vars => GuessInv'
<1>1. ASSUME Init  PROVE GuessInv
  <2>1. LockoutInit /\ CallsTyped
    BY <1>1, CallsTypedInductive DEF Init
  <2>2. LockoutTyped
    BY <2>1 DEF LockoutInit, NoAttempts, LockoutTyped
  <2>3. ASSUME NEW k \in Identities  PROVE Within(k)
    <3>1. guesses[k] = 0 /\ k \notin locked /\ attempts[k].count = 0
      BY <2>1 DEF LockoutInit, NoAttempts
    <3>2. Cardinality(Failed(k)) \in Nat /\ Cardinality(Unsettled(k)) \in Nat /\ Drops \in Nat
      BY <2>1, Counts DEF CallsTyped, Drops
    <3> QED  BY <3>1, <3>2, LockoutAssumption DEF Within
  <2> QED  BY <2>2, <2>3 DEF GuessInv
<1>2. ASSUME CallsTyped, GuessInv, NEW c \in Clients, Request(c)  PROVE GuessInv'
  <2>0. call[c].at \in LockoutPlaces => InPlace(c, LockoutOps, LockoutPlaces)
    BY <1>2, WhereInCall
  <2>1. ASSUME NEW ops, NEW places, OfService(c, ops, places), UNCHANGED lockoutVars,
               \A d \in Clients : call[d].at \in LockoutPlaces \/ call'[d].at \in LockoutPlaces => call'[d] = call[d]
        PROVE  GuessInv'
    <3>1. UNCHANGED <<load, aborts>>
      BY <2>1 DEF OfService, Proceed, Return
    <3> QED  BY <1>2, <2>1, <3>1, LockoutAside
  <2>2. CASE AccountsStep(c) /\ NoLockout
    <3>0. Apart(AccountOps, AccountPlaces, LockoutOps, LockoutPlaces)
      BY ServicesApart DEF Apart
    <3>1. OfService(c, AccountOps, AccountPlaces)
      BY <2>2, AccountsOfService
    <3>2. \A d \in Clients : call[d].at \in LockoutPlaces \/ call'[d].at \in LockoutPlaces => call'[d] = call[d]
      BY <1>2, <2>0, <3>0, <3>1, OtherService
    <3> QED  BY <2>1, <2>2, <3>1, <3>2 DEF NoLockout
  <2>3. CASE TokensStep(c) /\ OnlyTokens
    <3>0. Apart(TokenOps, TokenPlaces, LockoutOps, LockoutPlaces)
      BY ServicesApart DEF Apart
    <3>1. OfService(c, TokenOps, TokenPlaces)
      BY <2>3, TokensOfService
    <3>2. \A d \in Clients : call[d].at \in LockoutPlaces \/ call'[d].at \in LockoutPlaces => call'[d] = call[d]
      BY <1>2, <2>0, <3>0, <3>1, OtherService
    <3> QED  BY <2>1, <2>3, <3>1, <3>2 DEF OnlyTokens
  <2>4. CASE KeysStep(c) /\ OnlyKeys
    <3>0. Apart(KeyOps, KeyPlaces, LockoutOps, LockoutPlaces)
      BY ServicesApart DEF Apart
    <3>1. OfService(c, KeyOps, KeyPlaces)
      BY <2>4, KeysOfService
    <3>2. \A d \in Clients : call[d].at \in LockoutPlaces \/ call'[d].at \in LockoutPlaces => call'[d] = call[d]
      BY <1>2, <2>0, <3>0, <3>1, OtherService
    <3> QED  BY <2>1, <2>4, <3>1, <3>2 DEF OnlyKeys
  <2>5. CASE SessionStep(c) /\ OnlySessions
    <3>0. Apart(SessionOps, SessionPlaces, LockoutOps, LockoutPlaces)
      BY ServicesApart DEF Apart
    <3>1. OfService(c, SessionOps, SessionPlaces)
      BY <2>5, SessionsOfService
    <3>2. \A d \in Clients : call[d].at \in LockoutPlaces \/ call'[d].at \in LockoutPlaces => call'[d] = call[d]
      BY <1>2, <2>0, <3>0, <3>1, OtherService
    <3> QED  BY <2>1, <2>5, <3>1, <3>2 DEF OnlySessions
  <2>6. CASE LockoutStep(c)
    BY <1>2, <2>6, LockoutStepKeeps
  <2> QED  BY <1>2, <2>2, <2>3, <2>4, <2>5, <2>6 DEF Request
<1>3. ASSUME CallsTyped, GuessInv, NEW c \in Clients, Dropped(c)  PROVE GuessInv'
  BY <1>3, DropKeeps DEF Dropped
<1>4. ASSUME GuessInv, UNCHANGED <<callVars, lockoutVars>>  PROVE GuessInv'
  BY <1>4, LockoutAside DEF callVars
<1>5. ASSUME CallsTyped, GuessInv, Clock  PROVE GuessInv'
  <2>1. CASE \E k \in Identities : KeyExpires(k)
    BY <1>5, <2>1, ExpiryKeeps
  <2>2. CASE UNCHANGED <<callVars, lockoutVars>>
    BY <1>4, <1>5, <2>2
  <2> QED  BY <1>5, <2>1, <2>2 DEF Clock, Elapse, TokenAges, KeyExpired, StateExpires, NoLockout, OnlyTokens, OnlyKeys
<1> QED  BY <1>1, <1>2, <1>3, <1>4, <1>5 DEF Next, vars

\* However many logins run at once and whichever calls are dropped, an identity
\* takes no more than max_attempts wrong passwords before it is locked, one
\* for each other login in flight or dropped, and one for each check that took
\* an error of TTL for an identity that is not locked.
THEOREM GuessesStayBounded == Spec => []GuessesBounded
<1>1. ASSUME CallsTyped, GuessInv  PROVE GuessesBounded
  <2> SUFFICES ASSUME NEW k \in Identities
               PROVE  guesses[k] < MaxAttempts + Cardinality(Clients) + (load.aborts - aborts) + overlooked[k]
    BY DEF GuessesBounded
  <2>1. /\ guesses[k] \in Nat /\ Cardinality(Clients) \in Nat /\ Drops \in Nat /\ overlooked[k] \in Nat
        /\ Cardinality(Passed(k)) \in Nat /\ Cardinality(Unsettled(k)) \in Nat
        /\ Cardinality(Passed(k)) + Cardinality(Unsettled(k)) <= Cardinality(Clients)
    BY <1>1, PassedAndUnsettled DEF GuessInv, LockoutTyped, CallsTyped, Drops
  <2>2. guesses[k] < MaxAttempts + Cardinality(Clients) + Drops + overlooked[k]
    BY <1>1, <2>1, LockoutAssumption DEF GuessInv, Within
  <2> QED  BY <2>2 DEF Drops
<1> QED  BY <1>1, CallsTypedInductive, GuessInvInductive, PTL DEF Spec

-----------------------------------------------------------------------------
(* Identifiers.                                                            *)

\* Steps at which a call has made its record.
MadePlaces == {"prefix", "sadd", "sadd_family", "sadd_user"}

\* A call that has not made this record yet is going to.
ToBeMade(r) ==
    \E c \in Clients : \E i \in 1 .. Len(call[c].todo) :
        r \in Made(call[c].todo[i]) /\ (i = 1 => call[c].at \notin MadePlaces)

DrawnOnce ==
    \A c, d \in Clients : \A i \in 1 .. Len(call[c].todo), j \in 1 .. Len(call[d].todo) :
        \A r \in Made(call[c].todo[i]) : r \in Made(call[d].todo[j]) => c = d /\ i = j

\* One step of the call of c, or its end.
Moves(c) ==
    /\ call[c].todo # << >>
    /\ \/ \E out : Ended(c, out)
       \/ \E at, what : Waits(c, at, what) /\ at # "idle" /\ (call[c].at \in MadePlaces => at \in MadePlaces)

LEMMA RequestMoves ==
    ASSUME CallsTyped, NEW c \in Clients, Request(c)
    PROVE  Moves(c)
<1>1. ASSUME NEW ops, NEW places, OfService(c, ops, places), "idle" \notin places,
             call[c].at \in MadePlaces =>
                 (\E at \in MadePlaces : \E what : Proceed(c, at, what)) \/ (\E out : Return(c, out))
      PROVE  Moves(c)
  <2>1. call[c].todo # << >>
    BY <1>1 DEF OfService
  <2>2. CASE \E out : Return(c, out)
    BY <2>1, <2>2, Returns DEF Moves
  <2>3. ASSUME NEW at, NEW what, Proceed(c, at, what), at # "idle", call[c].at \in MadePlaces => at \in MadePlaces
        PROVE  Moves(c)
    BY <2>1, <2>3, Proceeds DEF Moves
  <2>4. CASE call[c].at \in MadePlaces
    BY <1>1, <2>2, <2>3, <2>4 DEF MadePlaces
  <2>5. CASE call[c].at \notin MadePlaces
    BY <1>1, <2>2, <2>3, <2>5 DEF OfService
  <2> QED  BY <2>4, <2>5
<1>2. /\ call[c].at \in MadePlaces => call[c].at \in TokenPlaces \/ call[c].at \in KeyPlaces
      /\ MadePlaces \cap AccountPlaces = {} /\ MadePlaces \cap LockoutPlaces = {} /\ MadePlaces \cap SessionPlaces = {}
  BY DEF MadePlaces, TokenPlaces, KeyPlaces, AccountPlaces, LockoutPlaces, SessionPlaces
<1>3. call[c].at \in MadePlaces => call[c].todo # << >> /\ (Arg(c).op \in TokenOps \/ Arg(c).op \in KeyOps)
  BY <1>2, WhereInCall DEF InPlace
<1>4. CASE AccountsStep(c)
  <2>1. OfService(c, AccountOps, AccountPlaces)
    BY <1>4, AccountsOfService
  <2>2. call[c].at \notin MadePlaces
    BY <1>3, <2>1, ServicesApart DEF OfService
  <2> QED  BY <1>1, <2>1, <2>2, ServicesApart
<1>5. CASE LockoutStep(c)
  <2>1. OfService(c, LockoutOps, LockoutPlaces)
    BY <1>5, LockoutOfService
  <2>2. call[c].at \notin MadePlaces
    BY <1>3, <2>1, ServicesApart DEF OfService
  <2> QED  BY <1>1, <2>1, <2>2, ServicesApart
<1>6. CASE SessionStep(c)
  <2>1. OfService(c, SessionOps, SessionPlaces)
    BY <1>6, SessionsOfService
  <2>2. call[c].at \notin MadePlaces
    BY <1>3, <2>1, ServicesApart DEF OfService
  <2> QED  BY <1>1, <2>1, <2>2, ServicesApart
<1>7. CASE KeysStep(c)
  <2>1. OfService(c, KeyOps, KeyPlaces)
    BY <1>7, KeysOfService
  <2>2. ASSUME call[c].at \in MadePlaces
        PROVE  (\E at \in MadePlaces : \E what : Proceed(c, at, what)) \/ (\E out : Return(c, out))
    BY <1>7, <2>2 DEF KeysStep, create, get_by_prefix, get_by_key, update_last_used, revoke_key, delete,
         create_state, validate_state, Doing, MadePlaces
  <2> QED  BY <1>1, <2>1, <2>2, ServicesApart
<1>8. CASE TokensStep(c)
  <2>1. OfService(c, TokenOps, TokenPlaces)
    BY <1>8, TokensOfService
  <2>2. ASSUME call[c].at \in MadePlaces
        PROVE  (\E at \in MadePlaces : \E what : Proceed(c, at, what)) \/ (\E out : Return(c, out))
    <3>1. ASSUME NEW op, NEW at, NEW t, NEW done, store(c, op, at, t, done)
          PROVE  (\E p \in MadePlaces : \E what : Proceed(c, p, what)) \/ (\E out : Return(c, out))
      BY <3>1 DEF store, MadePlaces
    <3>2. ASSUME NEW op, NEW done  PROVE ~revoke_each(c, op, done)
      BY <2>2 DEF revoke_each, Doing, MadePlaces
    <3>3. ~rotate_in_transaction(c)
      BY <2>2 DEF rotate_in_transaction, Doing, MadePlaces
    <3>4. ASSUME NEW op, NEW at \in {"idle", "reuse", "rotate"}  PROVE ~Doing(c, op, at)
      BY <2>2 DEF Doing, MadePlaces
    <3> QED  BY <1>8, <3>1, <3>2, <3>3, <3>4 DEF TokensStep, issue, revoke, revoke_family, revoke_all_for_user,
               refresh, rotate_in_pieces, cleanup_expired
  <2> QED  BY <1>1, <2>1, <2>2, ServicesApart
<1> QED  BY <1>4, <1>5, <1>6, <1>7, <1>8 DEF Request

LEMMA DroppedMoves ==
    ASSUME CallsTyped, NEW c \in Clients, Abandon(c)
    PROVE  Moves(c)
BY Abandons, WhereInCall DEF Moves

\* As the calls proceed no record comes to be made that was not to be, and the
\* one a call has made is not to be made again.
LEMMA Drawn ==
    ASSUME CallsTyped, DrawnOnce, NEW c \in Clients, Moves(c)
    PROVE  /\ DrawnOnce' /\ \A r : ToBeMade(r)' => ToBeMade(r)
           /\ call'[c].at \in MadePlaces \cup {"idle"} => \A r \in Made(Arg(c)) : ~ToBeMade(r)'
<1>0. call[c].todo \in Seq(Operations) /\ call[c].todo # << >> /\ \A d \in Clients \ {c} : call'[d] = call[d]
  BY DEF CallsTyped, Moves, Ended, Waits
<1>1. PICK n \in {0, 1} :
        /\ Len(call'[c].todo) = Len(call[c].todo) - n
        /\ \A i \in 1 .. Len(call'[c].todo) : call'[c].todo[i] = call[c].todo[i + n]
        /\ n = 0 => (call[c].at \in MadePlaces => call'[c].at \in MadePlaces) /\ call'[c].at # "idle"
  <2>1. CASE \E out : Ended(c, out)
    <3>1. call'[c].todo = Tail(call[c].todo)
      BY <2>1 DEF Ended
    <3>2. /\ Len(call'[c].todo) = Len(call[c].todo) - 1
          /\ \A i \in 1 .. Len(call'[c].todo) : call'[c].todo[i] = call[c].todo[i + 1]
      BY <1>0, <3>1
    <3> QED  BY <3>2
  <2>2. CASE \E at, what : Waits(c, at, what) /\ at # "idle" /\ (call[c].at \in MadePlaces => at \in MadePlaces)
    <3>1. call'[c].todo = call[c].todo /\ (call[c].at \in MadePlaces => call'[c].at \in MadePlaces) /\ call'[c].at # "idle"
      BY <2>2 DEF Waits
    <3> QED  BY <1>0, <3>1
  <2> QED  BY <2>1, <2>2 DEF Moves
<1>2. Len(call[c].todo) \in Nat /\ Len(call[c].todo) > 0 /\ Len(call'[c].todo) \in Nat /\ Arg(c) = call[c].todo[1]
  BY <1>0, <1>1 DEF Arg
<1> DEFINE by(d) == IF d = c THEN n ELSE 0
<1>3. ASSUME NEW d \in Clients, NEW i \in 1 .. Len(call'[d].todo)
      PROVE  /\ by(d) \in {0, 1} /\ i + by(d) \in 1 .. Len(call[d].todo)
             /\ call'[d].todo[i] = call[d].todo[i + by(d)]
  <2>0. Len(call[d].todo) \in Nat
    BY DEF CallsTyped
  <2>1. CASE d = c
    <3>1. i + n \in 1 .. Len(call[c].todo)
      BY <1>1, <1>2, <1>3, <2>1
    <3> QED  BY <1>1, <1>3, <2>1, <3>1
  <2>2. CASE d # c
    <3>1. call'[d] = call[d] /\ by(d) = 0 /\ i + 0 = i
      BY <1>0, <2>2
    <3> QED  BY <1>3, <3>1
  <2> QED  BY <2>1, <2>2
<1> HIDE DEF by
<1>4. DrawnOnce'
  <2> SUFFICES ASSUME NEW a \in Clients, NEW b \in Clients,
                      NEW i \in 1 .. Len(call'[a].todo), NEW j \in 1 .. Len(call'[b].todo),
                      NEW r \in Made(call'[a].todo[i]), r \in Made(call'[b].todo[j])
               PROVE  a = b /\ i = j
    BY DEF DrawnOnce, Made
  <2>1. i + by(a) \in 1 .. Len(call[a].todo) /\ call'[a].todo[i] = call[a].todo[i + by(a)]
    BY <1>3
  <2>2. j + by(b) \in 1 .. Len(call[b].todo) /\ call'[b].todo[j] = call[b].todo[j + by(b)]
    BY <1>3
  <2>3. a = b /\ i + by(a) = j + by(b)
    <3>1. PICK x, y : x = i + by(a) /\ y = j + by(b)
      OBVIOUS
    <3>2. x \in 1 .. Len(call[a].todo) /\ y \in 1 .. Len(call[b].todo)
      BY <2>1, <2>2, <3>1
    <3>3. r \in Made(call[a].todo[x]) /\ r \in Made(call[b].todo[y])
      BY <2>1, <2>2, <3>1
    <3> QED  BY <3>1, <3>2, <3>3 DEF DrawnOnce
  <2> QED  BY <1>3, <2>3
<1>5. ASSUME NEW r, ToBeMade(r)'
      PROVE  ToBeMade(r) /\ (call'[c].at \in MadePlaces \cup {"idle"} => r \notin Made(Arg(c)))
  <2>1. PICK d \in Clients : \E i \in 1 .. Len(call'[d].todo) :
                                 r \in Made(call'[d].todo[i]) /\ (i = 1 => call'[d].at \notin MadePlaces)
    BY <1>5 DEF ToBeMade, Made
  <2>2. PICK i \in 1 .. Len(call'[d].todo) : r \in Made(call'[d].todo[i]) /\ (i = 1 => call'[d].at \notin MadePlaces)
    BY <2>1
  <2>3. PICK m \in {0, 1} : /\ m = by(d) /\ i + m \in 1 .. Len(call[d].todo)
                            /\ call'[d].todo[i] = call[d].todo[i + m]
    BY <1>3
  <2>4. i + m = 1 => i = 1 /\ m = 0 /\ call[d].at \notin MadePlaces
    BY <1>0, <1>1, <2>2, <2>3 DEF by
  <2>5. ToBeMade(r)
    BY <2>2, <2>3, <2>4 DEF ToBeMade
  <2>6. ASSUME call'[c].at \in MadePlaces \cup {"idle"}, r \in Made(Arg(c))  PROVE FALSE
    <3>1. 1 \in 1 .. Len(call[c].todo) /\ r \in Made(call[c].todo[1])
      BY <1>2, <2>6
    <3>2. d = c /\ i + m = 1
      BY <2>2, <2>3, <3>1 DEF DrawnOnce
    <3> QED  BY <1>1, <2>2, <2>3, <2>4, <2>6, <3>2 DEF by
  <2> QED  BY <2>5, <2>6
<1> QED  BY <1>4, <1>5

LEMMA DrawnOnceInductive ==
    /\ Init => DrawnOnce
    /\ CallsTyped /\ DrawnOnce /\ [Next]_vars => DrawnOnce'
<1>1. ASSUME Init  PROVE DrawnOnce
  <2>1. PICK w \in Workloads : CallInit(w)
    BY <1>1 DEF Init
  <2>2. \A c \in Clients : call[c].todo = w.calls[c]
    BY <2>1 DEF CallInit
  <2>3. ASSUME NEW c \in Clients, NEW d \in Clients, NEW i \in 1 .. Len(w.calls[c]), NEW j \in 1 .. Len(w.calls[d]),
               NEW r \in Made(w.calls[c][i]), r \in Made(w.calls[d][j])
        PROVE  c = d /\ i = j
    <3>1. Made(w.calls[c][i]) \cap Made(w.calls[d][j]) # {}
      BY <2>3
    <3> QED  BY <3>1, WorkloadsAssumption
  <2> SUFFICES ASSUME NEW c \in Clients, NEW d \in Clients,
                      NEW i \in 1 .. Len(call[c].todo), NEW j \in 1 .. Len(call[d].todo),
                      NEW r \in Made(call[c].todo[i]), r \in Made(call[d].todo[j])
               PROVE  c = d /\ i = j
    BY DEF DrawnOnce
  <2>4. call[c].todo = w.calls[c] /\ call[d].todo = w.calls[d]
    BY <2>2
  <2> QED  BY <2>3, <2>4
<1>2. ASSUME DrawnOnce, UNCHANGED call  PROVE DrawnOnce'
  BY <1>2 DEF DrawnOnce, Made
<1>3. ASSUME CallsTyped, DrawnOnce, [Next]_vars  PROVE DrawnOnce'
  <2>1. ASSUME NEW c \in Clients, Request(c) \/ Dropped(c)  PROVE DrawnOnce'
    BY <1>3, <2>1, RequestMoves, DroppedMoves, Drawn DEF Dropped
  <2>2. ASSUME Clock \/ UNCHANGED vars  PROVE UNCHANGED call
    BY <2>2 DEF Clock, Elapse, KeyExpires, TokenAges, KeyExpired, StateExpires, callVars, vars
  <2> QED  BY <1>2, <1>3, <2>1, <2>2 DEF Next
<1> QED  BY <1>1, <1>3

-----------------------------------------------------------------------------
(* API keys and OAuth states.                                              *)

Secret(k) == <<"secret", k>>

\* Nothing stored, spent or about to be written back is going to be made.
SecretsKnown ==
    /\ \A k \in DOMAIN keys \cup states \cup spent : ~ToBeMade(Secret(k))
    /\ \A c \in Clients : call[c].at \in {"touch", "mark"} => \A k : Arg(c).id = k => ~ToBeMade(Secret(k))

KeysTyped ==
    /\ DOMAIN keys \subseteq Keys /\ states \subseteq States
    /\ \A k \in DOMAIN keys : "revoked" \in DOMAIN keys[k]
    /\ \A c \in Clients : call[c].at \in {"touch", "mark"} => "revoked" \in DOMAIN Seen(c).row /\ Arg(c).id \in Keys

\* What is spent is revoked, in the table and in what will be written back.
SpentGone ==
    /\ \A k \in spent : k \notin states /\ (k \in DOMAIN keys => keys[k].revoked = TRUE)
    /\ \A c \in Clients : call[c].at = "touch" /\ Arg(c).id \in spent => Seen(c).row.revoked = TRUE

SpentInv == SecretsKnown /\ KeysTyped /\ SpentGone

\* What the step of c has to show of its own call and of the tables.
LEMMA SpentFrame ==
    ASSUME SpentInv, NEW c \in Clients, \A d \in Clients \ {c} : call'[d] = call[d],
           \A r : ToBeMade(r)' => ToBeMade(r),
           \A k \in DOMAIN keys' \cup states' \cup spent' : ~ToBeMade(Secret(k))',
           DOMAIN keys' \subseteq Keys, states' \subseteq States,
           \A k \in DOMAIN keys' : "revoked" \in DOMAIN keys'[k],
           \A k \in spent' : k \notin states' /\ (k \in DOMAIN keys' => keys'[k].revoked = TRUE),
           \A d \in Clients \ {c} : call[d].at = "touch" /\ Arg(d).id \in spent' => Arg(d).id \in spent,
           call'[c].at \in {"touch", "mark"} =>
               /\ \A k : Arg(c)'.id = k => ~ToBeMade(Secret(k))'
               /\ "revoked" \in DOMAIN call'[c].seen.row /\ Arg(c)'.id \in Keys
               /\ call'[c].at = "touch" /\ Arg(c)'.id \in spent' => call'[c].seen.row.revoked = TRUE
    PROVE  SpentInv'
<1>1. \A d \in Clients \ {c} : Arg(d)' = Arg(d) /\ Seen(d)' = Seen(d)
  BY DEF Arg, Seen
<1>2. SecretsKnown'
  <2>1. ASSUME NEW d \in Clients, call'[d].at \in {"touch", "mark"}, NEW k, Arg(d)'.id = k  PROVE ~ToBeMade(Secret(k))'
    <3>1. CASE d = c
      BY <2>1, <3>1
    <3>2. CASE d # c
      <4>1. call[d].at \in {"touch", "mark"} /\ Arg(d).id = k
        BY <1>1, <2>1, <3>2
      <4> QED  BY <4>1 DEF SpentInv, SecretsKnown
    <3> QED  BY <3>1, <3>2
  <2> QED  BY <2>1 DEF SecretsKnown
<1>3. KeysTyped'
  BY <1>1 DEF SpentInv, KeysTyped, Seen
<1>4. SpentGone'
  BY <1>1 DEF SpentInv, SpentGone, Seen
<1> QED  BY <1>2, <1>3, <1>4 DEF SpentInv

\* The call at hand is among those that make their record, until it has.
LEMMA AboutToMake ==
    ASSUME CallsTyped, NEW c \in Clients, call[c].todo # << >>, call[c].at \notin MadePlaces, NEW r \in Made(Arg(c))
    PROVE  ToBeMade(r)
<1>1. call[c].todo \in Seq(Operations)
  BY DEF CallsTyped
<1>2. 1 \in 1 .. Len(call[c].todo) /\ Arg(c) = call[c].todo[1]
  BY <1>1 DEF Arg
<1> QED  BY <1>2 DEF ToBeMade

\* A step after which the call of c holds no record.
LEMMA SpentStep ==
    ASSUME CallsTyped, DrawnOnce, SpentInv, NEW c \in Clients, Moves(c), call'[c].at \notin {"touch", "mark"},
           \A k \in (DOMAIN keys' \cup states' \cup spent') \ (DOMAIN keys \cup states \cup spent) : ~ToBeMade(Secret(k))',
           DOMAIN keys' \subseteq Keys, states' \subseteq States,
           \A k \in DOMAIN keys' : "revoked" \in DOMAIN keys'[k],
           \A k \in spent' : k \notin states' /\ (k \in DOMAIN keys' => keys'[k].revoked = TRUE),
           \A d \in Clients \ {c} : call[d].at = "touch" /\ Arg(d).id \in spent' => Arg(d).id \in spent
    PROVE  SpentInv'
<1>1. /\ \A d \in Clients \ {c} : call'[d] = call[d]
      /\ \A r : ToBeMade(r)' => ToBeMade(r)
  BY Drawn DEF Moves, Ended, Waits
<1>2. \A k \in DOMAIN keys' \cup states' \cup spent' : ~ToBeMade(Secret(k))'
  BY <1>1 DEF SpentInv, SecretsKnown
<1> QED  BY <1>1, <1>2, SpentFrame

\* Steps that leave the records alone.
LEMMA SpentCalm ==
    ASSUME CallsTyped, DrawnOnce, SpentInv, NEW c \in Clients, Moves(c), UNCHANGED <<keys, states, spent>>,
           call'[c].at \notin {"touch", "mark"}
    PROVE  SpentInv'
BY SpentStep DEF SpentInv, KeysTyped, SpentGone

\* A call reads a record to write it back.
LEMMA SpentRead ==
    ASSUME CallsTyped, DrawnOnce, SpentInv, NEW c \in Clients, Moves(c), UNCHANGED <<keys, states, spent>>,
           NEW k \in DOMAIN keys, k = Arg(c).id, NEW at \in {"touch", "mark"}, Waits(c, at, [row |-> keys[k]])
    PROVE  SpentInv'
<1>1. /\ \A d \in Clients \ {c} : call'[d] = call[d]
      /\ \A r : ToBeMade(r)' => ToBeMade(r)
  BY Drawn DEF Waits
<1>2. \A j \in DOMAIN keys' \cup states' \cup spent' : ~ToBeMade(Secret(j))'
  BY <1>1 DEF SpentInv, SecretsKnown
<1>3. call'[c].seen.row = keys[k] /\ Arg(c)'.id = k
  BY DEF Waits, Arg
<1>4. "revoked" \in DOMAIN keys[k] /\ (k \in spent => keys[k].revoked = TRUE) /\ k \in Keys
  BY DEF SpentInv, KeysTyped, SpentGone
<1>5. \A j : Arg(c)'.id = j => ~ToBeMade(Secret(j))'
  BY <1>2, <1>3
<1>6. /\ DOMAIN keys' \subseteq Keys /\ states' \subseteq States
      /\ \A j \in DOMAIN keys' : "revoked" \in DOMAIN keys'[j]
      /\ \A j \in spent' : j \notin states' /\ (j \in DOMAIN keys' => keys'[j].revoked = TRUE)
  BY DEF SpentInv, KeysTyped, SpentGone
<1> QED  BY <1>1, <1>2, <1>3, <1>4, <1>5, <1>6, SpentFrame

\* One record is written, and the call ends or goes on to its index.
LEMMA SpentWrite ==
    ASSUME CallsTyped, DrawnOnce, SpentInv, NEW c \in Clients, Moves(c), call'[c].at \notin {"touch", "mark"},
           NEW k \in Keys, NEW record, "revoked" \in DOMAIN record,
           keys' = [j \in DOMAIN keys \cup {k} |-> IF j = k THEN record ELSE keys[j]],
           states' = states, spent' \subseteq spent \cup {k}, k \in spent' => record.revoked = TRUE,
           ~ToBeMade(Secret(k))',
           k \in spent' => k \in spent \/ \A d \in Clients \ {c} : call[d].at = "touch" => Arg(d).id # k
    PROVE  SpentInv'
<1>1. DOMAIN keys' = DOMAIN keys \cup {k} /\ keys'[k] = record /\ \A j \in DOMAIN keys \ {k} : keys'[j] = keys[j]
  OBVIOUS
<1>2. DOMAIN keys' \subseteq Keys /\ states' \subseteq States /\ \A j \in DOMAIN keys' : "revoked" \in DOMAIN keys'[j]
  BY <1>1 DEF SpentInv, KeysTyped
<1>3. \A j \in spent' : j \notin states' /\ (j \in DOMAIN keys' => keys'[j].revoked = TRUE)
  BY <1>1, KeysAssumption DEF SpentInv, KeysTyped, SpentGone
<1>4. \A j \in (DOMAIN keys' \cup states' \cup spent') \ (DOMAIN keys \cup states \cup spent) : j = k
  BY <1>1
<1>5. \A j \in (DOMAIN keys' \cup states' \cup spent') \ (DOMAIN keys \cup states \cup spent) : ~ToBeMade(Secret(j))'
  BY <1>4
<1>6. \A d \in Clients \ {c} : call[d].at = "touch" /\ Arg(d).id \in spent' => Arg(d).id \in spent
  OBVIOUS
<1> QED  BY <1>2, <1>3, <1>5, <1>6, SpentStep

\* A step of the key storage or of OAuth.
LEMMA KeysStepKeeps ==
    ASSUME CallsTyped, DrawnOnce, SpentInv, NEW c \in Clients, KeysStep(c), Moves(c)
    PROVE  SpentInv'
<1>1. ASSUME NEW out, Return(c, out)  PROVE call'[c].at = "idle"
  BY <1>1, Returns DEF Ended
<1>2. ASSUME NEW at, NEW what, Proceed(c, at, what)  PROVE call'[c].at = at /\ Waits(c, at, what)
  BY <1>2, Proceeds DEF Waits
<1>3. ASSUME NEW op, NEW at, Doing(c, op, at)
      PROVE  call[c].todo # << >> /\ Arg(c).op = op /\ Arg(c) \in Operations /\ call[c].at = at
  BY <1>3, CallTyped DEF Doing, Arg
<1>4. PICK k : k = Arg(c).id
  OBVIOUS
<1>5. \A r : ToBeMade(r)' => ToBeMade(r)
  BY Drawn
<1>6. CASE create(c)
  <2>1. CASE Doing(c, "create", "idle")
    <3>1. PICK record : record = [revoked |-> FALSE, expired |-> FALSE]
      OBVIOUS
    <3>2. /\ keys' = [j \in DOMAIN keys \cup {k} |-> IF j = k THEN record ELSE keys[j]]
          /\ states' = states /\ spent' = spent /\ (Proceed(c, "prefix", Unread) \/ Return(c, "ok"))
      BY <1>4, <1>6, <2>1, <3>1 DEF create, Doing
    <3>3. k \in Keys /\ Secret(k) \in Made(Arg(c))
      BY <1>3, <1>4, <2>1, CallCarries DEF Made, Secret
    <3>4. call'[c].at \in {"prefix", "idle"}
      BY <1>1, <1>2, <3>2
    <3>5. ToBeMade(Secret(k)) /\ ~ToBeMade(Secret(k))'
      <4>1. call[c].todo # << >> /\ call[c].at \notin MadePlaces
        BY <1>3, <2>1 DEF MadePlaces
      <4>2. ToBeMade(Secret(k))
        BY <3>3, <4>1, AboutToMake
      <4>3. call'[c].at \in MadePlaces \cup {"idle"}
        BY <3>4 DEF MadePlaces
      <4> QED  BY <3>3, <4>2, <4>3, Drawn
    <3>6. k \notin spent
      BY <3>5 DEF SpentInv, SecretsKnown
    <3>7. "revoked" \in DOMAIN record
      BY <3>1
    <3> QED  BY <3>2, <3>3, <3>4, <3>5, <3>6, <3>7, SpentWrite
  <2>2. CASE ~Doing(c, "create", "idle")
    BY <1>1, <1>2, <1>6, <2>2, SpentCalm DEF create
  <2> QED  BY <2>1, <2>2
<1>7. CASE get_by_prefix(c) \/ get_by_key(c)
  BY <1>1, <1>2, <1>7, SpentCalm DEF get_by_prefix, get_by_key, NoKeys, keyVars
<1>8. CASE update_last_used(c)
  <2>1. CASE Doing(c, "present", "admitted")
    <3>1. UNCHANGED <<keys, states, spent>>
      BY <1>8, <2>1 DEF update_last_used, NoKeys, keyVars, Doing
    <3>2. CASE k \in DOMAIN keys /\ Proceed(c, "touch", [row |-> keys[k]])
      BY <1>2, <1>4, <3>1, <3>2, SpentRead
    <3>3. CASE Return(c, "ok")
      BY <1>1, <3>1, <3>3, SpentCalm
    <3> QED  BY <1>4, <1>8, <2>1, <3>2, <3>3 DEF update_last_used, Doing
  <2>2. CASE Doing(c, "present", "touch")
    <3>1. PICK record : record = Seen(c).row
      OBVIOUS
    <3>2. /\ keys' = [j \in DOMAIN keys \cup {k} |-> IF j = k THEN record ELSE keys[j]]
          /\ states' = states /\ spent' = spent /\ Return(c, "ok")
      BY <1>4, <1>8, <2>2, <3>1 DEF update_last_used, Doing
    <3>3. k \in Keys /\ call[c].at = "touch"
      BY <1>3, <1>4, <2>2, CallCarries
    <3>4. "revoked" \in DOMAIN record /\ (k \in spent => record.revoked = TRUE) /\ ~ToBeMade(Secret(k))
      BY <1>4, <3>1, <3>3 DEF SpentInv, SecretsKnown, KeysTyped, SpentGone
    <3>5. call'[c].at = "idle"
      BY <1>1, <3>2
    <3> QED  BY <1>5, <3>2, <3>3, <3>4, <3>5, SpentWrite
  <2> QED  BY <1>8, <2>1, <2>2 DEF update_last_used
<1>9. CASE revoke_key(c)
  <2>1. ASSUME NEW r, "revoked" \in DOMAIN r, call[c].at \in {"idle", "mark"}, Arg(c).op = "revoke_key",
               call[c].todo # << >>, ~ToBeMade(Secret(k)),
               keys' = [j \in DOMAIN keys \cup {k} |-> IF j = k THEN [r EXCEPT !.revoked = TRUE] ELSE keys[j]],
               spent' = Spent(c, k), Return(c, "ok"), states' = states
        PROVE  SpentInv'
    <3>1. PICK record : record = [r EXCEPT !.revoked = TRUE]
      OBVIOUS
    <3>2. "revoked" \in DOMAIN record /\ record.revoked = TRUE
      BY <2>1, <3>1
    <3>3. k \in Keys
      BY <1>4, <2>1, CallTyped, CallCarries
    <3>4. /\ spent' \subseteq spent \cup {k}
          /\ k \in spent' => k \in spent \/ Holding(c, {"touch"}, k) = {}
      BY <2>1 DEF Spent
    <3>5. k \in spent' => k \in spent \/ \A d \in Clients \ {c} : call[d].at = "touch" => Arg(d).id # k
      <4>1. ASSUME NEW d \in Clients \ {c}, call[d].at = "touch", Arg(d).id = k  PROVE d \in Holding(c, {"touch"}, k)
        BY <4>1, WhereInCall DEF Holding
      <4> QED  BY <3>4, <4>1
    <3>6. call'[c].at = "idle"
      BY <1>1, <2>1
    <3>7. keys' = [j \in DOMAIN keys \cup {k} |-> IF j = k THEN record ELSE keys[j]]
      BY <2>1, <3>1
    <3> QED  BY <1>5, <2>1, <3>2, <3>3, <3>4, <3>5, <3>6, <3>7, SpentWrite
  <2>2. CASE Doing(c, "revoke_key", "idle")
    <3>1. CASE UNCHANGED <<keys, states, spent>> /\ Return(c, "ok")
      BY <1>1, <3>1, SpentCalm
    <3>2. CASE UNCHANGED <<keys, states, spent>> /\ k \in DOMAIN keys /\ Proceed(c, "mark", [row |-> keys[k]])
      BY <1>2, <1>4, <3>2, SpentRead
    <3>3. CASE /\ k \in DOMAIN keys /\ spent' = Spent(c, k) /\ Return(c, "ok") /\ states' = states
               /\ keys' = [j \in DOMAIN keys \cup {k} |-> IF j = k THEN [keys[k] EXCEPT !.revoked = TRUE] ELSE keys[j]]
      <4>1. "revoked" \in DOMAIN keys[k] /\ ~ToBeMade(Secret(k))
        BY <3>3 DEF SpentInv, KeysTyped, SecretsKnown
      <4>2. call[c].at = "idle" /\ Arg(c).op = "revoke_key" /\ call[c].todo # << >>
        BY <1>3, <2>2
      <4> QED  BY <2>1, <3>3, <4>1, <4>2
    <3> QED  BY <1>4, <1>9, <2>2, <3>1, <3>2, <3>3 DEF revoke_key, NoKeys, keyVars, Doing
  <2>3. CASE Doing(c, "revoke_key", "mark")
    <3>1. PICK r : r = Seen(c).row
      OBVIOUS
    <3>2. /\ spent' = Spent(c, k) /\ Return(c, "ok") /\ states' = states
          /\ keys' = [j \in DOMAIN keys \cup {k} |-> IF j = k THEN [r EXCEPT !.revoked = TRUE] ELSE keys[j]]
      BY <1>4, <1>9, <2>3, <3>1 DEF revoke_key, Doing
    <3>3. call[c].at = "mark" /\ Arg(c).op = "revoke_key" /\ call[c].todo # << >>
      BY <1>3, <2>3
    <3>4. "revoked" \in DOMAIN r /\ ~ToBeMade(Secret(k))
      BY <1>4, <3>1, <3>3 DEF SpentInv, KeysTyped, SecretsKnown
    <3> QED  BY <2>1, <3>2, <3>3, <3>4
  <2> QED  BY <1>9, <2>2, <2>3 DEF revoke_key
<1>10. CASE delete(c)
  <2>1. states' = states /\ spent' = spent /\ (keys' = keys \/ keys' = [j \in DOMAIN keys \ {k} |-> keys[j]])
    BY <1>4, <1>10 DEF delete
  <2>2. call'[c].at \notin {"touch", "mark"}
    BY <1>1, <1>2, <1>10 DEF delete
  <2>3. DOMAIN keys' \subseteq DOMAIN keys /\ \A j \in DOMAIN keys' : keys'[j] = keys[j]
    BY <2>1
  <2>4. /\ DOMAIN keys' \subseteq Keys /\ states' \subseteq States
        /\ \A j \in DOMAIN keys' : "revoked" \in DOMAIN keys'[j]
        /\ \A j \in spent' : j \notin states' /\ (j \in DOMAIN keys' => keys'[j].revoked = TRUE)
    BY <2>1, <2>3 DEF SpentInv, KeysTyped, SpentGone
  <2>5. (DOMAIN keys' \cup states' \cup spent') \ (DOMAIN keys \cup states \cup spent) = {}
    BY <2>1, <2>3
  <2> QED  BY <2>1, <2>2, <2>4, <2>5, SpentStep
<1>11. CASE create_state(c)
  <2>1. Doing(c, "authorize", "idle") /\ states' = states \cup {k} /\ Return(c, "ok") /\ keys' = keys /\ spent' = spent
    BY <1>4, <1>11 DEF create_state
  <2>2. k \in States /\ Secret(k) \in Made(Arg(c)) /\ call'[c].at = "idle"
    BY <1>1, <1>3, <1>4, <2>1, CallCarries DEF Made, Secret
  <2>3. ToBeMade(Secret(k)) /\ ~ToBeMade(Secret(k))'
    <3>1. call[c].todo # << >> /\ call[c].at \notin MadePlaces
      BY <1>3, <2>1 DEF MadePlaces
    <3>2. ToBeMade(Secret(k))
      BY <2>2, <3>1, AboutToMake
    <3> QED  BY <2>2, <3>2, Drawn
  <2>4. k \notin spent
    BY <2>3 DEF SpentInv, SecretsKnown
  <2>5. /\ DOMAIN keys' \subseteq Keys /\ states' \subseteq States
        /\ \A j \in DOMAIN keys' : "revoked" \in DOMAIN keys'[j]
        /\ \A j \in spent' : j \notin states' /\ (j \in DOMAIN keys' => keys'[j].revoked = TRUE)
    BY <2>1, <2>2, <2>4 DEF SpentInv, KeysTyped, SpentGone
  <2>6. \A j \in (DOMAIN keys' \cup states' \cup spent') \ (DOMAIN keys \cup states \cup spent) : j = k
    BY <2>1
  <2> QED  BY <2>1, <2>2, <2>3, <2>5, <2>6, SpentStep
<1>12. CASE validate_state(c)
  <2>1. CASE UNCHANGED <<keys, states, spent>> /\ call'[c].at \notin {"touch", "mark"}
    BY <2>1, SpentCalm
  <2>2. CASE /\ Doing(c, "callback", "idle") /\ k \in states /\ states' = states \ {k} /\ spent' = spent \cup {k}
             /\ keys' = keys /\ Proceed(c, "redeemed", Unread)
    <3>1. k \in States /\ call'[c].at = "redeemed"
      BY <1>2, <2>2 DEF SpentInv, KeysTyped
    <3>2. /\ DOMAIN keys' \subseteq Keys /\ states' \subseteq States
          /\ \A j \in DOMAIN keys' : "revoked" \in DOMAIN keys'[j]
          /\ \A j \in spent' : j \notin states' /\ (j \in DOMAIN keys' => keys'[j].revoked = TRUE)
      BY <2>2, <3>1, KeysAssumption DEF SpentInv, KeysTyped, SpentGone
    <3>3. (DOMAIN keys' \cup states' \cup spent') \ (DOMAIN keys \cup states \cup spent) = {}
      BY <2>2
    <3>4. \A d \in Clients \ {c} : call[d].at = "touch" => Arg(d).id # k
      BY <3>1, KeysAssumption DEF SpentInv, KeysTyped
    <3> QED  BY <2>2, <3>1, <3>2, <3>3, <3>4, SpentStep
  <2>3. CASE Return(c, "BadRequest") /\ NoKeys
    BY <1>1, <2>1, <2>3 DEF NoKeys, keyVars
  <2>4. CASE Doing(c, "callback", "redeemed")
    <3>1. NoKeys /\ \E r \in {"ok", "exchange failed"} : Return(c, r)
      BY <1>12, <2>4 DEF validate_state, Doing
    <3> QED  BY <1>1, <2>1, <3>1 DEF NoKeys, keyVars
  <2> QED  BY <1>4, <1>12, <2>2, <2>3, <2>4 DEF validate_state
<1> QED  BY <1>6, <1>7, <1>8, <1>9, <1>10, <1>11, <1>12 DEF KeysStep

\* Steps of the other services leave the records and what is held of them.
LEMMA SpentAside ==
    ASSUME SpentInv, UNCHANGED keyVars, \A r : ToBeMade(r)' => ToBeMade(r),
           \A d \in Clients : call'[d].at \in KeyPlaces => call'[d] = call[d]
    PROVE  SpentInv'
<1>1. keys' = keys /\ states' = states /\ spent' = spent
  BY DEF keyVars
<1>2. ASSUME NEW d \in Clients, call'[d].at \in {"touch", "mark"}
      PROVE  call[d].at = call'[d].at /\ Arg(d)' = Arg(d) /\ Seen(d)' = Seen(d)
  BY <1>2 DEF KeyPlaces, Arg, Seen
<1>3. SecretsKnown'
  BY <1>1, <1>2 DEF SpentInv, SecretsKnown
<1>4. KeysTyped' /\ SpentGone'
  BY <1>1, <1>2 DEF SpentInv, KeysTyped, SpentGone
<1> QED  BY <1>3, <1>4 DEF SpentInv

LEMMA SpentInvInductive ==
    /\ Init => SpentInv
    /\ CallsTyped /\ DrawnOnce /\ SpentInv /\ [Next]_vars => SpentInv'
<1>1. ASSUME Init  PROVE SpentInv
  <2>1. PICK w \in Workloads : CallInit(w) /\ KeysInit(w.keys)
    BY <1>1 DEF Init
  <2>2. w.keys \subseteq Keys
    BY WorkloadsAssumption
  <2>3. /\ DOMAIN keys = w.keys /\ states = {} /\ spent = {} /\ \A k \in w.keys : "revoked" \in DOMAIN keys[k]
        /\ \A c \in Clients : call[c].at = "idle" /\ call[c].todo = w.calls[c]
    BY <2>1 DEF CallInit, KeysInit
  <2>4. ASSUME NEW k \in w.keys, ToBeMade(Secret(k))  PROVE FALSE
    <3>0. PICK c \in Clients : \E i \in 1 .. Len(w.calls[c]) : Secret(k) \in Made(w.calls[c][i])
      BY <2>3, <2>4 DEF ToBeMade
    <3>1. PICK i \in 1 .. Len(w.calls[c]) : Secret(k) \in Made(w.calls[c][i])
      BY <3>0
    <3>2. PICK r : r = Secret(k) /\ r \in Made(w.calls[c][i])
      BY <3>1
    <3>3. r[1] = "secret" /\ r[2] = k
      BY <3>2 DEF Secret
    <3> QED  BY <3>2, <3>3, WorkloadsAssumption
  <2> QED  BY <2>2, <2>3, <2>4 DEF SpentInv, SecretsKnown, KeysTyped, SpentGone
<1>2. ASSUME CallsTyped, DrawnOnce, SpentInv, NEW c \in Clients, Request(c)  PROVE SpentInv'
  <2>0. call[c].at \in KeyPlaces => InPlace(c, KeyOps, KeyPlaces)
    BY <1>2, WhereInCall
  <2>1. Moves(c) /\ \A r : ToBeMade(r)' => ToBeMade(r)
    BY <1>2, RequestMoves, Drawn
  <2>2. CASE AccountsStep(c) /\ OnlyAccounts
    <3>0. Apart(AccountOps, AccountPlaces, KeyOps, KeyPlaces)
      BY ServicesApart DEF Apart
    <3>1. OfService(c, AccountOps, AccountPlaces)
      BY <2>2, AccountsOfService
    <3>2. \A d \in Clients : call[d].at \in KeyPlaces \/ call'[d].at \in KeyPlaces => call'[d] = call[d]
      BY <1>2, <2>0, <3>0, <3>1, OtherService
    <3> QED  BY <1>2, <2>1, <2>2, <3>2, SpentAside DEF OnlyAccounts
  <2>3. CASE LockoutStep(c) /\ OnlyAccounts
    <3>0. Apart(LockoutOps, LockoutPlaces, KeyOps, KeyPlaces)
      BY ServicesApart DEF Apart
    <3>1. OfService(c, LockoutOps, LockoutPlaces)
      BY <2>3, LockoutOfService
    <3>2. \A d \in Clients : call[d].at \in KeyPlaces \/ call'[d].at \in KeyPlaces => call'[d] = call[d]
      BY <1>2, <2>0, <3>0, <3>1, OtherService
    <3> QED  BY <1>2, <2>1, <2>3, <3>2, SpentAside DEF OnlyAccounts
  <2>4. CASE TokensStep(c) /\ OnlyTokens
    <3>0. Apart(TokenOps, TokenPlaces, KeyOps, KeyPlaces)
      BY ServicesApart DEF Apart
    <3>1. OfService(c, TokenOps, TokenPlaces)
      BY <2>4, TokensOfService
    <3>2. \A d \in Clients : call[d].at \in KeyPlaces \/ call'[d].at \in KeyPlaces => call'[d] = call[d]
      BY <1>2, <2>0, <3>0, <3>1, OtherService
    <3> QED  BY <1>2, <2>1, <2>4, <3>2, SpentAside DEF OnlyTokens
  <2>5. CASE SessionStep(c) /\ OnlySessions
    <3>0. Apart(SessionOps, SessionPlaces, KeyOps, KeyPlaces)
      BY ServicesApart DEF Apart
    <3>1. OfService(c, SessionOps, SessionPlaces)
      BY <2>5, SessionsOfService
    <3>2. \A d \in Clients : call[d].at \in KeyPlaces \/ call'[d].at \in KeyPlaces => call'[d] = call[d]
      BY <1>2, <2>0, <3>0, <3>1, OtherService
    <3> QED  BY <1>2, <2>1, <2>5, <3>2, SpentAside DEF OnlySessions
  <2>6. CASE KeysStep(c)
    BY <1>2, <2>1, <2>6, KeysStepKeeps
  <2> QED  BY <1>2, <2>2, <2>3, <2>4, <2>5, <2>6 DEF Request
<1>3. ASSUME CallsTyped, DrawnOnce, SpentInv, NEW c \in Clients, Dropped(c)  PROVE SpentInv'
  <2>1. Moves(c) /\ Ended(c, "aborted") /\ UNCHANGED <<keys, states, spent>>
    BY <1>3, DroppedMoves, Abandons DEF Dropped, keyVars
  <2> QED  BY <1>3, <2>1, SpentCalm DEF Ended
<1>4. ASSUME UNCHANGED call  PROVE \A r : ToBeMade(r)' => ToBeMade(r)
  BY <1>4 DEF ToBeMade, Made
<1>5. ASSUME SpentInv, UNCHANGED call, UNCHANGED keyVars  PROVE SpentInv'
  BY <1>4, <1>5, SpentAside
<1>6. ASSUME SpentInv, NEW k \in Keys, KeyExpired(k)  PROVE SpentInv'
  <2>1. UNCHANGED <<call, states, spent>> /\ k \in DOMAIN keys /\ keys' = [keys EXCEPT ![k].expired = TRUE]
    BY <1>6 DEF KeyExpired, callVars
  <2>2. DOMAIN keys' = DOMAIN keys
    BY <2>1
  <2>3. \A j \in DOMAIN keys : "revoked" \in DOMAIN keys'[j] /\ (keys[j].revoked = TRUE => keys'[j].revoked = TRUE)
    BY <1>6, <2>1 DEF SpentInv, KeysTyped
  <2>4. SecretsKnown'
    BY <1>4, <1>6, <2>1, <2>2 DEF SpentInv, SecretsKnown, Arg
  <2>5. KeysTyped' /\ SpentGone'
    BY <1>6, <2>1, <2>2, <2>3 DEF SpentInv, KeysTyped, SpentGone, Seen, Arg
  <2> QED  BY <2>4, <2>5 DEF SpentInv
<1>7. ASSUME SpentInv, NEW s \in States, StateExpires(s)  PROVE SpentInv'
  <2>1. UNCHANGED <<call, keys, spent>> /\ states' \subseteq states
    BY <1>7 DEF StateExpires, callVars
  <2>2. SecretsKnown'
    BY <1>4, <1>7, <2>1 DEF SpentInv, SecretsKnown, Arg
  <2>3. KeysTyped' /\ SpentGone'
    BY <1>7, <2>1 DEF SpentInv, KeysTyped, SpentGone, Seen, Arg
  <2> QED  BY <2>2, <2>3 DEF SpentInv
<1>8. ASSUME SpentInv, Clock  PROVE SpentInv'
  <2>1. CASE UNCHANGED call /\ UNCHANGED keyVars
    BY <1>5, <1>8, <2>1
  <2> QED  BY <1>6, <1>7, <1>8, <2>1 DEF Clock, Elapse, KeyExpires, TokenAges, OnlyAccounts, OnlyTokens, callVars
<1>9. ASSUME SpentInv, UNCHANGED vars  PROVE SpentInv'
  BY <1>5, <1>9 DEF vars, callVars
<1> QED  BY <1>1, <1>2, <1>3, <1>8, <1>9 DEF Next

\* No interleaving of calls, dropped or not, lets a spent key or a redeemed
\* state through again.
THEOREM SpentStaysRefused == Spec => SpentIsRefused
<1> DEFINE Refuses == \A c \in Clients : call[c].at # call'[c].at /\ call'[c].at \in {"admitted", "redeemed"} => Arg(c).id \notin spent
<1>1. ASSUME CallsTyped, SpentInv, [Next]_vars  PROVE [Refuses]_<<keyVars, callVars>>
  <2> SUFFICES ASSUME NEW c \in Clients, call[c].at # call'[c].at, call'[c].at \in {"admitted", "redeemed"}
               PROVE  Arg(c).id \notin spent
    OBVIOUS
  <2>1. ~(Clock \/ UNCHANGED vars)
    BY DEF Clock, Elapse, KeyExpires, TokenAges, KeyExpired, StateExpires, callVars, vars
  <2>2. PICK d \in Clients : Request(d) \/ Dropped(d)
    BY <1>1, <2>1 DEF Next
  <2>3. ~Dropped(d)
    BY <1>1, Abandons DEF Dropped, Ended
  <2>4. ASSUME NEW ops, NEW places, OfService(d, ops, places), places \cap {"admitted", "redeemed"} = {}  PROVE FALSE
    <3>1. ASSUME NEW at \in places, NEW what, Proceed(d, at, what)  PROVE FALSE
      BY <1>1, <2>4, <3>1, Proceeds DEF Waits
    <3>2. ASSUME NEW out, Return(d, out)  PROVE FALSE
      BY <1>1, <3>2, Returns DEF Ended
    <3> QED  BY <2>4, <3>1, <3>2 DEF OfService
  <2>5. KeysStep(d)
    <3>1. ~AccountsStep(d)
      BY <2>4, AccountsOfService DEF AccountPlaces
    <3>2. ~LockoutStep(d)
      BY <2>4, LockoutOfService DEF LockoutPlaces
    <3>3. ~TokensStep(d)
      BY <2>4, TokensOfService DEF TokenPlaces
    <3>4. ~SessionStep(d)
      BY <2>4, SessionsOfService DEF SessionPlaces
    <3> QED  BY <2>2, <2>3, <3>1, <3>2, <3>3, <3>4 DEF Request
  <2>6. ASSUME NEW out, Return(d, out)  PROVE FALSE
    BY <1>1, <2>6, Returns DEF Ended
  <2>7. ASSUME NEW at, NEW what, Proceed(d, at, what)  PROVE c = d /\ at \in {"admitted", "redeemed"}
    BY <1>1, <2>7, Proceeds DEF Waits
  <2>8. CASE get_by_key(d)
    <3>1. c = d /\ Arg(d).id \in DOMAIN keys /\ ~keys[Arg(d).id].revoked
      BY <2>6, <2>7, <2>8 DEF get_by_key, is_valid
    <3> QED  BY <1>1, <3>1 DEF SpentInv, SpentGone
  <2>9. CASE validate_state(d)
    <3>1. c = d /\ Arg(d).id \in states
      BY <2>6, <2>7, <2>9 DEF validate_state
    <3> QED  BY <1>1, <3>1 DEF SpentInv, SpentGone
  <2>10. ~(get_by_key(d) \/ validate_state(d)) => FALSE
    BY <2>5, <2>6, <2>7 DEF KeysStep, create, get_by_prefix, update_last_used, revoke_key, delete, create_state
  <2> QED  BY <2>8, <2>9, <2>10
<1>2. Spec => [](CallsTyped /\ DrawnOnce /\ SpentInv)
  BY CallsTypedInductive, DrawnOnceInductive, SpentInvInductive, PTL DEF Spec
<1>3. Spec => [][Refuses]_<<keyVars, callVars>>
  BY <1>1, <1>2, PTL DEF Spec
<1> QED  BY <1>3 DEF SpentIsRefused

-----------------------------------------------------------------------------
(* Accounts.                                                               *)

AccountRow(i) == <<"account", i>>

Sanctions == {"Locked", "Disabled", "Suspended"}

\* Steps at which a call is about to write back a whole row.
RowHeld == {"email", "save"}

\* A row of account i, stored or about to be, has the status it was given.
AsGiven(i, row) ==
    /\ "status" \in DOMAIN row
    /\ i \notin overlapped /\ intent[i] \in Sanctions => row.status \in {intent[i], "Expired"}

\* No account that has been stored or administered is going to be created.
AccountsKnown ==
    /\ \A i \in DOMAIN rows : ~ToBeMade(AccountRow(i))
    /\ \A i \in Ids : intent[i] # "none" => ~ToBeMade(AccountRow(i))
    /\ \A c \in Clients : call[c].at = "status" => \A i : Arg(c).id = i => ~ToBeMade(AccountRow(i))

RowsAsGiven ==
    /\ DOMAIN rows \subseteq Ids /\ DOMAIN intent = Ids
    /\ \A i \in DOMAIN rows : AsGiven(i, rows[i])
    /\ \A c \in Clients : call[c].at \in RowHeld => \A i : Arg(c).id = i => AsGiven(i, Seen(c).row)

StatusInv == AccountsKnown /\ RowsAsGiven

\* What a step of c has to show that drives no account's status.
LEMMA StatusFrame ==
    ASSUME StatusInv, NEW c \in Clients, \A d \in Clients \ {c} : call'[d] = call[d],
           \A r : ToBeMade(r)' => ToBeMade(r), UNCHANGED <<intent, overlapped>>,
           DOMAIN rows' \subseteq Ids, \A i \in DOMAIN rows' \ DOMAIN rows : ~ToBeMade(AccountRow(i))',
           \A i \in DOMAIN rows' : AsGiven(i, rows'[i]),
           call'[c].at = "status" => \A i : Arg(c)'.id = i => ~ToBeMade(AccountRow(i))',
           call'[c].at \in RowHeld => \A i : Arg(c)'.id = i => AsGiven(i, call'[c].seen.row)
    PROVE  StatusInv'
<1>1. \A d \in Clients \ {c} : Arg(d)' = Arg(d) /\ Seen(d)' = Seen(d)
  BY DEF Arg, Seen
<1>2. AccountsKnown'
  <2>1. \A i \in DOMAIN rows' : ~ToBeMade(AccountRow(i))'
    BY DEF StatusInv, AccountsKnown
  <2>2. \A i \in Ids : intent'[i] # "none" => ~ToBeMade(AccountRow(i))'
    BY DEF StatusInv, AccountsKnown
  <2>3. ASSUME NEW d \in Clients, call'[d].at = "status", NEW i, Arg(d)'.id = i  PROVE ~ToBeMade(AccountRow(i))'
    <3>1. CASE d = c
      BY <2>3, <3>1
    <3>2. CASE d # c
      BY <1>1, <2>3, <3>2 DEF StatusInv, AccountsKnown
    <3> QED  BY <3>1, <3>2
  <2> QED  BY <2>1, <2>2, <2>3 DEF AccountsKnown
<1>3. RowsAsGiven'
  <2>1. ASSUME NEW i, NEW row, AsGiven(i, row)
        PROVE  /\ "status" \in DOMAIN row
               /\ i \notin overlapped' /\ intent'[i] \in Sanctions => row.status \in {intent'[i], "Expired"}
    BY <2>1 DEF AsGiven
  <2>2. ASSUME NEW d \in Clients, call'[d].at \in RowHeld, NEW i, Arg(d)'.id = i  PROVE AsGiven(i, call'[d].seen.row)
    <3>1. CASE d = c
      BY <2>2, <3>1
    <3>2. CASE d # c
      BY <1>1, <2>2, <3>2 DEF StatusInv, RowsAsGiven, Seen
    <3> QED  BY <3>1, <3>2
  <2> QED  BY <2>1, <2>2 DEF StatusInv, RowsAsGiven, AsGiven, Seen
<1> QED  BY <1>2, <1>3 DEF StatusInv

\* The rows keep their status, expire or go.
RowsKeep ==
    /\ DOMAIN rows' \subseteq DOMAIN rows
    /\ \A i \in DOMAIN rows' : "status" \in DOMAIN rows'[i] /\ rows'[i].status \in {rows[i].status, "Expired"}

LEMMA KeepGiven ==
    ASSUME StatusInv, RowsKeep
    PROVE  /\ DOMAIN rows' \subseteq Ids /\ DOMAIN rows' \ DOMAIN rows = {}
           /\ \A i \in DOMAIN rows' : AsGiven(i, rows'[i])
<1>1. DOMAIN rows' \subseteq Ids /\ DOMAIN rows' \ DOMAIN rows = {}
  BY DEF StatusInv, RowsAsGiven, RowsKeep
<1>2. ASSUME NEW i \in DOMAIN rows'  PROVE AsGiven(i, rows'[i])
  BY DEF StatusInv, RowsAsGiven, RowsKeep, AsGiven
<1> QED  BY <1>1, <1>2

LEMMA UnchangedKeeps ==
    ASSUME StatusInv, rows' = rows
    PROVE  RowsKeep
BY DEF StatusInv, RowsAsGiven, AsGiven, RowsKeep

\* A step after which the call of c has done with the rows.
LEMMA StatusStep ==
    ASSUME CallsTyped, DrawnOnce, StatusInv, NEW c \in Clients, Moves(c), RowsKeep, UNCHANGED <<intent, overlapped>>,
           call'[c].at \notin RowHeld \cup {"status"}
    PROVE  StatusInv'
<1>1. /\ \A d \in Clients \ {c} : call'[d] = call[d]
      /\ \A r : ToBeMade(r)' => ToBeMade(r)
  BY Drawn DEF Moves, Ended, Waits
<1> QED  BY <1>1, KeepGiven, StatusFrame

\* A call reads a row, to write it back or to write its status.
LEMMA StatusRead ==
    ASSUME CallsTyped, DrawnOnce, StatusInv, NEW c \in Clients, Moves(c), rows' = rows, UNCHANGED <<intent, overlapped>>,
           NEW at, NEW what, Waits(c, at, what),
           at = "status" => Arg(c).id \in DOMAIN rows,
           at \in RowHeld => \A i : Arg(c).id = i => AsGiven(i, what.row)
    PROVE  StatusInv'
<1>1. /\ \A d \in Clients \ {c} : call'[d] = call[d]
      /\ \A r : ToBeMade(r)' => ToBeMade(r)
  BY Drawn DEF Waits
<1>2. Arg(c)' = Arg(c) /\ call'[c].at = at /\ call'[c].seen = what
  BY DEF Waits, Arg
<1>3. at = "status" => \A i : Arg(c)'.id = i => ~ToBeMade(AccountRow(i))'
  BY <1>1, <1>2 DEF StatusInv, AccountsKnown
<1>4. at \in RowHeld => \A i : Arg(c)'.id = i => AsGiven(i, call'[c].seen.row)
  BY <1>2
<1>5. \A i \in DOMAIN rows' : AsGiven(i, rows'[i])
  BY DEF StatusInv, RowsAsGiven
<1>6. DOMAIN rows' \subseteq Ids /\ DOMAIN rows' \ DOMAIN rows = {}
  BY DEF StatusInv, RowsAsGiven
<1> QED  BY <1>1, <1>2, <1>3, <1>4, <1>5, <1>6, StatusFrame

\* A row is written back, with its status or with the one it is given by its
\* verification.
LEMMA StatusWrite ==
    ASSUME CallsTyped, DrawnOnce, StatusInv, NEW c \in Clients, Moves(c), UNCHANGED <<intent, overlapped>>,
           call'[c].at = "idle", NEW i, NEW row, AsGiven(i, row), WriteRow(i, row)
    PROVE  StatusInv'
<1>1. /\ \A d \in Clients \ {c} : call'[d] = call[d]
      /\ \A r : ToBeMade(r)' => ToBeMade(r)
  BY Drawn DEF Moves, Ended, Waits
<1>2. DOMAIN rows' = DOMAIN rows /\ \A j \in DOMAIN rows : rows'[j] = IF j = i THEN row ELSE rows[j]
  BY DEF WriteRow
<1>3. ASSUME NEW j \in DOMAIN rows  PROVE AsGiven(j, rows'[j])
  <2>1. CASE j = i
    BY <1>2, <2>1
  <2>2. CASE j # i
    BY <1>2, <2>2 DEF StatusInv, RowsAsGiven
  <2> QED  BY <2>1, <2>2
<1>4. call'[c].at # "status" /\ call'[c].at \notin RowHeld
  BY DEF RowHeld
<1>5. DOMAIN rows' \subseteq Ids /\ \A j \in DOMAIN rows' : AsGiven(j, rows'[j])
  BY <1>2, <1>3 DEF StatusInv, RowsAsGiven
<1> QED  BY <1>1, <1>2, <1>4, <1>5, StatusFrame

\* An operation writes the status it drives the account to.
LEMMA StatusDriven ==
    ASSUME CallsTyped, DrawnOnce, StatusInv, NEW c \in Clients, Moves(c), call'[c].at = "idle",
           call[c].at = "status", NEW i \in Ids, i = Arg(c).id, NEW to, update_status(i, to),
           intent' = [intent EXCEPT ![i] = to],
           overlapped' = IF Holding(c, PendingWrites, i) # {} THEN overlapped \cup {i} ELSE overlapped \ {i}
    PROVE  StatusInv'
<1>1. /\ \A d \in Clients \ {c} : call'[d] = call[d]
      /\ \A r : ToBeMade(r)' => ToBeMade(r)
  BY Drawn DEF Moves, Ended, Waits
<1>2. \A d \in Clients \ {c} : Arg(d)' = Arg(d) /\ Seen(d)' = Seen(d)
  BY <1>1 DEF Arg, Seen
<1>3. DOMAIN intent' = Ids /\ intent'[i] = to /\ \A j \in Ids \ {i} : intent'[j] = intent[j]
  BY DEF StatusInv, RowsAsGiven
<1>4. \A j \in Ids \ {i} : j \in overlapped' <=> j \in overlapped
  OBVIOUS
<1>5. /\ DOMAIN rows' = DOMAIN rows /\ \A j \in DOMAIN rows \ {i} : rows'[j] = rows[j]
      /\ i \in DOMAIN rows => rows'[i].status = to /\ "status" \in DOMAIN rows'[i]
  BY DEF update_status, StatusInv, RowsAsGiven, AsGiven
<1>6. ~ToBeMade(AccountRow(i))
  BY DEF StatusInv, AccountsKnown
<1>7. AccountsKnown'
  <2>1. \A j \in DOMAIN rows' : ~ToBeMade(AccountRow(j))'
    BY <1>1, <1>5 DEF StatusInv, AccountsKnown
  <2>2. \A j \in Ids : intent'[j] # "none" => ~ToBeMade(AccountRow(j))'
    BY <1>1, <1>3, <1>6 DEF StatusInv, AccountsKnown
  <2>3. ASSUME NEW d \in Clients, call'[d].at = "status", NEW j, Arg(d)'.id = j  PROVE ~ToBeMade(AccountRow(j))'
    <3>1. d # c
      BY <2>3
    <3> QED  BY <1>1, <1>2, <2>3, <3>1 DEF StatusInv, AccountsKnown
  <2> QED  BY <2>1, <2>2, <2>3 DEF AccountsKnown
<1>8. ASSUME NEW j \in DOMAIN rows'  PROVE AsGiven(j, rows[j])'
  <2>1. CASE j = i
    BY <1>3, <1>5, <2>1 DEF AsGiven
  <2>2. CASE j # i
    <3>1. j \in Ids \ {i} /\ j \in DOMAIN rows /\ AsGiven(j, rows[j])
      BY <1>5, <1>8, <2>2 DEF StatusInv, RowsAsGiven
    <3> QED  BY <1>3, <1>4, <1>5, <3>1 DEF AsGiven
  <2> QED  BY <2>1, <2>2
<1>9. ASSUME NEW d \in Clients, call'[d].at \in RowHeld, NEW j, Arg(d)'.id = j  PROVE AsGiven(j, Seen(d).row)'
  <2>0. d # c
    BY <1>9 DEF RowHeld
  <2>1. call[d].at \in RowHeld /\ Arg(d).id = j /\ Seen(d)' = Seen(d) /\ AsGiven(j, Seen(d).row)
    BY <1>1, <1>2, <1>9, <2>0 DEF StatusInv, RowsAsGiven
  <2>2. j \in Ids
    <3>1. call[d].at \in AccountPlaces
      BY <2>1 DEF RowHeld, AccountPlaces
    <3>2. call[d].todo # << >> /\ Arg(d).op \in AccountOps
      BY <3>1, WhereInCall DEF InPlace
    <3> QED  BY <2>1, <3>2, CallTyped, CallCarries
  <2>3. CASE j = i
    <3>1. d \in Holding(c, PendingWrites, i)
      BY <2>0, <2>1, <2>3, WhereInCall DEF Holding, PendingWrites, RowHeld
    <3>2. i \in overlapped'
      BY <3>1
    <3> QED  BY <2>1, <2>3, <3>2 DEF AsGiven
  <2>4. CASE j # i
    BY <1>3, <1>4, <2>1, <2>2, <2>4 DEF AsGiven
  <2> QED  BY <2>3, <2>4
<1>10. DOMAIN rows' \subseteq Ids
  BY <1>5 DEF StatusInv, RowsAsGiven
<1> QED  BY <1>3, <1>7, <1>8, <1>9, <1>10 DEF StatusInv, RowsAsGiven

\* update: the row is written, or refused.
LEMMA UpdateKeeps ==
    ASSUME CallsTyped, DrawnOnce, StatusInv, NEW c \in Clients, Moves(c), NEW i, NEW row, AsGiven(i, row), NEW names,
           update(c, i, row, names)
    PROVE  StatusInv'
<1>1. UNCHANGED <<intent, overlapped>> /\ (rows' = rows \/ WriteRow(i, row)) /\ (Return(c, "Storage") \/ Return(c, "ok"))
  BY DEF update
<1>2. call'[c].at = "idle"
  BY <1>1, Returns DEF Ended
<1>3. CASE rows' = rows
  BY <1>1, <1>2, <1>3, UnchangedKeeps, StatusStep DEF RowHeld
<1>4. CASE WriteRow(i, row)
  BY <1>1, <1>2, <1>4, StatusWrite
<1> QED  BY <1>1, <1>3, <1>4

\* Creation: a new row has no history.
LEMMA CreateKeeps ==
    ASSUME CallsTyped, DrawnOnce, StatusInv, NEW c \in Clients, Moves(c), create_account(c)
    PROVE  StatusInv'
<1>1. ASSUME NEW out, Return(c, out)  PROVE call'[c].at = "idle"
  BY <1>1, Returns DEF Ended
<1>2. ASSUME NEW at, NEW what, Proceed(c, at, what)  PROVE call'[c].at = at
  BY <1>2, Proceeds DEF Waits
<1>3. UNCHANGED <<intent, overlapped>> /\ call'[c].at \in {"idle", "name", "insert"}
  BY <1>1, <1>2 DEF create_account, Quiet
<1>4. CASE rows' = rows
  BY <1>3, <1>4, UnchangedKeeps, StatusStep DEF RowHeld
<1>5. CASE rows' # rows
  <2>1. PICK i : i = Arg(c).id
    OBVIOUS
  <2>2. Doing(c, "create_account", "insert")
    BY <1>5 DEF create_account
  <2>3. PICK row : /\ row.status \in {"PendingVerification", "Active"} /\ "status" \in DOMAIN row
                   /\ rows' = [j \in DOMAIN rows \cup {i} |-> IF j = i THEN row ELSE rows[j]] /\ Return(c, "ok")
    BY <1>5, <2>1, <2>2 DEF create_account, Doing
  <2>4. call[c].todo # << >> /\ Arg(c).op = "create_account" /\ call[c].at \notin MadePlaces
    BY <2>2 DEF Doing, Arg, MadePlaces
  <2>5. i \in Ids /\ AccountRow(i) \in Made(Arg(c))
    BY <2>1, <2>4, CallTyped, CallCarries DEF AccountOps, Made, AccountRow
  <2>6. ToBeMade(AccountRow(i)) /\ ~ToBeMade(AccountRow(i))'
    BY <1>1, <2>3, <2>4, <2>5, AboutToMake, Drawn
  <2>7. intent[i] = "none"
    BY <2>5, <2>6 DEF StatusInv, AccountsKnown
  <2>8. AsGiven(i, row)
    BY <2>3, <2>7 DEF AsGiven, Sanctions
  <2>9. DOMAIN rows' = DOMAIN rows \cup {i} /\ \A j \in DOMAIN rows' : rows'[j] = IF j = i THEN row ELSE rows[j]
    BY <2>3
  <2>10. \A j \in DOMAIN rows' : AsGiven(j, rows'[j])
    BY <2>8, <2>9 DEF StatusInv, RowsAsGiven
  <2>11. DOMAIN rows' \subseteq Ids
    BY <2>5, <2>9 DEF StatusInv, RowsAsGiven
  <2>12. \A j \in DOMAIN rows' \ DOMAIN rows : ~ToBeMade(AccountRow(j))'
    BY <2>6, <2>9
  <2>13. /\ \A d \in Clients \ {c} : call'[d] = call[d]
         /\ \A r : ToBeMade(r)' => ToBeMade(r)
    BY Drawn DEF Moves, Ended, Waits
  <2>14. call'[c].at # "status" /\ call'[c].at \notin RowHeld
    BY <1>1, <2>3 DEF RowHeld
  <2> QED  BY <1>3, <2>10, <2>11, <2>12, <2>13, <2>14, StatusFrame
<1> QED  BY <1>4, <1>5

\* A step of AccountService.
LEMMA AccountsStepKeeps ==
    ASSUME CallsTyped, DrawnOnce, StatusInv, NEW c \in Clients, Moves(c), AccountsStep(c)
    PROVE  StatusInv'
<1>1. ASSUME NEW out, Return(c, out)  PROVE call'[c].at = "idle" /\ call'[c].at \notin RowHeld \cup {"status"}
  BY <1>1, Returns DEF Ended, RowHeld
<1>2. ASSUME NEW at, NEW what, Proceed(c, at, what)  PROVE call'[c].at = at /\ Waits(c, at, what)
  BY <1>2, Proceeds DEF Waits
<1>3. PICK i : i = Arg(c).id
  OBVIOUS
<1>4. ASSUME rows' = rows, UNCHANGED <<intent, overlapped>>, NEW out, Return(c, out)  PROVE StatusInv'
  BY <1>1, <1>4, UnchangedKeeps, StatusStep
<1>5. ASSUME rows' = rows, UNCHANGED <<intent, overlapped>>, NEW at \in RowHeld, i \in DOMAIN rows,
             Proceed(c, at, [row |-> rows[i]])
      PROVE  StatusInv'
  <2>1. AsGiven(i, rows[i])
    BY <1>5 DEF StatusInv, RowsAsGiven
  <2>2. \A j : Arg(c).id = j => AsGiven(j, rows[i])
    BY <1>3, <2>1
  <2>3. PICK what : what = [row |-> rows[i]]
    OBVIOUS
  <2>4. Waits(c, at, what) /\ what.row = rows[i] /\ at # "status"
    BY <1>2, <1>5, <2>3 DEF RowHeld
  <2> QED  BY <1>5, <2>2, <2>4, StatusRead
<1>6. ASSUME call[c].at \in RowHeld  PROVE AsGiven(i, Seen(c).row)
  BY <1>3, <1>6 DEF StatusInv, RowsAsGiven
<1>7. ASSUME NEW op, NEW next \in RowHeld, LoadRow(c, op, next)  PROVE StatusInv'
  BY <1>3, <1>4, <1>5, <1>7 DEF LoadRow, Quiet
<1>8. CASE create_account(c)
  BY <1>8, CreateKeeps
<1>9. CASE get_account(c)
  <2>1. CASE Doing(c, "get_account", "idle")
    <3>1. rows' = rows /\ UNCHANGED <<intent, overlapped>> /\ call'[c].at \in {"expire", "idle"}
      BY <1>1, <1>2, <1>9, <2>1 DEF get_account, Doing, Quiet
    <3> QED  BY <3>1, UnchangedKeeps, StatusStep DEF RowHeld
  <2>2. CASE Doing(c, "get_account", "expire")
    <3>1. update_status(i, "Expired") /\ UNCHANGED <<intent, overlapped>> /\ Return(c, "ok")
      BY <1>3, <1>9, <2>2 DEF get_account, Doing
    <3>2. RowsKeep
      BY <3>1 DEF RowsKeep, update_status, StatusInv, RowsAsGiven, AsGiven
    <3> QED  BY <1>1, <3>1, <3>2, StatusStep
  <2> QED  BY <1>9, <2>1, <2>2 DEF get_account
<1>10. CASE update_account(c)
  <2>1. CASE LoadRow(c, "update_account", "email")
    BY <1>7, <2>1 DEF RowHeld
  <2>2. CASE Doing(c, "update_account", "email") /\ ~LoadRow(c, "update_account", "email")
    <3>0. call[c].at = "email"
      BY <2>2 DEF Doing
    <3>1. /\ rows' = rows /\ UNCHANGED <<intent, overlapped>>
          /\ (\E out : Return(c, out)) \/ Proceed(c, "save", Seen(c))
      BY <1>10, <2>2, <3>0 DEF update_account, Doing, Quiet
    <3>2. CASE Proceed(c, "save", Seen(c))
      <4>1. PICK what : what = Seen(c)
        OBVIOUS
      <4>2. \A j : Arg(c).id = j => AsGiven(j, what.row)
        BY <1>3, <1>6, <3>0, <4>1 DEF RowHeld
      <4>3. Waits(c, "save", what)
        BY <1>2, <3>2, <4>1
      <4> QED  BY <3>1, <4>2, <4>3, StatusRead
    <3> QED  BY <1>4, <3>1, <3>2
  <2>3. CASE Doing(c, "update_account", "save")
    <3>1. PICK row : row = [Seen(c).row EXCEPT !.email = Arg(c).email, !.expires = Arg(c).expires]
      OBVIOUS
    <3>2. update(c, i, row, {"ProfileUpdated"}) /\ call[c].at = "save"
      BY <1>3, <1>10, <2>3, <3>1 DEF update_account, LoadRow, Doing
    <3>3. AsGiven(i, row)
      BY <1>6, <3>1, <3>2 DEF AsGiven, RowHeld
    <3> QED  BY <3>2, <3>3, UpdateKeeps
  <2> QED  BY <1>10, <2>1, <2>2, <2>3 DEF update_account
<1>11. CASE verify_email(c)
  <2>1. CASE Doing(c, "verify_email", "idle")
    <3>1. rows' = rows /\ UNCHANGED <<intent, overlapped>>
      BY <1>11, <2>1 DEF verify_email, Doing, Quiet
    <3>2. (\E out : Return(c, out)) \/ (i \in DOMAIN rows /\ Proceed(c, "save", [row |-> rows[i]]))
      BY <1>3, <1>11, <2>1 DEF verify_email, Doing
    <3> QED  BY <1>4, <1>5, <3>1, <3>2 DEF RowHeld
  <2>2. CASE Doing(c, "verify_email", "save")
    <3>1. PICK row : row = [Seen(c).row EXCEPT !.verified = TRUE, !.status = verified_status(@)]
      OBVIOUS
    <3>2. call[c].at = "save" /\ \E names : update(c, i, row, names)
      BY <1>3, <1>11, <2>2, <3>1 DEF verify_email, Doing
    <3>3. AsGiven(i, row)
      <4>1. AsGiven(i, Seen(c).row)
        BY <1>6, <3>2 DEF RowHeld
      <4>2. "status" \in DOMAIN row /\ row.status = verified_status(Seen(c).row.status)
        BY <3>1, <4>1 DEF AsGiven
      <4> QED  BY <4>1, <4>2 DEF AsGiven, verified_status, Sanctions
    <3> QED  BY <3>2, <3>3, UpdateKeeps
  <2> QED  BY <1>11, <2>1, <2>2 DEF verify_email
<1>12. CASE change_password(c)
  <2>1. CASE LoadRow(c, "change_password", "save")
    BY <1>7, <2>1 DEF RowHeld
  <2>2. CASE Doing(c, "change_password", "save") /\ ~LoadRow(c, "change_password", "save")
    <3>1. PICK row : row = [Seen(c).row EXCEPT !.password = Arg(c).password]
      OBVIOUS
    <3>2. update(c, i, row, {"PasswordChanged"}) /\ call[c].at = "save"
      BY <1>3, <1>12, <2>2, <3>1 DEF change_password, Doing
    <3>3. AsGiven(i, row)
      BY <1>6, <3>1, <3>2 DEF AsGiven, RowHeld
    <3> QED  BY <3>2, <3>3, UpdateKeeps
  <2> QED  BY <1>12, <2>1, <2>2 DEF change_password
<1>13. CASE delete_account(c)
  <2>1. UNCHANGED <<intent, overlapped>> /\ (rows' = rows \/ rows' = [j \in DOMAIN rows \ {i} |-> rows[j]])
    BY <1>3, <1>13 DEF delete_account, Quiet
  <2>2. call'[c].at \in {"idle", "delete"}
    BY <1>1, <1>2, <1>13 DEF delete_account
  <2>3. RowsKeep
    BY <2>1 DEF RowsKeep, StatusInv, RowsAsGiven, AsGiven
  <2> QED  BY <2>1, <2>2, <2>3, StatusStep DEF RowHeld
<1>14. ASSUME NEW op \in DOMAIN Transitions, transition(c, op)  PROVE StatusInv'
  <2>0. op \in AccountOps
    BY <1>14 DEF Transitions, AccountOps
  <2>1. CASE Doing(c, op, "idle")
    <3>1. rows' = rows /\ UNCHANGED <<intent, overlapped>>
      BY <1>14, <2>1 DEF transition, Doing, Quiet
    <3>2. (\E out : Return(c, out)) \/ (i \in DOMAIN rows /\ Proceed(c, "status", Unread))
      BY <1>3, <1>14, <2>1 DEF transition, Doing
    <3>3. CASE i \in DOMAIN rows /\ Proceed(c, "status", Unread)
      BY <1>2, <1>3, <3>1, <3>3, StatusRead DEF RowHeld
    <3> QED  BY <1>4, <3>1, <3>2, <3>3
  <2>2. CASE Doing(c, op, "status")
    <3>1. PICK to : to = Transitions[op][1]
      OBVIOUS
    <3>2. /\ update_status(i, to) /\ Return(c, "ok") /\ intent' = [intent EXCEPT ![i] = to]
          /\ overlapped' = IF Holding(c, PendingWrites, i) # {} THEN overlapped \cup {i} ELSE overlapped \ {i}
      BY <1>3, <1>14, <2>2, <3>1 DEF transition, Doing
    <3>3. call[c].at = "status" /\ call[c].todo # << >> /\ Arg(c).op = op
      BY <2>2 DEF Doing, Arg
    <3>4. i \in Ids
      BY <1>3, <2>0, <3>3, CallTyped, CallCarries
    <3>5. call'[c].at = "idle"
      BY <1>1, <3>2
    <3> QED  BY <1>3, <3>2, <3>3, <3>4, <3>5, StatusDriven
  <2> QED  BY <1>14, <2>1, <2>2 DEF transition
<1> QED  BY <1>8, <1>9, <1>10, <1>11, <1>12, <1>13, <1>14 DEF AccountsStep

\* Steps of the other services, and the clock.
LEMMA StatusAside ==
    ASSUME StatusInv, RowsKeep, UNCHANGED <<intent, overlapped>>, \A r : ToBeMade(r)' => ToBeMade(r),
           \A d \in Clients : call'[d].at \in AccountPlaces => call'[d] = call[d]
    PROVE  StatusInv'
<1>1. ASSUME NEW d \in Clients, call'[d].at \in RowHeld \cup {"status"}
      PROVE  call[d].at = call'[d].at /\ Arg(d)' = Arg(d) /\ Seen(d)' = Seen(d)
  BY <1>1 DEF AccountPlaces, RowHeld, Arg, Seen
<1>2. AccountsKnown'
  BY <1>1 DEF StatusInv, AccountsKnown, RowsKeep
<1>3. DOMAIN rows' \subseteq Ids /\ \A i \in DOMAIN rows' : AsGiven(i, rows'[i])
  BY KeepGiven
<1>4. RowsAsGiven'
  BY <1>1, <1>3 DEF StatusInv, RowsAsGiven, AsGiven
<1> QED  BY <1>2, <1>4 DEF StatusInv

\* The login leaves the status of the row it records itself in.
LEMMA LoginKeepsRows ==
    ASSUME StatusInv, NEW c \in Clients, LockoutStep(c)
    PROVE  RowsKeep /\ UNCHANGED <<intent, overlapped>>
<1>1. CASE rows' = rows
  BY <1>1, UnchangedKeeps DEF LockoutStep, middleware, handler, record_failure, record_success, unlock, Quiet
<1>2. ASSUME NEW e, record_login(e)  PROVE RowsKeep
  <2>1. DOMAIN rows' = DOMAIN rows
    BY <1>2 DEF record_login
  <2>2. ASSUME NEW i \in DOMAIN rows  PROVE "status" \in DOMAIN rows'[i] /\ rows'[i].status = rows[i].status
    <3>1. "status" \in DOMAIN rows[i]
      BY DEF StatusInv, RowsAsGiven, AsGiven
    <3>2. rows'[i] = IF rows[i].email = e THEN [rows[i] EXCEPT !.logged_in = TRUE] ELSE rows[i]
      BY <1>2 DEF record_login
    <3> QED  BY <3>1, <3>2
  <2> QED  BY <2>1, <2>2 DEF RowsKeep
<1>3. CASE rows' # rows
  <2>1. record_success(c)
    BY <1>3 DEF LockoutStep, middleware, handler, record_failure, unlock
  <2> QED  BY <1>2, <1>3, <2>1 DEF record_success, Quiet
<1> QED  BY <1>1, <1>3

LEMMA StatusInvInductive ==
    /\ Init => StatusInv
    /\ CallsTyped /\ DrawnOnce /\ StatusInv /\ [Next]_vars => StatusInv'
<1>1. ASSUME Init  PROVE StatusInv
  <2>1. PICK w \in Workloads : CallInit(w) /\ AccountsInit(w.accounts)
    BY <1>1 DEF Init
  <2>2. /\ DOMAIN w.accounts \subseteq Ids
        /\ \A i \in DOMAIN w.accounts : w.accounts[i] \in Account(STRING, STRING \cup {NoName}, STRING)
    BY WorkloadsAssumption
  <2>3. /\ rows = w.accounts /\ intent = [i \in Ids |-> "none"] /\ overlapped = {}
        /\ \A c \in Clients : call[c].at = "idle" /\ call[c].todo = w.calls[c]
    BY <2>1 DEF CallInit, AccountsInit
  <2>4. ASSUME NEW k \in DOMAIN w.accounts, ToBeMade(AccountRow(k))  PROVE FALSE
    <3>0. PICK c \in Clients : \E i \in 1 .. Len(w.calls[c]) : AccountRow(k) \in Made(w.calls[c][i])
      BY <2>3, <2>4 DEF ToBeMade
    <3>1. PICK i \in 1 .. Len(w.calls[c]) : AccountRow(k) \in Made(w.calls[c][i])
      BY <3>0
    <3>2. PICK r : r = AccountRow(k) /\ r \in Made(w.calls[c][i])
      BY <3>1
    <3>3. r[1] = "account" /\ r[2] = k
      BY <3>2 DEF AccountRow
    <3> QED  BY <2>4, <3>2, <3>3, WorkloadsAssumption
  <2>5. \A i \in DOMAIN rows : AsGiven(i, rows[i])
    BY <2>2, <2>3 DEF AsGiven, Account, Sanctions
  <2>6. AccountsKnown
    BY <2>3, <2>4 DEF AccountsKnown
  <2>7. RowsAsGiven
    BY <2>2, <2>3, <2>5 DEF RowsAsGiven, RowHeld
  <2> QED  BY <2>6, <2>7 DEF StatusInv
<1>2. ASSUME CallsTyped, DrawnOnce, StatusInv, NEW c \in Clients, Request(c)  PROVE StatusInv'
  <2>0. call[c].at \in AccountPlaces => InPlace(c, AccountOps, AccountPlaces)
    BY <1>2, WhereInCall
  <2>1. Moves(c) /\ \A r : ToBeMade(r)' => ToBeMade(r)
    BY <1>2, RequestMoves, Drawn
  <2>2. ASSUME UNCHANGED accountVars  PROVE RowsKeep /\ UNCHANGED <<intent, overlapped>>
    BY <1>2, <2>2, UnchangedKeeps DEF accountVars
  <2>3. CASE LockoutStep(c)
    <3>0. Apart(LockoutOps, LockoutPlaces, AccountOps, AccountPlaces)
      BY ServicesApart DEF Apart
    <3>1. OfService(c, LockoutOps, LockoutPlaces)
      BY <2>3, LockoutOfService
    <3>2. \A d \in Clients : call[d].at \in AccountPlaces \/ call'[d].at \in AccountPlaces => call'[d] = call[d]
      BY <1>2, <2>0, <3>0, <3>1, OtherService
    <3> QED  BY <1>2, <2>1, <2>3, <3>2, LoginKeepsRows, StatusAside
  <2>4. CASE TokensStep(c) /\ OnlyTokens
    <3>0. Apart(TokenOps, TokenPlaces, AccountOps, AccountPlaces)
      BY ServicesApart DEF Apart
    <3>1. OfService(c, TokenOps, TokenPlaces)
      BY <2>4, TokensOfService
    <3>2. \A d \in Clients : call[d].at \in AccountPlaces \/ call'[d].at \in AccountPlaces => call'[d] = call[d]
      BY <1>2, <2>0, <3>0, <3>1, OtherService
    <3>3. RowsKeep /\ UNCHANGED <<intent, overlapped>>
      BY <2>2, <2>4 DEF OnlyTokens
    <3> QED  BY <1>2, <2>1, <3>2, <3>3, StatusAside
  <2>5. CASE KeysStep(c) /\ OnlyKeys
    <3>0. Apart(KeyOps, KeyPlaces, AccountOps, AccountPlaces)
      BY ServicesApart DEF Apart
    <3>1. OfService(c, KeyOps, KeyPlaces)
      BY <2>5, KeysOfService
    <3>2. \A d \in Clients : call[d].at \in AccountPlaces \/ call'[d].at \in AccountPlaces => call'[d] = call[d]
      BY <1>2, <2>0, <3>0, <3>1, OtherService
    <3>3. RowsKeep /\ UNCHANGED <<intent, overlapped>>
      BY <2>2, <2>5 DEF OnlyKeys
    <3> QED  BY <1>2, <2>1, <3>2, <3>3, StatusAside
  <2>6. CASE SessionStep(c) /\ OnlySessions
    <3>0. Apart(SessionOps, SessionPlaces, AccountOps, AccountPlaces)
      BY ServicesApart DEF Apart
    <3>1. OfService(c, SessionOps, SessionPlaces)
      BY <2>6, SessionsOfService
    <3>2. \A d \in Clients : call[d].at \in AccountPlaces \/ call'[d].at \in AccountPlaces => call'[d] = call[d]
      BY <1>2, <2>0, <3>0, <3>1, OtherService
    <3>3. RowsKeep /\ UNCHANGED <<intent, overlapped>>
      BY <2>2, <2>6 DEF OnlySessions
    <3> QED  BY <1>2, <2>1, <3>2, <3>3, StatusAside
  <2>7. CASE AccountsStep(c)
    BY <1>2, <2>1, <2>7, AccountsStepKeeps
  <2> QED  BY <1>2, <2>3, <2>4, <2>5, <2>6, <2>7 DEF Request
<1>3. ASSUME CallsTyped, DrawnOnce, StatusInv, NEW c \in Clients, Dropped(c)  PROVE StatusInv'
  <2>1. Moves(c) /\ Ended(c, "aborted") /\ rows' = rows /\ UNCHANGED <<intent, overlapped>>
    BY <1>3, DroppedMoves, Abandons DEF Dropped, accountVars
  <2> QED  BY <1>3, <2>1, UnchangedKeeps, StatusStep DEF Ended, RowHeld
<1>4. ASSUME UNCHANGED call
      PROVE  /\ \A r : ToBeMade(r)' => ToBeMade(r)
             /\ \A d \in Clients : call'[d].at \in AccountPlaces => call'[d] = call[d]
  BY <1>4 DEF ToBeMade, Made
<1>5. ASSUME StatusInv, NEW i \in Ids, Elapse(i)  PROVE RowsKeep /\ UNCHANGED <<intent, overlapped>> /\ UNCHANGED call
  <2>1. i \in DOMAIN rows /\ rows' = [rows EXCEPT ![i].expires = "past"]
    BY <1>5 DEF Elapse
  <2>2. \A j \in DOMAIN rows : "status" \in DOMAIN rows[j]
    BY <1>5 DEF StatusInv, RowsAsGiven, AsGiven
  <2> QED  BY <1>5, <2>1, <2>2 DEF RowsKeep, Elapse, Quiet, callVars
<1>6. ASSUME StatusInv, Clock \/ UNCHANGED vars
      PROVE  RowsKeep /\ UNCHANGED <<intent, overlapped>> /\ UNCHANGED call
  <2>1. CASE rows' = rows /\ UNCHANGED <<intent, overlapped>> /\ UNCHANGED call
    BY <1>6, <2>1, UnchangedKeeps
  <2> QED  BY <1>5, <1>6, <2>1 DEF Clock, KeyExpires, TokenAges, KeyExpired, StateExpires, OnlyTokens, OnlyKeys, Quiet,
             accountVars, callVars, vars
<1>7. ASSUME StatusInv, Clock \/ UNCHANGED vars  PROVE StatusInv'
  BY <1>4, <1>6, <1>7, StatusAside
<1> QED  BY <1>1, <1>2, <1>3, <1>7 DEF Next

\* No concurrent call, dropped or not, undoes a lock, a disabling or a
\* suspension that met no pending write of the same row.
THEOREM StatusStaysAsAdministered == Spec => []StatusAsAdministered
<1>1. StatusInv => StatusAsAdministered
  BY DEF StatusInv, RowsAsGiven, AsGiven, Sanctions, StatusAsAdministered
<1> QED  BY <1>1, CallsTypedInductive, DrawnOnceInductive, StatusInvInductive, PTL DEF Spec

-----------------------------------------------------------------------------
(* Refresh tokens.                                                         *)

Successes == {"stored", "revoked", "rotated", "reuse"}

\* What a call has still to do, in the terms of the trait.
Idle == [busy |-> FALSE, revoke |-> {}, store |-> {}]
Left(r, s) == [busy |-> TRUE, revoke |-> r, store |-> s]

Answered(c) == call[c].out \in Successes

\* Only the call of c moves.
Alone(c) == load' = load /\ \A d \in Clients \ {c} : call'[d] = call[d]

LEMMA OthersStay ==
    ASSUME NEW c \in Clients, Alone(c)
    PROVE  /\ \A d \in Clients \ {c} : Work(d)' = Work(d) /\ Answered(d)' = Answered(d)
           /\ RefreshStorage.transaction' = RefreshStorage.transaction
<1>1. ASSUME NEW d \in Clients \ {c}  PROVE Work(d)' = Work(d) /\ Answered(d)' = Answered(d)
  <2>1. call'[d] = call[d]
    BY DEF Alone
  <2> QED  BY <2>1 DEF Work, Answered, Arg, Seen
<1>2. RefreshStorage.transaction' = RefreshStorage.transaction
  BY DEF Alone, RefreshStorage
<1> QED  BY <1>1, <1>2

LEMMA TraitCalled ==
    ASSUME NEW c \in Clients, Alone(c), Work(c) = Idle, tokens' = tokens, Answered(c)' = Answered(c),
           NEW r \in SUBSET Tokens, NEW s \in {{}} \cup {{t} : t \in Tokens}, Work(c)' = Left(r, s)
    PROVE  Trait!Called(c)
<1>1. /\ \A d \in Clients \ {c} : Work(d)' = Work(d) /\ Answered(d)' = Answered(d)
      /\ RefreshStorage.transaction' = RefreshStorage.transaction
  BY OthersStay
<1>2. ~[x \in Clients |-> Work(x)][c].busy
  BY DEF Idle
<1>3. [x \in Clients |-> Work(x)]'[c] \in [busy : {TRUE}, revoke : SUBSET Tokens, store : {{}} \cup {{t} : t \in Tokens}]
  <2>1. Left(r, s) \in [busy : {TRUE}, revoke : SUBSET Tokens, store : {{}} \cup {{t} : t \in Tokens}]
    BY DEF Left
  <2> QED  BY <2>1
<1>4. [x \in Clients |-> Work(x)]' = [[x \in Clients |-> Work(x)] EXCEPT ![c] = [x \in Clients |-> Work(x)]'[c]]
  BY <1>1
<1>5. [x \in Clients |-> call[x].out \in {"stored", "revoked", "rotated", "reuse"}]'
        = [x \in Clients |-> call[x].out \in {"stored", "revoked", "rotated", "reuse"}]
  BY <1>1 DEF Answered, Successes
<1> QED  BY <1>1, <1>2, <1>3, <1>4, <1>5 DEF Trait!Called

LEMMA TraitStutters ==
    ASSUME NEW c \in Clients, Alone(c), Work(c)' = Work(c), Answered(c)' = Answered(c), tokens' = tokens
    PROVE  UNCHANGED Trait!contract
<1>1. /\ \A d \in Clients : Work(d)' = Work(d) /\ Answered(d)' = Answered(d)
      /\ RefreshStorage.transaction' = RefreshStorage.transaction
  BY OthersStay
<1>2. [x \in Clients |-> Work(x)]' = [x \in Clients |-> Work(x)]
  BY <1>1
<1>3. [x \in Clients |-> call[x].out \in {"stored", "revoked", "rotated", "reuse"}]'
        = [x \in Clients |-> call[x].out \in {"stored", "revoked", "rotated", "reuse"}]
  BY <1>1 DEF Answered, Successes
<1> QED  BY <1>1, <1>2, <1>3 DEF Trait!contract

LEMMA TraitReturns ==
    ASSUME NEW c \in Clients, Alone(c), Work(c)' = Idle, tokens' = tokens, ~Answered(c)'
    PROVE  Trait!Returned(c)
<1>1. \A d \in Clients \ {c} : Work(d)' = Work(d) /\ Answered(d)' = Answered(d)
  BY OthersStay
<1>2. [x \in Clients |-> Work(x)]' = [[x \in Clients |-> Work(x)] EXCEPT ![c] = Trait!NoWork]
  BY <1>1 DEF Idle, Trait!NoWork
<1>3. [x \in Clients |-> call[x].out \in {"stored", "revoked", "rotated", "reuse"}]'
        = [[x \in Clients |-> call[x].out \in {"stored", "revoked", "rotated", "reuse"}] EXCEPT ![c] = FALSE]
  <2>1. (call'[c].out \in {"stored", "revoked", "rotated", "reuse"}) = FALSE
    BY DEF Answered, Successes
  <2>2. \A d \in Clients \ {c} : (call'[d].out \in {"stored", "revoked", "rotated", "reuse"})
                                   = (call[d].out \in {"stored", "revoked", "rotated", "reuse"})
    BY <1>1 DEF Answered, Successes
  <2> QED  BY <2>1, <2>2
<1> QED  BY <1>2, <1>3 DEF Trait!Returned

\* All the work of a call is done and it has succeeded.
LEMMA TraitCommits ==
    ASSUME NEW c \in Clients, Alone(c), NEW R, NEW S, Work(c) = Left(R, S),
           \A t \in S : tokens[t] = "absent", tokens' = Trait!After(tokens, R, S), Work(c)' = Idle, Answered(c)'
    PROVE  Trait!Commit(c)
<1>1. \A d \in Clients \ {c} : Work(d)' = Work(d) /\ Answered(d)' = Answered(d)
  BY OthersStay
<1>2. [x \in Clients |-> Work(x)]' = [[x \in Clients |-> Work(x)] EXCEPT ![c] = Trait!NoWork]
  BY <1>1 DEF Idle, Trait!NoWork
<1>3. [x \in Clients |-> call[x].out \in {"stored", "revoked", "rotated", "reuse"}]'
        = [[x \in Clients |-> call[x].out \in {"stored", "revoked", "rotated", "reuse"}] EXCEPT ![c] = TRUE]
  BY <1>1 DEF Answered, Successes
<1>4. /\ [x \in Clients |-> Work(x)][c].busy
      /\ [x \in Clients |-> Work(x)][c].revoke = R /\ [x \in Clients |-> Work(x)][c].store = S
  BY DEF Left
<1> QED  BY <1>2, <1>3, <1>4 DEF Trait!Commit

\* Steps at which a call of a storage method is under way.
Busy == {"each", "store", "sadd_family", "sadd_user", "rotate", "tx_insert", "tx_commit"}

LEMMA NotBusy == "idle" \notin Busy /\ "reuse" \notin Busy
BY DEF Busy

LEMMA WorkNow ==
    ASSUME CallsTyped, NEW c \in Clients, call[c].todo # << >> \/ call[c].at = "idle"
    PROVE  /\ call[c].at \notin Busy => Work(c) = Idle
           /\ call[c].at = "each" => Work(c) = Left(Seen(c).row, {})
           /\ call[c].at = "store" /\ Arg(c).op = "issue" => Work(c) = Left({}, {Arg(c).id})
           /\ call[c].at = "store" /\ Arg(c).op = "refresh" => Work(c) = Left({}, {Arg(c).new})
           /\ call[c].at \in {"sadd_family", "sadd_user"} => Work(c) = Left({}, {})
           /\ call[c].at \in {"rotate", "tx_insert", "tx_commit"} => Work(c) = Left({Arg(c).id}, {Arg(c).new})
<1>1. call[c].at \notin Busy => Work(c) = Idle
  BY DEF Work, Busy, Idle
<1>2. call[c].at = "each" => Work(c) = Left(Seen(c).row, {})
  BY DEF Work, Left
<1>3. call[c].at = "store" /\ Arg(c).op = "issue" => Work(c) = Left({}, {Arg(c).id})
  BY DEF Work, Left
<1>4. call[c].at = "store" /\ Arg(c).op = "refresh" => Work(c) = Left({}, {Arg(c).new})
  BY DEF Work, Left
<1>5. call[c].at \in {"sadd_family", "sadd_user"} => Work(c) = Left({}, {})
  BY DEF Work, Left
<1>6. call[c].at \in {"rotate", "tx_insert", "tx_commit"} => Work(c) = Left({Arg(c).id}, {Arg(c).new})
  BY DEF Work, Left
<1> QED  BY <1>1, <1>2, <1>3, <1>4, <1>5, <1>6

\* What is left after a step at which the call waits.
LEMMA WorkNext ==
    ASSUME CallsTyped, NEW c \in Clients, call[c].todo # << >>, NEW at, NEW what, Waits(c, at, what)
    PROVE  /\ at \notin Busy => Work(c)' = Idle
           /\ at = "each" => Work(c)' = Left(what.row, {})
           /\ at = "store" /\ Arg(c).op = "issue" => Work(c)' = Left({}, {Arg(c).id})
           /\ at = "store" /\ Arg(c).op = "refresh" => Work(c)' = Left({}, {Arg(c).new})
           /\ at \in {"sadd_family", "sadd_user"} => Work(c)' = Left({}, {})
           /\ at \in {"rotate", "tx_insert", "tx_commit"} => Work(c)' = Left({Arg(c).id}, {Arg(c).new})
           /\ Answered(c)' = Answered(c)
<1>1. call'[c].at = at /\ Arg(c)' = Arg(c) /\ call'[c].todo # << >> /\ Seen(c)' = what /\ call'[c].out = call[c].out
  BY DEF Waits, Arg, Seen
<1>2. at \notin Busy => Work(c)' = Idle
  BY <1>1 DEF Work, Busy, Idle
<1>3. at = "each" => Work(c)' = Left(what.row, {})
  BY <1>1 DEF Work, Left
<1>4. at = "store" /\ Arg(c).op = "issue" => Work(c)' = Left({}, {Arg(c).id})
  BY <1>1 DEF Work, Left
<1>5. at = "store" /\ Arg(c).op = "refresh" => Work(c)' = Left({}, {Arg(c).new})
  BY <1>1 DEF Work, Left
<1>6. at \in {"sadd_family", "sadd_user"} => Work(c)' = Left({}, {})
  BY <1>1 DEF Work, Left
<1>7. at \in {"rotate", "tx_insert", "tx_commit"} => Work(c)' = Left({Arg(c).id}, {Arg(c).new})
  BY <1>1 DEF Work, Left
<1>8. Answered(c)' = Answered(c)
  BY <1>1 DEF Answered
<1> QED  BY <1>2, <1>3, <1>4, <1>5, <1>6, <1>7, <1>8

\* Nothing is left of a call that has ended.
LEMMA WorkDone ==
    ASSUME NEW c \in Clients, NEW out, Ended(c, out)
    PROVE  Work(c)' = Idle /\ Answered(c)' = (out \in Successes)
<1>1. call'[c].at = "idle" /\ call'[c].out = out
  BY DEF Ended
<1> QED  BY <1>1 DEF Work, Idle, Answered

LEMMA Storages ==
    /\ RefreshStorage.transaction \in BOOLEAN /\ RefreshStorage.indexed \in BOOLEAN
    /\ RefreshStorage.indexed => ~RefreshStorage.transaction
BY DEF RefreshStorage, RedisRefreshStorage, PgRefreshStorage, TursoRefreshStorage, SurrealDbRefreshStorage

-----------------------------------------------------------------------------

TokenId(t) == <<"token", t>>

TokensKnown == \A t \in Tokens : ToBeMade(TokenId(t)) => tokens[t] = "absent"

TokensTyped ==
    /\ tokens \in [Tokens -> {"absent", "valid", "revoked"}]
    /\ family \subseteq Tokens /\ owned \subseteq Tokens
    /\ \A c \in Clients : call[c].at = "each" => Seen(c).row \subseteq Tokens

TokenInv == TokensKnown /\ TokensTyped

\* What a step is for the trait when the storage has a transaction.
TraitMoves == RefreshStorage.transaction => Trait!Next \/ UNCHANGED Trait!contract

LEMMA TokensFrame ==
    ASSUME CallsTyped, DrawnOnce, TokenInv, NEW c \in Clients, Moves(c),
           tokens' \in [Tokens -> {"absent", "valid", "revoked"}], family' \subseteq Tokens, owned' \subseteq Tokens,
           \A t \in Tokens : ToBeMade(TokenId(t))' => (tokens[t] = "absent" => tokens'[t] = "absent"),
           call'[c].at = "each" => call'[c].seen.row \subseteq Tokens
    PROVE  TokenInv'
<1>1. /\ \A d \in Clients \ {c} : call'[d] = call[d]
      /\ \A r : ToBeMade(r)' => ToBeMade(r)
  BY Drawn DEF Moves, Ended, Waits
<1>2. TokensKnown'
  BY <1>1 DEF TokenInv, TokensKnown
<1>3. TokensTyped'
  BY <1>1 DEF TokenInv, TokensTyped, Seen
<1> QED  BY <1>2, <1>3 DEF TokenInv

LEMMA RevokedIs ==
    ASSUME TokensTyped, NEW S
    PROVE  /\ Revoked(S) \in [Tokens -> {"absent", "valid", "revoked"}]
           /\ \A t \in Tokens : tokens[t] = "absent" => Revoked(S)[t] = "absent"
           /\ Revoked(S) = Trait!After(tokens, S, {})
           /\ Revoked({}) = tokens
<1>1. Revoked(S) \in [Tokens -> {"absent", "valid", "revoked"}]
  BY DEF TokensTyped, Revoked
<1>2. \A t \in Tokens : tokens[t] = "absent" => Revoked(S)[t] = "absent"
  BY DEF TokensTyped, Revoked
<1>3. Revoked(S) = Trait!After(tokens, S, {})
  BY DEF Revoked, Trait!After
<1>4. Revoked({}) = tokens
  BY DEF TokensTyped, Revoked
<1> QED  BY <1>1, <1>2, <1>3, <1>4

\* The new token is stored after the others have been revoked.
LEMMA StoredIs ==
    ASSUME TokensTyped, NEW S, NEW t \in Tokens
    PROVE  /\ [Revoked(S) EXCEPT ![t] = "valid"] \in [Tokens -> {"absent", "valid", "revoked"}]
           /\ \A u \in Tokens \ {t} : tokens[u] = "absent" => [Revoked(S) EXCEPT ![t] = "valid"][u] = "absent"
           /\ [Revoked(S) EXCEPT ![t] = "valid"] = Trait!After(tokens, S, {t})
<1>1. /\ Revoked(S) \in [Tokens -> {"absent", "valid", "revoked"}]
      /\ \A u \in Tokens : tokens[u] = "absent" => Revoked(S)[u] = "absent"
  BY RevokedIs
<1>2. [Revoked(S) EXCEPT ![t] = "valid"] = Trait!After(tokens, S, {t})
  BY DEF Revoked, Trait!After
<1> QED  BY <1>1, <1>2

LEMMA StepAlone ==
    ASSUME CallsTyped, NEW c \in Clients
    PROVE  /\ \A at, what : Proceed(c, at, what) => Waits(c, at, what) /\ Alone(c)
           /\ \A out : Return(c, out) => Ended(c, out) /\ Alone(c)
<1>1. ASSUME NEW at, NEW what, Proceed(c, at, what)  PROVE Waits(c, at, what) /\ Alone(c)
  BY <1>1, Proceeds DEF Waits, Alone
<1>2. ASSUME NEW out, Return(c, out)  PROVE Ended(c, out) /\ Alone(c)
  BY <1>2, Returns DEF Ended, Alone
<1> QED  BY <1>1, <1>2

\* A storage method is called.
LEMMA MethodCalled ==
    ASSUME CallsTyped, DrawnOnce, TokenInv, NEW c \in Clients, Moves(c), call[c].at \notin Busy,
           UNCHANGED tokenVars, NEW at, NEW what, Proceed(c, at, what), at = "each" => what.row \subseteq Tokens,
           NEW r \in SUBSET Tokens, NEW s \in {{}} \cup {{t} : t \in Tokens}, Work(c)' = Left(r, s)
    PROVE  TokenInv' /\ TraitMoves
<1>1. Waits(c, at, what) /\ Alone(c) /\ call[c].todo # << >>
  BY StepAlone DEF Moves
<1>2. Work(c) = Idle /\ Answered(c)' = Answered(c)
  BY <1>1, WorkNow, WorkNext
<1>3. tokens' = tokens /\ family' = family /\ owned' = owned
  BY DEF tokenVars
<1>4. Trait!Called(c)
  BY <1>1, <1>2, <1>3, TraitCalled
<1>5. TokenInv'
  BY <1>1, <1>3, TokensFrame DEF Waits, TokenInv, TokensTyped
<1> QED  BY <1>4, <1>5 DEF TraitMoves, Trait!Next

\* A step the trait does not see.
LEMMA MethodRests ==
    ASSUME CallsTyped, DrawnOnce, TokenInv, NEW c \in Clients, Moves(c), tokens' = tokens,
           family' \subseteq Tokens, owned' \subseteq Tokens,
           NEW at, NEW what, Proceed(c, at, what), at # "each", Work(c)' = Work(c)
    PROVE  TokenInv' /\ TraitMoves
<1>1. Waits(c, at, what) /\ Alone(c) /\ call[c].todo # << >>
  BY StepAlone DEF Moves
<1>2. Answered(c)' = Answered(c)
  BY <1>1, WorkNext
<1>3. UNCHANGED Trait!contract
  BY <1>1, <1>2, TraitStutters
<1>4. TokenInv'
  BY <1>1, TokensFrame DEF Waits, TokenInv, TokensTyped
<1> QED  BY <1>3, <1>4 DEF TraitMoves

\* A call ends that has failed or has nothing left to do.
LEMMA MethodReturns ==
    ASSUME CallsTyped, DrawnOnce, TokenInv, NEW c \in Clients, Moves(c), tokens' = tokens,
           family' \subseteq Tokens, owned' \subseteq Tokens, Alone(c),
           NEW out, Ended(c, out), out \in Successes => Work(c) = Left({}, {})
    PROVE  TokenInv' /\ TraitMoves
<1>1. Work(c)' = Idle /\ Answered(c)' = (out \in Successes)
  BY WorkDone
<1>4. TokenInv'
  BY TokensFrame DEF Ended, TokenInv, TokensTyped
<1>2. CASE out \notin Successes
  <2>1. Trait!Returned(c)
    BY <1>1, <1>2, TraitReturns
  <2> QED  BY <2>1, <1>4 DEF TraitMoves, Trait!Next
<1>3. CASE out \in Successes
  <2>1. tokens' = Trait!After(tokens, {}, {})
    BY RevokedIs DEF TokenInv
  <2>2. PICK none : none = {}
    OBVIOUS
  <2>3. Work(c) = Left(none, none) /\ tokens' = Trait!After(tokens, none, none) /\ \A t \in none : tokens[t] = "absent"
    BY <1>3, <2>1, <2>2
  <2>4. Trait!Commit(c)
    BY <1>1, <1>3, <2>3, TraitCommits
  <2> QED  BY <1>4, <2>4 DEF TraitMoves, Trait!Next
<1> QED  BY <1>2, <1>3

\* A call revokes what it has to, stores what it has to, and returns.
LEMMA MethodDone ==
    ASSUME CallsTyped, DrawnOnce, TokenInv, NEW c \in Clients, Moves(c), NEW out \in Successes, Return(c, out),
           UNCHANGED <<family, owned>>, NEW R \in SUBSET Tokens, NEW S, Work(c) = Left(R, S),
           \/ S = {} /\ tokens' = Revoked(R)
           \/ \E t \in Tokens : /\ S = {t} /\ TokenId(t) \in Made(Arg(c)) /\ call[c].at \notin MadePlaces
                                /\ tokens' = [Revoked(R) EXCEPT ![t] = "valid"]
    PROVE  TokenInv' /\ TraitMoves
<1>1. Ended(c, out) /\ Alone(c) /\ call[c].todo # << >>
  BY StepAlone DEF Moves
<1>2. Work(c)' = Idle /\ Answered(c)'
  BY <1>1, WorkDone
<1>3. TokensTyped /\ call'[c].at = "idle"
  BY <1>1 DEF TokenInv, Ended
<1>4. CASE S = {} /\ tokens' = Revoked(R)
  <2>1. tokens' = Trait!After(tokens, R, {}) /\ \A t \in S : tokens[t] = "absent"
    BY <1>3, <1>4, RevokedIs
  <2>2. Trait!Commit(c)
    BY <1>1, <1>2, <1>4, <2>1, TraitCommits
  <2>3. TokenInv'
    BY <1>3, <1>4, RevokedIs, TokensFrame DEF TokensTyped
  <2> QED  BY <2>2, <2>3 DEF TraitMoves, Trait!Next
<1>5. ASSUME NEW t \in Tokens, S = {t}, TokenId(t) \in Made(Arg(c)), call[c].at \notin MadePlaces,
             tokens' = [Revoked(R) EXCEPT ![t] = "valid"]
      PROVE  TokenInv' /\ TraitMoves
  <2>1. ToBeMade(TokenId(t)) /\ ~ToBeMade(TokenId(t))'
    BY <1>1, <1>3, <1>5, AboutToMake, Drawn
  <2>2. \A u \in S : tokens[u] = "absent"
    BY <1>5, <2>1 DEF TokenInv, TokensKnown
  <2>3. tokens' = Trait!After(tokens, R, S)
    BY <1>3, <1>5, StoredIs
  <2>4. Trait!Commit(c)
    BY <1>1, <1>2, <2>2, <2>3, TraitCommits
  <2>5. \A u \in Tokens : ToBeMade(TokenId(u))' => (tokens[u] = "absent" => tokens'[u] = "absent")
    BY <1>3, <1>5, <2>1, StoredIs
  <2>6. tokens' \in [Tokens -> {"absent", "valid", "revoked"}] /\ family' \subseteq Tokens /\ owned' \subseteq Tokens
    BY <1>3, <1>5, StoredIs DEF TokensTyped
  <2>7. TokenInv'
    BY <1>3, <2>5, <2>6, TokensFrame
  <2> QED  BY <2>4, <2>7 DEF TraitMoves, Trait!Next
<1> QED  BY <1>4, <1>5

\* Tokens have been revoked and the call goes on, outside a transaction.
LEMMA MethodRevokes ==
    ASSUME CallsTyped, DrawnOnce, TokenInv, NEW c \in Clients, Moves(c), ~RefreshStorage.transaction,
           UNCHANGED <<family, owned>>, NEW r, tokens' = Revoked(r),
           NEW at, NEW what, Proceed(c, at, what), at = "each" => what.row \subseteq Tokens
    PROVE  TokenInv' /\ TraitMoves
<1>1. Waits(c, at, what) /\ Alone(c) /\ call[c].todo # << >> /\ TokensTyped
  BY StepAlone DEF Moves, TokenInv
<1>2. TokenInv'
  BY <1>1, RevokedIs, TokensFrame DEF Waits, TokensTyped
<1> QED  BY <1>2 DEF TraitMoves

\* The token is stored, and the sets of Redis are next.
LEMMA MethodStores ==
    ASSUME CallsTyped, DrawnOnce, TokenInv, NEW c \in Clients, Moves(c), ~RefreshStorage.transaction,
           UNCHANGED <<family, owned>>, NEW t \in Tokens, TokenId(t) \in Made(Arg(c)),
           call[c].at \notin MadePlaces, tokens' = [tokens EXCEPT ![t] = "valid"], Proceed(c, "sadd_family", Unread)
    PROVE  TokenInv' /\ TraitMoves
<1>1. Waits(c, "sadd_family", Unread) /\ Alone(c) /\ call[c].todo # << >> /\ TokensTyped /\ call'[c].at = "sadd_family"
  BY StepAlone DEF Moves, TokenInv, Waits
<1>2. ToBeMade(TokenId(t)) /\ ~ToBeMade(TokenId(t))'
  BY <1>1, AboutToMake, Drawn DEF MadePlaces
<1>3. \A u \in Tokens : ToBeMade(TokenId(u))' => (tokens[u] = "absent" => tokens'[u] = "absent")
  BY <1>1, <1>2 DEF TokensTyped
<1>4. tokens' \in [Tokens -> {"absent", "valid", "revoked"}] /\ family' \subseteq Tokens /\ owned' \subseteq Tokens
  BY <1>1 DEF TokensTyped
<1>5. TokenInv'
  BY <1>1, <1>3, <1>4, TokensFrame
<1> QED  BY <1>5 DEF TraitMoves

LEMMA StoreKeeps ==
    ASSUME CallsTyped, DrawnOnce, TokenInv, NEW c \in Clients, Moves(c), NEW op \in {"issue", "refresh"}, NEW t \in Tokens,
           t = (IF op = "issue" THEN Arg(c).id ELSE Arg(c).new), NEW done \in Successes, store(c, op, "store", t, done)
    PROVE  TokenInv' /\ TraitMoves
<1>1. call[c].todo # << >> /\ Arg(c).op = op
  BY DEF store, Doing, Arg
<1>2. CASE Doing(c, op, "store")
  <2>1. call[c].at = "store" /\ call[c].at \notin MadePlaces
    BY <1>2 DEF Doing, MadePlaces
  <2>2. Work(c) = Left({}, {t})
    BY <1>1, <2>1, WorkNow
  <2>3. TokenId(t) \in Made(Arg(c))
    BY <1>1 DEF Made, TokenId
  <2>4. tokens' = [tokens EXCEPT ![t] = "valid"] /\ UNCHANGED <<family, owned>>
    BY <1>2 DEF store, Doing, Tables
  <2>5. CASE RefreshStorage.indexed
    <3>1. Proceed(c, "sadd_family", Unread) /\ ~RefreshStorage.transaction
      BY <1>2, <2>5, Storages DEF store, Doing
    <3> QED  BY <2>1, <2>3, <2>4, <3>1, MethodStores
  <2>6. CASE ~RefreshStorage.indexed
    <3>1. Return(c, done)
      BY <1>2, <2>6 DEF store, Doing
    <3>2. tokens' = [Revoked({}) EXCEPT ![t] = "valid"]
      BY <2>4, RevokedIs DEF TokenInv
    <3>3. PICK none \in SUBSET Tokens : none = {}
      OBVIOUS
    <3>4. PICK new : new = {t}
      OBVIOUS
    <3>5. Work(c) = Left(none, new) /\ tokens' = [Revoked(none) EXCEPT ![t] = "valid"]
      BY <2>2, <3>2, <3>3, <3>4
    <3>6. \E u \in Tokens : /\ new = {u} /\ TokenId(u) \in Made(Arg(c)) /\ call[c].at \notin MadePlaces
                            /\ tokens' = [Revoked(none) EXCEPT ![u] = "valid"]
      BY <2>1, <2>3, <3>3, <3>4, <3>5
    <3> QED  BY <2>4, <3>1, <3>5, <3>6, MethodDone
  <2> QED  BY <2>5, <2>6
<1>3. CASE Doing(c, op, "sadd_family")
  <2>1. /\ family' = family \cup {t} /\ Proceed(c, "sadd_user", Unread) /\ tokens' = tokens /\ owned' = owned
        /\ call[c].at = "sadd_family"
    BY <1>3 DEF store, Doing
  <2>2. Work(c) = Left({}, {}) /\ Work(c)' = Left({}, {})
    BY <1>1, <2>1, StepAlone, WorkNow, WorkNext
  <2>3. family' \subseteq Tokens /\ owned' \subseteq Tokens
    BY <2>1 DEF TokenInv, TokensTyped
  <2> QED  BY <2>1, <2>2, <2>3, MethodRests
<1>4. CASE Doing(c, op, "sadd_user")
  <2>1. owned' = owned \cup {t} /\ Return(c, done) /\ tokens' = tokens /\ family' = family /\ call[c].at = "sadd_user"
    BY <1>4 DEF store, Doing
  <2>2. Work(c) = Left({}, {})
    BY <1>1, <2>1, WorkNow
  <2>3. family' \subseteq Tokens /\ owned' \subseteq Tokens
    BY <2>1 DEF TokenInv, TokensTyped
  <2> QED  BY <2>1, <2>2, <2>3, StepAlone, MethodReturns
<1> QED  BY <1>2, <1>3, <1>4 DEF store

LEMMA RevokeEachKeeps ==
    ASSUME CallsTyped, DrawnOnce, TokenInv, NEW c \in Clients, Moves(c), NEW op, NEW done \in Successes,
           revoke_each(c, op, done)
    PROVE  TokenInv' /\ TraitMoves
<1>1. call[c].todo # << >> /\ call[c].at = "each" /\ UNCHANGED <<family, owned>>
  BY DEF revoke_each, Doing, Tables
<1>2. PICK R \in SUBSET Tokens : R = Seen(c).row /\ Work(c) = Left(R, {})
  BY <1>1, WorkNow DEF TokenInv, TokensTyped
<1>3. CASE RefreshStorage.indexed /\ R # {}
  <2>1. PICK t \in R : tokens' = Revoked({t}) /\ Proceed(c, "each", [row |-> R \ {t}])
    BY <1>2, <1>3 DEF revoke_each
  <2>2. PICK what : what = [row |-> R \ {t}]
    OBVIOUS
  <2>3. Proceed(c, "each", what) /\ what.row = R \ {t} /\ what.row \subseteq Tokens
    BY <1>2, <2>1, <2>2
  <2>4. ~RefreshStorage.transaction
    BY <1>3, Storages
  <2> QED  BY <1>1, <2>1, <2>3, <2>4, MethodRevokes
<1>4. CASE ~(RefreshStorage.indexed /\ R # {})
  <2>1. tokens' = Revoked(R) /\ Return(c, done)
    BY <1>2, <1>4 DEF revoke_each
  <2> QED  BY <1>1, <1>2, <2>1, MethodDone
<1> QED  BY <1>3, <1>4

\* DELETE of what has expired.
LEMMA CleanupKeeps ==
    ASSUME CallsTyped, DrawnOnce, TokenInv, NEW c \in Clients, Moves(c), cleanup_expired(c)
    PROVE  TokenInv' /\ TraitMoves
<1>1. /\ call[c].at = "idle" /\ call[c].todo # << >> /\ Ended(c, "ok") /\ Alone(c)
      /\ family' = family /\ owned' = owned /\ TokensTyped
  BY StepAlone DEF cleanup_expired, Doing, Tables, TokenInv
<1>2. /\ tokens' \in [Tokens -> {"absent", "valid", "revoked"}]
      /\ \A t \in Tokens : tokens'[t] \in {tokens[t], "absent"}
  BY <1>1 DEF cleanup_expired, TokensTyped
<1>3. Work(c) = Idle /\ Work(c)' = Idle /\ ~Answered(c)'
  <2>1. Work(c) = Idle
    BY <1>1, NotBusy, WorkNow
  <2>2. Work(c)' = Idle /\ Answered(c)' = ("ok" \in Successes)
    BY <1>1, WorkDone
  <2> QED  BY <2>1, <2>2 DEF Successes
<1>4. TokenInv'
  BY <1>1, <1>2, TokensFrame DEF Ended, TokensTyped
<1>5. /\ \A d \in Clients \ {c} : Work(d)' = Work(d) /\ Answered(d)' = Answered(d)
      /\ RefreshStorage.transaction' = RefreshStorage.transaction
  BY <1>1, OthersStay
<1>6. [x \in Clients |-> Work(x)]' = [x \in Clients |-> Work(x)] /\ ~[x \in Clients |-> Work(x)][c].busy
  <2>1. \A d \in Clients : Work(d)' = Work(d)
    BY <1>3, <1>5
  <2>2. ~Work(c).busy
    BY <1>3 DEF Idle
  <2> QED  BY <2>1, <2>2
<1>7. [x \in Clients |-> call[x].out \in {"stored", "revoked", "rotated", "reuse"}]'
        = [[x \in Clients |-> call[x].out \in {"stored", "revoked", "rotated", "reuse"}] EXCEPT ![c] = FALSE]
  <2>1. (call'[c].out \in {"stored", "revoked", "rotated", "reuse"}) = FALSE
    BY <1>3 DEF Answered, Successes
  <2>2. \A d \in Clients \ {c} : (call'[d].out \in {"stored", "revoked", "rotated", "reuse"})
                                   = (call[d].out \in {"stored", "revoked", "rotated", "reuse"})
    BY <1>5 DEF Answered, Successes
  <2> QED  BY <2>1, <2>2
<1>8. Trait!Expired
  BY <1>2, <1>5, <1>6, <1>7 DEF Trait!Expired
<1> QED  BY <1>4, <1>8 DEF TraitMoves, Trait!Next

LEMMA RefreshKeeps ==
    ASSUME CallsTyped, DrawnOnce, TokenInv, NEW c \in Clients, Moves(c), refresh(c)
    PROVE  TokenInv' /\ TraitMoves
<1>1. ASSUME NEW at, Doing(c, "refresh", at)
      PROVE  /\ call[c].todo # << >> /\ Arg(c).op = "refresh" /\ call[c].at = at
             /\ Arg(c).id \in Tokens /\ Arg(c).new \in Tokens /\ TokenId(Arg(c).new) \in Made(Arg(c))
  <2>1. call[c].todo # << >> /\ Arg(c).op = "refresh" /\ call[c].at = at
    BY <1>1 DEF Doing, Arg
  <2>2. Arg(c) \in Operations /\ Arg(c).op \in TokenOps
    BY <2>1, CallTyped DEF TokenOps
  <2> QED  BY <2>1, <2>2, CallCarries DEF Made, TokenId
<1>2. PICK old, new : old = Arg(c).id /\ new = Arg(c).new
  OBVIOUS
<1>3. CASE Doing(c, "refresh", "idle") /\ UNCHANGED tokenVars
  <2>1. call[c].at \notin Busy /\ Work(c) = Idle
    BY <1>1, <1>3, NotBusy, WorkNow
  <2>2. tokens' = tokens /\ family' \subseteq Tokens /\ owned' \subseteq Tokens
    BY <1>3 DEF tokenVars, TokenInv, TokensTyped
  <2>3. CASE Return(c, "Invalid")
    BY <2>2, <2>3, StepAlone, MethodReturns DEF Successes
  <2>4. CASE Proceed(c, "reuse", Unread)
    <3>1. Work(c)' = Idle
      BY <1>1, <1>3, <2>4, NotBusy, StepAlone, WorkNext
    <3> QED  BY <2>1, <2>2, <2>4, <3>1, MethodRests
  <2>5. CASE Proceed(c, "rotate", Unread)
    <3>1. Work(c)' = Left({old}, {new}) /\ old \in Tokens /\ new \in Tokens
      BY <1>1, <1>2, <1>3, <2>5, StepAlone, WorkNext
    <3>2. PICK r \in SUBSET Tokens : r = {old}
      BY <3>1
    <3>3. PICK s \in {{}} \cup {{t} : t \in Tokens} : s = {new}
      BY <3>1
    <3> QED  BY <1>3, <2>1, <2>5, <3>1, <3>2, <3>3, MethodCalled
  <2>6. CASE refresh(c) /\ ~(Return(c, "Invalid") \/ Proceed(c, "reuse", Unread) \/ Proceed(c, "rotate", Unread))
    BY <1>1, <1>3, <2>6 DEF refresh, revoke_each, rotate_in_transaction, rotate_in_pieces, store, Doing
  <2> QED  BY <2>3, <2>4, <2>5, <2>6
<1>4. CASE Doing(c, "refresh", "reuse") /\ Proceed(c, "each", Members(family)) /\ UNCHANGED tokenVars
  <2>1. PICK what : what = Members(family)
    OBVIOUS
  <2>2. what.row \subseteq Tokens /\ Proceed(c, "each", what)
    BY <1>4, <2>1 DEF Members, TokenInv, TokensTyped
  <2>3. Work(c)' = Left(what.row, {}) /\ call[c].at \notin Busy
    BY <1>1, <1>4, <2>2, NotBusy, StepAlone, WorkNext
  <2> QED  BY <1>4, <2>2, <2>3, MethodCalled
<1>5. CASE revoke_each(c, "refresh", "reuse")
  BY <1>5, RevokeEachKeeps DEF Successes
<1>6. CASE rotate_in_transaction(c)
  <2>0. RefreshStorage.transaction /\ UNCHANGED <<family, owned>> /\ family' \subseteq Tokens /\ owned' \subseteq Tokens
    BY <1>6 DEF rotate_in_transaction, Tables, TokenInv, TokensTyped
  <2>1. CASE Doing(c, "refresh", "rotate") \/ Doing(c, "refresh", "tx_insert")
    <3>1. PICK at \in {"tx_insert", "tx_commit"} : Proceed(c, at, Unread) /\ tokens' = tokens
      BY <1>6, <2>1 DEF rotate_in_transaction, tx_revoke, Doing
    <3>2. Work(c)' = Work(c)
      BY <1>1, <2>1, <3>1, StepAlone, WorkNow, WorkNext
    <3> QED  BY <2>0, <3>1, <3>2, MethodRests
  <2>2. CASE Doing(c, "refresh", "tx_commit")
    <3>1. tokens' = [Revoked({old}) EXCEPT ![new] = "valid"] /\ Return(c, "rotated")
      BY <1>2, <1>6, <2>2 DEF rotate_in_transaction, Doing
    <3>2. Work(c) = Left({old}, {new}) /\ old \in Tokens /\ new \in Tokens /\ TokenId(new) \in Made(Arg(c))
      BY <1>1, <1>2, <2>2, WorkNow
    <3>3. PICK r \in SUBSET Tokens : r = {old}
      BY <3>2
    <3>4. PICK s : s = {new}
      OBVIOUS
    <3>5. call[c].at \notin MadePlaces
      BY <1>1, <2>2 DEF MadePlaces
    <3>6. Work(c) = Left(r, s) /\ "rotated" \in Successes
      BY <3>2, <3>3, <3>4 DEF Successes
    <3>7. \E t \in Tokens : /\ s = {t} /\ TokenId(t) \in Made(Arg(c)) /\ call[c].at \notin MadePlaces
                            /\ tokens' = [Revoked(r) EXCEPT ![t] = "valid"]
      BY <2>0, <3>1, <3>2, <3>3, <3>4, <3>5
    <3> QED  BY <2>0, <3>1, <3>6, <3>7, MethodDone
  <2> QED  BY <1>6, <2>1, <2>2 DEF rotate_in_transaction
<1>7. CASE rotate_in_pieces(c)
  <2>1. CASE Doing(c, "refresh", "rotate")
    <3>1. /\ ~RefreshStorage.transaction /\ tokens' = Revoked({old}) /\ Proceed(c, "store", Unread)
          /\ UNCHANGED <<family, owned>>
      BY <1>2, <1>7, <2>1 DEF rotate_in_pieces, store, Doing, Tables
    <3> QED  BY <3>1, MethodRevokes
  <2>2. CASE store(c, "refresh", "store", new, "rotated")
    <3>1. new \in Tokens
      BY <1>1, <1>2, <2>2 DEF store
    <3> QED  BY <1>2, <2>2, <3>1, StoreKeeps DEF Successes
  <2> QED  BY <1>2, <1>7, <2>1, <2>2 DEF rotate_in_pieces
<1> QED  BY <1>3, <1>4, <1>5, <1>6, <1>7 DEF refresh

\* A step of the refresh token storage.
LEMMA TokensStepKeeps ==
    ASSUME CallsTyped, DrawnOnce, TokenInv, NEW c \in Clients, Moves(c), TokensStep(c)
    PROVE  TokenInv' /\ TraitMoves
<1>1. ASSUME NEW op \in TokenOps, NEW at, Doing(c, op, at)
      PROVE  call[c].todo # << >> /\ Arg(c).op = op /\ call[c].at = at /\ Arg(c).id \in Tokens
  <2>1. call[c].todo # << >> /\ Arg(c).op = op /\ call[c].at = at
    BY <1>1 DEF Doing, Arg
  <2> QED  BY <2>1, CallTyped, CallCarries
<1>2. ASSUME NEW op \in TokenOps, Doing(c, op, "idle"), UNCHANGED tokenVars, NEW what, what.row \subseteq Tokens,
             Proceed(c, "each", what)
      PROVE  TokenInv' /\ TraitMoves
  <2>1. Work(c)' = Left(what.row, {}) /\ call[c].at \notin Busy
    BY <1>1, <1>2, NotBusy, StepAlone, WorkNext
  <2> QED  BY <1>2, <2>1, MethodCalled
<1>3. CASE issue(c)
  <2>1. CASE Doing(c, "issue", "idle") /\ Proceed(c, "store", Unread) /\ UNCHANGED tokenVars
    <3>1. PICK t \in Tokens : t = Arg(c).id
      BY <1>1, <2>1 DEF TokenOps
    <3>2. Work(c)' = Left({}, {t}) /\ call[c].at \notin Busy
      BY <1>1, <2>1, <3>1, NotBusy, StepAlone, WorkNext DEF TokenOps
    <3>3. PICK s \in {{}} \cup {{u} : u \in Tokens} : s = {t}
      OBVIOUS
    <3> QED  BY <2>1, <3>2, <3>3, MethodCalled
  <2>2. CASE store(c, "issue", "store", Arg(c).id, "stored")
    <3>1. Arg(c).id \in Tokens
      BY <1>1, <2>2 DEF store, TokenOps
    <3>2. PICK t \in Tokens : t = Arg(c).id
      BY <3>1
    <3> QED  BY <2>2, <3>2, StoreKeeps DEF Successes
  <2> QED  BY <1>3, <2>1, <2>2 DEF issue
<1>4. CASE revoke(c)
  <2>1. CASE Doing(c, "revoke", "idle") /\ Proceed(c, "each", [row |-> {Arg(c).id}]) /\ UNCHANGED tokenVars
    BY <1>1, <1>2, <2>1 DEF TokenOps
  <2> QED  BY <1>4, <2>1, RevokeEachKeeps DEF revoke, Successes
<1>5. \A set \in {family, owned} : Members(set).row \subseteq Tokens
  BY DEF Members, TokenInv, TokensTyped
<1>6. CASE revoke_family(c)
  <2>1. CASE Doing(c, "revoke_family", "idle") /\ Proceed(c, "each", Members(family)) /\ UNCHANGED tokenVars
    BY <1>2, <1>5, <2>1 DEF TokenOps
  <2> QED  BY <1>6, <2>1, RevokeEachKeeps DEF revoke_family, Successes
<1>7. CASE revoke_all_for_user(c)
  <2>1. CASE Doing(c, "revoke_all", "idle") /\ Proceed(c, "each", Members(owned)) /\ UNCHANGED tokenVars
    BY <1>2, <1>5, <2>1 DEF TokenOps
  <2> QED  BY <1>7, <2>1, RevokeEachKeeps DEF revoke_all_for_user, Successes
<1> QED  BY <1>3, <1>4, <1>6, <1>7, RefreshKeeps, CleanupKeeps DEF TokensStep

\* The answers of the other services are none of the trait's.
LEMMA OthersAnswer ==
    ASSUME NEW c \in Clients, AccountsStep(c) \/ LockoutStep(c) \/ KeysStep(c) \/ SessionStep(c)
    PROVE  (\E at, what : Proceed(c, at, what)) \/ (\E out : out \notin Successes /\ Return(c, out))
<1> USE DEF Successes
<1>1. ASSUME NEW i, NEW row, NEW names, update(c, i, row, names)  PROVE \E out : out \notin Successes /\ Return(c, out)
  BY <1>1 DEF update
<1>2. CASE create_account(c) \/ get_account(c) \/ delete_account(c)
  BY <1>2 DEF create_account, get_account, delete_account
<1>3. CASE update_account(c)
  BY <1>1, <1>3 DEF update_account, LoadRow
<1>4. CASE verify_email(c)
  BY <1>1, <1>4 DEF verify_email
<1>5. CASE change_password(c)
  BY <1>1, <1>5 DEF change_password, LoadRow
<1>6. CASE \E op \in DOMAIN Transitions : transition(c, op)
  BY <1>6 DEF transition
<1>7. CASE middleware(c) \/ unlock(c)
  BY <1>7 DEF middleware, unlock
<1>8. CASE handler(c)
  <2>1. PICK r : r = authenticate(Email(Arg(c).identity), Arg(c).password)
    OBVIOUS
  <2>2. r \in {"NotFound", "AccountInactive", "InvalidCredentials", "ok"}
    BY <2>1 DEF authenticate
  <2>3. (\E at, what : Proceed(c, at, what)) \/ Return(c, r)
    BY <1>8, <2>1 DEF handler
  <2> QED  BY <2>2, <2>3
<1>9. CASE record_failure(c)
  BY <1>9 DEF record_failure
<1>10. CASE record_success(c)
  BY <1>10 DEF record_success
<1>11. CASE create(c) \/ get_by_prefix(c) \/ get_by_key(c) \/ update_last_used(c)
  BY <1>11 DEF create, get_by_prefix, get_by_key, update_last_used
<1>12. CASE revoke_key(c) \/ delete(c)
  BY <1>12 DEF revoke_key, delete
<1>13. CASE create_state(c) \/ validate_state(c)
  BY <1>13 DEF create_state, validate_state
<1>14. ASSUME NEW op, load_record(c, op)  PROVE \E at, what : Proceed(c, at, what)
  BY <1>14 DEF load_record
<1>15. CASE login_session(c) \/ renew(c) \/ destroy(c)
  BY <1>14, <1>15 DEF login_session, renew, destroy, regenerate_id, forget, leave, save_record
<1>16. CASE logout(c) \/ clear(c) \/ regenerate(c)
  BY <1>14, <1>16 DEF logout, clear, regenerate, save_record
<1>17. CASE get_or_create(c)
  BY <1>14, <1>17 DEF get_or_create, save_record
<1>18. CASE csrf_middleware(c)
  BY <1>14, <1>18 DEF csrf_middleware, save_record
<1> QED  BY <1>2, <1>3, <1>4, <1>5, <1>6, <1>7, <1>8, <1>9, <1>10, <1>11, <1>12, <1>13, <1>15, <1>16, <1>17, <1>18
         DEF AccountsStep, LockoutStep, KeysStep, SessionStep

\* A step of another service: the trait sees at most that a call has ended.
LEMMA TokensAside ==
    ASSUME CallsTyped, DrawnOnce, TokenInv, NEW c \in Clients, Moves(c), UNCHANGED tokenVars,
           AccountsStep(c) \/ LockoutStep(c) \/ KeysStep(c) \/ SessionStep(c)
    PROVE  TokenInv' /\ TraitMoves
<1>1. tokens' = tokens /\ family' \subseteq Tokens /\ owned' \subseteq Tokens
  BY DEF tokenVars, TokenInv, TokensTyped
<1>2. ASSUME NEW ops, NEW places, OfService(c, ops, places), Apart(ops, places, TokenOps, TokenPlaces)
      PROVE  /\ call[c].at \notin TokenPlaces
             /\ \A at, what : Proceed(c, at, what) => at \notin TokenPlaces
  <2>1. call[c].at \notin TokenPlaces
    BY <1>2, WhereInCall DEF OfService, InPlace, Apart
  <2>2. ASSUME NEW at, NEW what, Proceed(c, at, what)  PROVE at \notin TokenPlaces
    <3>1. call'[c].at = at
      BY <2>2, StepAlone DEF Waits
    <3>2. ASSUME NEW p \in places, NEW w, Proceed(c, p, w)  PROVE at \notin TokenPlaces
      <4>1. call'[c].at = p
        BY <3>2, StepAlone DEF Waits
      <4> QED  BY <1>2, <3>1, <4>1 DEF Apart
    <3>3. ASSUME NEW out, Return(c, out)  PROVE at \notin TokenPlaces
      <4>1. call'[c].at = "idle"
        BY <3>3, StepAlone DEF Ended
      <4> QED  BY <1>2, <3>1, <4>1 DEF Apart
    <3> QED  BY <1>2, <3>2, <3>3 DEF OfService
  <2> QED  BY <2>1, <2>2
<1>3. /\ call[c].at \notin TokenPlaces
      /\ \A at, what : Proceed(c, at, what) => at \notin TokenPlaces
  <2>1. CASE AccountsStep(c)
    <3>1. Apart(AccountOps, AccountPlaces, TokenOps, TokenPlaces)
      BY ServicesApart DEF Apart
    <3> QED  BY <1>2, <2>1, <3>1, AccountsOfService
  <2>2. CASE LockoutStep(c)
    <3>1. Apart(LockoutOps, LockoutPlaces, TokenOps, TokenPlaces)
      BY ServicesApart DEF Apart
    <3> QED  BY <1>2, <2>2, <3>1, LockoutOfService
  <2>3. CASE KeysStep(c)
    <3>1. Apart(KeyOps, KeyPlaces, TokenOps, TokenPlaces)
      BY ServicesApart DEF Apart
    <3> QED  BY <1>2, <2>3, <3>1, KeysOfService
  <2>4. CASE SessionStep(c)
    <3>1. Apart(SessionOps, SessionPlaces, TokenOps, TokenPlaces)
      BY ServicesApart DEF Apart
    <3> QED  BY <1>2, <2>4, <3>1, SessionsOfService
  <2> QED  BY <2>1, <2>2, <2>3, <2>4
<1>4. Busy \subseteq TokenPlaces /\ "each" \in TokenPlaces /\ call[c].todo # << >>
  BY DEF Busy, TokenPlaces, Moves
<1>5. Work(c) = Idle
  BY <1>3, <1>4, WorkNow
<1>6. ASSUME NEW at, NEW what, Proceed(c, at, what)  PROVE TokenInv' /\ TraitMoves
  <2>1. at \notin Busy /\ at # "each"
    BY <1>3, <1>4, <1>6
  <2>2. Work(c)' = Idle
    BY <1>4, <1>6, <2>1, StepAlone, WorkNext
  <2> QED  BY <1>1, <1>5, <1>6, <2>1, <2>2, MethodRests
<1>7. ASSUME NEW out, out \notin Successes, Return(c, out)  PROVE TokenInv' /\ TraitMoves
  BY <1>1, <1>7, StepAlone, MethodReturns
<1> QED  BY <1>6, <1>7, OthersAnswer

\* Tokens expire, and nothing is called.
LEMMA ClockKeeps ==
    ASSUME TokenInv, UNCHANGED <<load, call>>, family' = family, owned' = owned,
           tokens' \in [Tokens -> {"absent", "valid", "revoked"}],
           \A t \in Tokens : tokens'[t] \in {tokens[t], "absent"}
    PROVE  TokenInv' /\ TraitMoves
<1>1. /\ [x \in Clients |-> Work(x)]' = [x \in Clients |-> Work(x)]
      /\ RefreshStorage.transaction' = RefreshStorage.transaction
  BY DEF Work, Arg, Seen, RefreshStorage
<1>2. [x \in Clients |-> call[x].out \in {"stored", "revoked", "rotated", "reuse"}]'
        = [x \in Clients |-> call[x].out \in {"stored", "revoked", "rotated", "reuse"}]
  OBVIOUS
<1>3. Trait!Expired
  BY <1>1, <1>2 DEF Trait!Expired
<1>4. \A r : ToBeMade(r)' => ToBeMade(r)
  BY DEF ToBeMade, Made
<1>5. TokenInv'
  BY <1>4 DEF TokenInv, TokensKnown, TokensTyped, Seen
<1> QED  BY <1>3, <1>5 DEF TraitMoves, Trait!Next

LEMMA TokenInvInductive ==
    /\ Init => TokenInv /\ Trait!Init
    /\ CallsTyped /\ DrawnOnce /\ TokenInv /\ [Next]_vars => TokenInv' /\ TraitMoves
<1>1. ASSUME Init  PROVE TokenInv /\ Trait!Init
  <2>1. PICK w \in Workloads : CallInit(w) /\ TokensInit(w.tokens)
    BY <1>1 DEF Init
  <2>2. /\ w.tokens \subseteq Tokens /\ tokens = [t \in Tokens |-> IF t \in w.tokens THEN "valid" ELSE "absent"]
        /\ family = w.tokens /\ owned = w.tokens
        /\ \A c \in Clients : call[c].at = "idle" /\ call[c].todo = w.calls[c] /\ call[c].out = "none"
    BY <2>1, WorkloadsAssumption DEF CallInit, TokensInit
  <2>3. ASSUME NEW t \in w.tokens, ToBeMade(TokenId(t))  PROVE FALSE
    <3>0. PICK c \in Clients : \E i \in 1 .. Len(w.calls[c]) : TokenId(t) \in Made(w.calls[c][i])
      BY <2>2, <2>3 DEF ToBeMade
    <3>1. PICK i \in 1 .. Len(w.calls[c]) : TokenId(t) \in Made(w.calls[c][i])
      BY <3>0
    <3>2. PICK r : r = TokenId(t) /\ r \in Made(w.calls[c][i])
      BY <3>1
    <3>3. r[1] = "token" /\ r[2] = t
      BY <3>2 DEF TokenId
    <3> QED  BY <2>3, <3>2, <3>3, WorkloadsAssumption
  <2>4. TokenInv
    BY <2>2, <2>3 DEF TokenInv, TokensKnown, TokensTyped
  <2>5. CallsTyped
    BY <1>1, CallsTypedInductive
  <2>6. \A c \in Clients : Work(c) = Idle
    BY <2>2, <2>5, NotBusy, WorkNow
  <2>7. [c \in Clients |-> Work(c)] = [c \in Clients |-> Trait!NoWork]
    BY <2>6 DEF Idle, Trait!NoWork
  <2>8. [c \in Clients |-> call[c].out \in {"stored", "revoked", "rotated", "reuse"}] = [c \in Clients |-> FALSE]
    <3>1. \A c \in Clients : (call[c].out \in {"stored", "revoked", "rotated", "reuse"}) = FALSE
      BY <2>2
    <3> QED  BY <3>1
  <2>9. RefreshStorage.transaction \in BOOLEAN
    BY Storages
  <2>10. tokens \in [Tokens -> {"absent", "valid", "revoked"}]
    BY <2>2
  <2> QED  BY <2>4, <2>7, <2>8, <2>9, <2>10 DEF Trait!Init
<1>2. ASSUME CallsTyped, DrawnOnce, TokenInv, NEW c \in Clients, Request(c)  PROVE TokenInv' /\ TraitMoves
  <2>1. Moves(c)
    BY <1>2, RequestMoves
  <2>2. CASE TokensStep(c)
    BY <1>2, <2>1, <2>2, TokensStepKeeps
  <2>3. CASE (AccountsStep(c) \/ LockoutStep(c) \/ KeysStep(c) \/ SessionStep(c)) /\ UNCHANGED tokenVars
    BY <1>2, <2>1, <2>3, TokensAside
  <2> QED  BY <1>2, <2>2, <2>3 DEF Request, OnlyAccounts, OnlyKeys, OnlySessions
<1>3. ASSUME CallsTyped, DrawnOnce, TokenInv, NEW c \in Clients, Dropped(c)  PROVE TokenInv' /\ TraitMoves
  <2>1. Moves(c) /\ Ended(c, "aborted") /\ Alone(c)
    BY <1>3, DroppedMoves, Abandons DEF Dropped, Alone, Ended
  <2>2. tokens' = tokens /\ family' \subseteq Tokens /\ owned' \subseteq Tokens
    BY <1>3 DEF Dropped, tokenVars, TokenInv, TokensTyped
  <2> QED  BY <1>3, <2>1, <2>2, MethodReturns DEF Successes
<1>4. ASSUME TokenInv, UNCHANGED <<load, call>>, UNCHANGED tokenVars  PROVE TokenInv' /\ TraitMoves
  BY <1>4, ClockKeeps DEF tokenVars, TokenInv, TokensTyped
<1>5. ASSUME TokenInv, NEW t \in Tokens, TokenAges(t)  PROVE TokenInv' /\ TraitMoves
  <2>1. /\ tokens' \in [Tokens -> {"absent", "valid", "revoked"}]
        /\ \A u \in Tokens : tokens'[u] \in {tokens[u], "absent"}
    BY <1>5 DEF TokenAges, TokenInv, TokensTyped
  <2> QED  BY <1>5, <2>1, ClockKeeps DEF TokenAges, callVars
<1>6. ASSUME TokenInv, Clock \/ UNCHANGED vars  PROVE TokenInv' /\ TraitMoves
  <2>1. CASE UNCHANGED <<load, call>> /\ UNCHANGED tokenVars
    BY <1>4, <1>6, <2>1
  <2> QED  BY <1>5, <1>6, <2>1 DEF Clock, Elapse, KeyExpires, KeyExpired, StateExpires, OnlyAccounts, OnlyKeys, callVars, vars
<1> QED  BY <1>1, <1>2, <1>3, <1>6 DEF Next

\* The storage that rotates in a transaction, for any number of callers and
\* tokens, keeps the contract of the trait: each step of a call does all of
\* its work or none, and a rotation is seen as a whole or not at all.
THEOREM PgStorageImplementsTrait == Spec => PgImplementsTrait
<1>1. Init => CallsTyped /\ DrawnOnce /\ TokenInv /\ Trait!Init
  BY CallsTypedInductive, DrawnOnceInductive, TokenInvInductive
<1>2. CallsTyped /\ DrawnOnce /\ TokenInv /\ [Next]_vars => (CallsTyped /\ DrawnOnce /\ TokenInv)'
  BY CallsTypedInductive, DrawnOnceInductive, TokenInvInductive
<1>3. CallsTyped /\ DrawnOnce /\ TokenInv /\ [Next]_vars => [RefreshStorage.transaction => Trait!Next]_(Trait!contract)
  BY TokenInvInductive DEF TraitMoves
<1> QED  BY <1>1, <1>2, <1>3, PTL DEF Spec, PgImplementsTrait

-----------------------------------------------------------------------------
(* Rotations.                                                              *)

Rotating == {"rotate", "tx_insert", "tx_commit", "store"}

\* The token a rotation is for exists since before, and has been revoked when
\* the rotation comes to store the new one by itself.
RotationOf(c) ==
    call[c].at \in Rotating /\ Arg(c).op = "refresh" =>
        /\ ~ToBeMade(TokenId(Arg(c).id))
        /\ call[c].at = "store" => tokens[Arg(c).id] # "valid"

RotationInv == \A c \in Clients : RotationOf(c)

\* A token comes to be valid in this step.
Became(t) == tokens[t] # "valid" /\ tokens'[t] = "valid"

\* The rotation of c gives out its new token when the old one is spent.
SpentBefore(c) ==
    call[c].todo # << >> /\ Arg(c).op = "refresh" /\ Became(Arg(c).new) => tokens'[Arg(c).id] # "valid"

LEMMA RefreshCall ==
    ASSUME CallsTyped, NEW c \in Clients, call[c].todo # << >>, Arg(c).op = "refresh"
    PROVE  Arg(c).id \in Tokens /\ Arg(c).new \in Tokens /\ Made(Arg(c)) = {TokenId(Arg(c).new)}
<1>1. Arg(c) \in Operations /\ Arg(c).op \in TokenOps
  BY CallTyped DEF TokenOps
<1> QED  BY <1>1, CallCarries DEF Made, TokenId

\* Revoking makes no token valid.
LEMMA RevokedLess ==
    ASSUME TokensTyped, NEW S, NEW t \in Tokens, Revoked(S)[t] = "valid"
    PROVE  tokens[t] = "valid" /\ t \notin S
BY DEF Revoked, TokensTyped

\* Only a call that makes a token makes it valid.
LEMMA Storing ==
    ASSUME CallsTyped, TokensTyped, NEW c \in Clients, TokensStep(c), NEW t \in Tokens, Became(t)
    PROVE  /\ call[c].todo # << >> /\ call[c].at \notin MadePlaces /\ TokenId(t) \in Made(Arg(c))
           /\ Arg(c).op = "refresh" =>
                  \/ call[c].at = "tx_commit" /\ tokens' = [Revoked({Arg(c).id}) EXCEPT ![t] = "valid"]
                  \/ call[c].at = "store" /\ tokens' = [tokens EXCEPT ![t] = "valid"]
<1>1. ASSUME NEW S, tokens' = Revoked(S)  PROVE FALSE
  BY <1>1, RevokedLess DEF Became
<1>2. ~UNCHANGED tokens
  BY DEF Became
<1>3. ASSUME NEW op, NEW done, revoke_each(c, op, done)  PROVE FALSE
  BY <1>1, <1>3 DEF revoke_each
<1>4. ASSUME NEW op, NEW u, NEW done, store(c, op, "store", u, done)
      PROVE  /\ Doing(c, op, "store") /\ tokens' = [tokens EXCEPT ![u] = "valid"] /\ t = u
  BY <1>2, <1>4 DEF store, Became, TokensTyped
<1>5. CASE issue(c)
  <2>1. store(c, "issue", "store", Arg(c).id, "stored")
    BY <1>2, <1>5 DEF issue, tokenVars
  <2>2. Doing(c, "issue", "store") /\ t = Arg(c).id
    BY <1>4, <2>1
  <2> QED  BY <2>2 DEF Doing, Arg, Made, TokenId, MadePlaces
<1>6. CASE revoke(c) \/ revoke_family(c) \/ revoke_all_for_user(c)
  BY <1>2, <1>3, <1>6 DEF revoke, revoke_family, revoke_all_for_user, tokenVars
<1>7. CASE refresh(c)
  <2>1. CASE rotate_in_transaction(c)
    <3>1. /\ Doing(c, "refresh", "tx_commit")
          /\ tokens' = [Revoked({Arg(c).id}) EXCEPT ![Arg(c).new] = "valid"]
      BY <1>2, <2>1 DEF rotate_in_transaction, tx_revoke
    <3>2. call[c].todo # << >> /\ call[c].at = "tx_commit" /\ Arg(c).op = "refresh"
      BY <3>1 DEF Doing, Arg
    <3>3. t = Arg(c).new
      <4>1. Revoked({Arg(c).id}) \in [Tokens -> {"absent", "valid", "revoked"}]
        BY RevokedIs
      <4>2. t # Arg(c).new => Revoked({Arg(c).id})[t] = "valid"
        BY <3>1, <4>1 DEF Became
      <4> QED  BY <4>2, RevokedLess DEF Became
    <3> QED  BY <3>1, <3>2, <3>3, RefreshCall DEF MadePlaces
  <2>2. CASE rotate_in_pieces(c)
    <3>1. store(c, "refresh", "store", Arg(c).new, "rotated")
      BY <1>1, <2>2 DEF rotate_in_pieces
    <3>2. Doing(c, "refresh", "store") /\ tokens' = [tokens EXCEPT ![t] = "valid"] /\ t = Arg(c).new
      BY <1>4, <3>1
    <3>3. call[c].todo # << >> /\ call[c].at = "store" /\ Arg(c).op = "refresh"
      BY <3>2 DEF Doing, Arg
    <3> QED  BY <3>2, <3>3, RefreshCall DEF MadePlaces
  <2> QED  BY <1>2, <1>3, <1>7, <2>1, <2>2 DEF refresh, tokenVars
<1>8. CASE cleanup_expired(c)
  BY <1>8 DEF cleanup_expired, Became, TokensTyped
<1> QED  BY <1>5, <1>6, <1>7, <1>8 DEF TokensStep

\* Others than c stay as they are, and no token comes to be valid but one that
\* was still to be made.
LEMMA RotationFrame ==
    ASSUME CallsTyped, DrawnOnce, RotationInv, NEW c \in Clients, Moves(c), RotationOf(c)',
           \A t \in Tokens : Became(t) => ToBeMade(TokenId(t))
    PROVE  RotationInv'
<1>1. /\ \A d \in Clients \ {c} : call'[d] = call[d]
      /\ \A r : ToBeMade(r)' => ToBeMade(r)
  BY Drawn DEF Moves, Ended, Waits
<1>2. ASSUME NEW d \in Clients \ {c}, call'[d].at \in Rotating, Arg(d)'.op = "refresh"
      PROVE  ~ToBeMade(TokenId(Arg(d).id))' /\ (call'[d].at = "store" => tokens'[Arg(d)'.id] # "valid")
  <2>1. call'[d] = call[d] /\ Arg(d)' = Arg(d)
    BY <1>1 DEF Arg
  <2>2. ~ToBeMade(TokenId(Arg(d).id)) /\ (call[d].at = "store" => tokens[Arg(d).id] # "valid")
    BY <1>2, <2>1 DEF RotationInv, RotationOf
  <2>3. Arg(d).id \in Tokens
    <3>1. call[d].at # "idle"
      BY <1>2, <2>1 DEF Rotating
    <3> QED  BY <1>2, <2>1, <3>1, WhereInCall, RefreshCall
  <2>4. ~Became(Arg(d).id)
    BY <2>2, <2>3
  <2> QED  BY <1>1, <2>1, <2>2, <2>4 DEF Became
<1>3. \A d \in Clients \ {c} : RotationOf(d)'
  BY <1>2 DEF RotationOf
<1> QED  BY <1>3 DEF RotationInv

\* A rotation begins with a token that is there, and revokes it before it
\* stores another.
LEMMA RotationGoesOn ==
    ASSUME CallsTyped, DrawnOnce, TokenInv, RotationInv, NEW c \in Clients, Moves(c), TokensStep(c)
    PROVE  RotationOf(c)'
<1> SUFFICES ASSUME call'[c].at \in Rotating, Arg(c)'.op = "refresh"
             PROVE  ~ToBeMade(TokenId(Arg(c).id))' /\ (call'[c].at = "store" => tokens'[Arg(c)'.id] # "valid")
  BY DEF RotationOf
<1>1. call[c].todo # << >> /\ \A r : ToBeMade(r)' => ToBeMade(r)
  BY Drawn DEF Moves
<1>2. PICK at, what : Waits(c, at, what) /\ call'[c].at = at
  BY DEF Moves, Ended, Waits, Rotating
<1>3. Arg(c)' = Arg(c) /\ Arg(c).op = "refresh"
  BY <1>2 DEF Waits, Arg
<1>4. refresh(c)
  BY <1>3 DEF TokensStep, issue, revoke, revoke_family, revoke_all_for_user, cleanup_expired, store, revoke_each, Doing, Arg
<1>5. PICK old \in Tokens : old = Arg(c).id
  BY <1>1, <1>3, RefreshCall
<1>6. ASSUME NEW p, NEW w, Proceed(c, p, w)  PROVE call'[c].at = p
  BY <1>6, Proceeds DEF Waits
<1>7. ASSUME NEW out, Return(c, out)  PROVE FALSE
  <2>1. call'[c].at = "idle"
    BY <1>7, Returns DEF Ended
  <2> QED  BY <2>1 DEF Rotating
<1>8. "each" \notin Rotating /\ "reuse" \notin Rotating /\ "sadd_family" \notin Rotating /\ "sadd_user" \notin Rotating
  BY DEF Rotating
<1>9. CASE Doing(c, "refresh", "idle") /\ UNCHANGED tokenVars
  <2>1. Proceed(c, "rotate", Unread) /\ get(old) # "absent"
    <3>1. Doing(c, "refresh", "idle") => call[c].at = "idle"
      BY DEF Doing
    <3>2. \/ get(Arg(c).id) = "absent" /\ Return(c, "Invalid")
          \/ Proceed(c, "reuse", Unread)
          \/ get(Arg(c).id) # "absent" /\ Proceed(c, "rotate", Unread)
      BY <1>4, <1>9, <3>1 DEF refresh, revoke_each, rotate_in_transaction, rotate_in_pieces, store, Doing
    <3> QED  BY <1>5, <1>6, <1>7, <1>8, <3>2
  <2>2. tokens[old] # "absent"
    BY <2>1 DEF get
  <2>3. ~ToBeMade(TokenId(old)) /\ call'[c].at = "rotate"
    BY <1>6, <2>1, <2>2 DEF TokenInv, TokensKnown
  <2> QED  BY <1>1, <1>3, <1>5, <2>3
<1>10. CASE call[c].at \in Rotating
  <2>1. ~ToBeMade(TokenId(old))
    BY <1>3, <1>5, <1>10 DEF RotationInv, RotationOf
  <2>2. call'[c].at = "store" => tokens' = Revoked({old})
    <3>1. CASE rotate_in_transaction(c)
      BY <1>6, <1>7, <3>1 DEF rotate_in_transaction
    <3>2. CASE rotate_in_pieces(c)
      BY <1>5, <1>6, <1>7, <3>2 DEF rotate_in_pieces, store
    <3>3. call[c].at \notin {"idle", "reuse", "each"}
      BY <1>10 DEF Rotating
    <3> QED  BY <1>4, <3>1, <3>2, <3>3 DEF refresh, revoke_each, Doing
  <2>3. call'[c].at = "store" => tokens'[old] # "valid"
    BY <2>2, RevokedLess DEF TokenInv
  <2> QED  BY <1>1, <1>3, <1>5, <2>1, <2>3
<1>11. CASE revoke_each(c, "refresh", "reuse")
  BY <1>6, <1>7, <1>8, <1>11 DEF revoke_each
<1>12. CASE Doing(c, "refresh", "reuse") /\ Proceed(c, "each", Members(family))
  BY <1>6, <1>8, <1>12
<1>13. CASE Doing(c, "refresh", "sadd_family") \/ Doing(c, "refresh", "sadd_user")
  <2>1. call[c].at \in {"sadd_family", "sadd_user"}
    BY <1>13 DEF Doing
  <2>2. CASE rotate_in_pieces(c)
    BY <1>6, <1>7, <1>8, <2>1, <2>2 DEF rotate_in_pieces, store, Doing
  <2> QED  BY <1>4, <2>1, <2>2 DEF refresh, revoke_each, rotate_in_transaction, Doing
<1> QED  BY <1>4, <1>9, <1>10, <1>11, <1>12, <1>13 DEF refresh, rotate_in_transaction, rotate_in_pieces, store, Doing, Rotating

\* The step of a rotation that gives out the new token.
LEMMA SpentFirst ==
    ASSUME CallsTyped, DrawnOnce, TokenInv, RotationInv, NEW c \in Clients, TokensStep(c)
    PROVE  /\ \A t \in Tokens : Became(t) => ToBeMade(TokenId(t))
           /\ \A d \in Clients : SpentBefore(d)
<1>0. TokensTyped
  BY DEF TokenInv
<1>1. ASSUME NEW t \in Tokens, Became(t)  PROVE ToBeMade(TokenId(t))
  BY <1>0, <1>1, Storing, AboutToMake
<1>2. ASSUME NEW d \in Clients, call[d].todo # << >>, Arg(d).op = "refresh", Became(Arg(d).new)
      PROVE  tokens'[Arg(d).id] # "valid"
  <2>1. PICK t \in Tokens : t = Arg(d).new /\ TokenId(t) \in Made(Arg(d))
    BY <1>2, RefreshCall
  <2>2. /\ call[c].todo # << >> /\ call[c].at \notin MadePlaces /\ TokenId(t) \in Made(Arg(c))
        /\ Arg(c).op = "refresh" =>
               \/ call[c].at = "tx_commit" /\ tokens' = [Revoked({Arg(c).id}) EXCEPT ![t] = "valid"]
               \/ call[c].at = "store" /\ tokens' = [tokens EXCEPT ![t] = "valid"]
    BY <1>0, <1>2, <2>1, Storing
  <2>3. d = c
    <3>1. call[c].todo \in Seq(Operations) /\ call[d].todo \in Seq(Operations)
      BY DEF CallsTyped
    <3>2. /\ 1 \in 1 .. Len(call[c].todo) /\ Arg(c) = call[c].todo[1]
          /\ 1 \in 1 .. Len(call[d].todo) /\ Arg(d) = call[d].todo[1]
      BY <1>2, <2>2, <3>1 DEF Arg
    <3> QED  BY <2>1, <2>2, <3>2 DEF DrawnOnce
  <2>4. PICK old \in Tokens : old = Arg(c).id
    BY <1>2, <2>3, RefreshCall
  <2>5. ToBeMade(TokenId(t)) /\ ~ToBeMade(TokenId(old))
    BY <1>1, <1>2, <2>1, <2>2, <2>3, <2>4 DEF RotationInv, RotationOf, Rotating
  <2>6. old # t
    BY <2>5
  <2>7. CASE call[c].at = "tx_commit" /\ tokens' = [Revoked({old}) EXCEPT ![t] = "valid"]
    <3>1. Revoked({old}) \in [Tokens -> {"absent", "valid", "revoked"}]
      BY <1>0, RevokedIs
    <3>2. tokens'[old] = Revoked({old})[old]
      BY <2>6, <2>7, <3>1
    <3> QED  BY <1>0, <2>3, <2>4, <3>2, RevokedLess
  <2>8. CASE call[c].at = "store" /\ tokens' = [tokens EXCEPT ![t] = "valid"]
    <3>1. tokens[old] # "valid"
      BY <1>2, <2>3, <2>4, <2>8 DEF RotationInv, RotationOf, Rotating
    <3> QED  BY <1>0, <2>3, <2>4, <2>6, <2>8, <3>1 DEF TokensTyped
  <2> QED  BY <1>2, <2>2, <2>3, <2>4, <2>7, <2>8
<1> QED  BY <1>1, <1>2 DEF SpentBefore

LEMMA RotationInvInductive ==
    /\ Init => RotationInv
    /\ CallsTyped /\ DrawnOnce /\ TokenInv /\ RotationInv /\ [Next]_vars
         => RotationInv' /\ \A c \in Clients : SpentBefore(c)
<1>1. ASSUME Init  PROVE RotationInv
  <2>1. \A c \in Clients : call[c].at = "idle"
    BY <1>1 DEF Init, CallInit
  <2> QED  BY <2>1 DEF RotationInv, RotationOf, Rotating
<1>2. ASSUME CallsTyped, \A t \in Tokens : ~Became(t)  PROVE \A c \in Clients : SpentBefore(c)
  BY <1>2, RefreshCall DEF SpentBefore
<1>3. ASSUME CallsTyped, DrawnOnce, TokenInv, RotationInv, NEW c \in Clients, Request(c)
      PROVE  RotationInv' /\ \A d \in Clients : SpentBefore(d)
  <2>1. Moves(c)
    BY <1>3, RequestMoves
  <2>2. CASE TokensStep(c)
    BY <1>3, <2>1, <2>2, RotationGoesOn, SpentFirst, RotationFrame
  <2>3. CASE (AccountsStep(c) \/ LockoutStep(c) \/ KeysStep(c) \/ SessionStep(c)) /\ UNCHANGED tokenVars
    <3>1. \A t : ~Became(t)
      BY <2>3 DEF tokenVars, Became
    <3>2. ASSUME NEW ops, NEW places, OfService(c, ops, places), Apart(ops, places, TokenOps, TokenPlaces)
          PROVE  RotationOf(c)'
      <4>1. call[c].at \in TokenPlaces => InPlace(c, TokenOps, TokenPlaces)
        BY <1>3, WhereInCall
      <4>2. call[c].at \in TokenPlaces \/ call'[c].at \in TokenPlaces => call'[c] = call[c]
        BY <1>3, <3>2, <4>1, OtherService
      <4>3. call'[c].at \in TokenPlaces => InPlace(c, TokenOps, TokenPlaces)
        BY <4>1, <4>2
      <4>4. call'[c].at \notin TokenPlaces
        BY <3>2, <4>3 DEF InPlace, OfService, Apart
      <4> QED  BY <4>4 DEF RotationOf, Rotating, TokenPlaces
    <3>3. RotationOf(c)'
      <4>1. /\ Apart(AccountOps, AccountPlaces, TokenOps, TokenPlaces) /\ Apart(LockoutOps, LockoutPlaces, TokenOps, TokenPlaces)
            /\ Apart(KeyOps, KeyPlaces, TokenOps, TokenPlaces) /\ Apart(SessionOps, SessionPlaces, TokenOps, TokenPlaces)
        BY ServicesApart DEF Apart
      <4> QED  BY <2>3, <3>2, <4>1, AccountsOfService, LockoutOfService, KeysOfService, SessionsOfService
    <3> QED  BY <1>2, <1>3, <2>1, <3>1, <3>3, RotationFrame
  <2> QED  BY <1>3, <2>2, <2>3 DEF Request, OnlyAccounts, OnlyKeys, OnlySessions
<1>4. ASSUME CallsTyped, DrawnOnce, RotationInv, NEW c \in Clients, Dropped(c)
      PROVE  RotationInv' /\ \A d \in Clients : SpentBefore(d)
  <2>1. Moves(c) /\ Ended(c, "aborted")
    BY <1>4, DroppedMoves, Abandons DEF Dropped
  <2>2. RotationOf(c)'
    BY <2>1 DEF Ended, RotationOf, Rotating
  <2>3. \A t : ~Became(t)
    BY <1>4 DEF Dropped, tokenVars, Became
  <2> QED  BY <1>2, <1>4, <2>1, <2>2, <2>3, RotationFrame
<1>5. ASSUME CallsTyped, TokenInv, RotationInv, Clock \/ UNCHANGED vars
      PROVE  RotationInv' /\ \A d \in Clients : SpentBefore(d)
  <2>1. call' = call
    BY <1>5 DEF Clock, Elapse, KeyExpires, TokenAges, KeyExpired, StateExpires, callVars, vars
  <2>2. tokens' = tokens \/ \E t \in Tokens : tokens' = [tokens EXCEPT ![t] = "absent"]
    BY <1>5 DEF Clock, TokenAges, OnlyAccounts, OnlyKeys, tokenVars, vars
  <2>3. \A t \in Tokens : ~Became(t)
    BY <1>5, <2>2 DEF Became, TokenInv, TokensTyped
  <2>4. \A r : ToBeMade(r)' = ToBeMade(r)
    BY <2>1 DEF ToBeMade, Made
  <2>5. ASSUME NEW c \in Clients  PROVE RotationOf(c)'
    <3>1. RotationOf(c) /\ Arg(c)' = Arg(c) /\ call'[c].at = call[c].at
      BY <1>5, <2>1 DEF RotationInv, Arg
    <3>2. call[c].at \in Rotating /\ Arg(c).op = "refresh" => Arg(c).id \in Tokens
      BY <1>5, WhereInCall, RefreshCall DEF Rotating
    <3> QED  BY <2>3, <2>4, <3>1, <3>2 DEF RotationOf, Became
  <2> QED  BY <1>2, <1>5, <2>3, <2>5 DEF RotationInv
<1> QED  BY <1>1, <1>3, <1>4, <1>5 DEF Next

\* On all four storages a rotation gives out the new token only when the old
\* one can no longer be used, for any number of calls on the same tokens and
\* wherever they are dropped.
THEOREM RotationSpendsFirst == Spec => OldSpentFirst
<1>1. Init => CallsTyped /\ DrawnOnce /\ TokenInv /\ RotationInv
  BY CallsTypedInductive, DrawnOnceInductive, TokenInvInductive, RotationInvInductive
<1>2. CallsTyped /\ DrawnOnce /\ TokenInv /\ RotationInv /\ [Next]_vars
        => (CallsTyped /\ DrawnOnce /\ TokenInv /\ RotationInv)'
  BY CallsTypedInductive, DrawnOnceInductive, TokenInvInductive, RotationInvInductive
<1>3. CallsTyped /\ DrawnOnce /\ TokenInv /\ RotationInv /\ [Next]_vars
        => [\A c \in Clients :
               call[c].todo # << >> /\ Arg(c).op = "refresh" /\ tokens[Arg(c).new] # "valid"
                 /\ tokens'[Arg(c).new] = "valid"
                   => tokens'[Arg(c).id] # "valid"]_<<tokens, call>>
  BY RotationInvInductive DEF SpentBefore, Became
<1> QED  BY <1>1, <1>2, <1>3, PTL DEF Spec, OldSpentFirst

=============================================================================
