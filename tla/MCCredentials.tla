---------------------------- MODULE MCCredentials ----------------------------
(***************************************************************************)
(* Workloads for Credentials: every pair of operations that meet on one    *)
(* record, on every storage, and the longer lists a hazard needs.          *)
(***************************************************************************)
EXTENDS Credentials, TLC

CONSTANTS c1, c2

Row(e, n, s) ==
    [email |-> e, username |-> n, password |-> "right", status |-> s,
     verified |-> s # "PendingVerification", expires |-> "later", logged_in |-> FALSE]

MCEmail(k) == "a"

Work2(backend, l1, l2, drops, ageing) ==
    [backend |-> backend, calls |-> (c1 :> l1) @@ (c2 :> l2), aborts |-> drops, ageing |-> ageing,
     accounts |-> 1 :> Row("a", "n", "Active"), tokens |-> {"t1", "t2"}, keys |-> {"k1"}]

\* Accounts: the calls that meet on account 1, and the creation of account 2.
Op(op) == [op |-> op, id |-> 1]
AccountCalls ==
    {Op(op) : op \in DOMAIN Transitions \cup {"get_account", "verify_email", "delete_account"}}
    \cup {[op |-> "update_account", id |-> 1, email |-> e, expires |-> x] : e \in {"a", "b"}, x \in {"never", "later"}}
    \cup {[op |-> "change_password", id |-> 1, password |-> "other"],
          [op |-> "update_account", id |-> 1, email |-> "malformed", expires |-> "later"]}
    \cup {[op |-> "create_account", id |-> 2, email |-> e, username |-> n, password |-> "right",
           unique |-> TRUE, verify |-> v, expires |-> "later"] :
              e \in {"b"}, n \in {"n", NoName}, v \in BOOLEAN}

Create(id, e, n) ==
    [op |-> "create_account", id |-> id, email |-> e, username |-> n, password |-> "right",
     unique |-> TRUE, verify |-> TRUE, expires |-> "later"]

\* Two accounts are created with one address; one that is stored is verified.
Creating ==
    {Work2(b, <<Create(2, "b", "m")>>, <<Create(3, "b", NoName), Op("verify_email")>>, 1, FALSE) :
        b \in {"postgres", "turso", "surrealdb"}}
    \cup {Work2("postgres", <<Create(2, "a", "m"), Create(3, "malformed", "m")>>, << >>, 0, FALSE)}

Administered ==
    {[Work2(b, <<x, Op("change_password") @@ [password |-> "other"]>>, <<y>>, 0, FALSE)
        EXCEPT !.accounts = 1 :> Row("a", "n", s)] :
            b \in {"postgres", "surrealdb"}, x \in {Op(op) : op \in DOMAIN Transitions}, y \in AccountCalls,
            s \in {"Active", "PendingVerification", "Disabled"}}

Deleting ==
    {Work2(b, <<Op("delete_account"), Op("disable_account")>>, <<y>>, 1, FALSE) :
        b \in {"turso", "surrealdb"}, y \in AccountCalls}

\* Lockout.
Login(password, enabled) ==
    [op |-> "login", id |-> 1, identity |-> "A", password |-> password, enabled |-> enabled]
Wrong == Login("wrong", TRUE)
Guessing ==
    {Work2("postgres", <<Wrong, Wrong, Wrong>>, <<Wrong, Wrong>> \o l, 1, FALSE) :
        l \in {<<Wrong>>, <<Login("right", TRUE)>>, <<[op |-> "unlock", id |-> 1, identity |-> "A"]>>}}
    \cup {Work2("postgres", <<Login("right", TRUE), Wrong>>, <<Op("suspend_account"), Wrong, Login("right", FALSE)>>, 0, FALSE),
          Work2("postgres", <<Op("delete_account")>>, <<Login("right", TRUE)>>, 0, FALSE)}

\* Refresh tokens.
Token(op, t) == [op |-> op, id |-> t]
Refresh(t, n) == [op |-> "refresh", id |-> t, new |-> n]
TokenCalls ==
    {<<Refresh("t1", "t3")>>, <<Refresh("t2", "t3"), Token("revoke", "t3")>>, <<Token("revoke", "t1")>>,
     <<Token("revoke_family", "t1")>>, <<Token("revoke_all", "t1")>>, <<Token("issue", "t3")>>,
     <<Token("cleanup", "t1"), Refresh("t2", "t3")>>}
Refreshing ==
    {Work2(b, <<Refresh("t1", "t4"), Refresh("t1", "t5")>>, l, 1, FALSE) :
        b \in {"redis", "postgres", "turso", "surrealdb"}, l \in TokenCalls}
    \cup {Work2(b, <<Refresh("t1", "t4")>> \o l, <<Token("cleanup", "t1")>>, 0, TRUE) :
        b \in {"redis", "postgres", "turso", "surrealdb"}, l \in {<< >>, <<Token("cleanup", "t4")>>}}

\* API keys and OAuth.
Present(k, secret) == [op |-> "present", id |-> k, secret |-> secret]
KeyCalls ==
    {<<Present("k1", TRUE), Present("k1", TRUE)>>, <<Token("revoke_key", "k1"), Present("k1", TRUE)>>,
     <<Token("delete", "k1"), Token("revoke_key", "k1"), Token("delete", "k1")>>, <<Token("create", "k2"), Present("k2", TRUE)>>,
     <<Token("callback", "s1")>>, <<Present("k1", FALSE), Present("k2", TRUE)>>}
Presenting ==
    {Work2(b, <<Token("authorize", "s1"), Token("callback", "s1"), Token("revoke_key", "k1"), Present("k1", TRUE)>>, l, 1, a) :
        b \in {"redis", "postgres"}, l \in KeyCalls, a \in BOOLEAN}

\* Sessions.
Session(op) == [op |-> op, id |-> "session"]
Page(n) == [op |-> "page", id |-> "session", fresh |-> n]
Submit(n) == [op |-> "submit", id |-> "session", sent |-> n]
Browsing ==
    {Work2("redis", <<Page(1), Session("sign_in"), Submit(1), x>>, l, 1, FALSE) :
        x \in {Session("sign_out"), Session("clear")},
        l \in {<<Page(2), Submit(2), Page(2)>>, <<Session("renew"), Submit(1)>>, <<Session("sign_in"), Session("sign_out")>>,
              <<Session("destroy"), Page(2)>>,
              <<[op |-> "regenerate", id |-> "session", fresh |-> 2], Session("destroy"), Session("sign_in")>>}}

MCWorkloads == Creating \cup Administered \cup Deleting \cup Guessing \cup Refreshing \cup Presenting \cup Browsing

\* Rotations on each storage without a transaction.
RotatingWorkloads ==
    {Work2(b, <<Refresh("t1", "t4")>>, <<Refresh("t2", "t3")>>, 1, FALSE) : b \in {"redis", "turso", "surrealdb"}}

=============================================================================
