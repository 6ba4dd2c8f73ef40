------------------------------- MODULE Lockout -------------------------------
(***************************************************************************)
(* LockoutMiddleware and LoginLockout (lockout/) around the login handler  *)
(* of AccountService.  The attempts and the lock of an identity are two    *)
(* Redis keys; every command is a step of its own.  The identity is the    *)
(* field as it was sent, the account is found by the normalised address.   *)
(***************************************************************************)
EXTENDS Accounts

CONSTANTS
    MaxAttempts,        \* max_attempts
    Identities,         \* identities as they are sent
    Email(_)            \* an identity, trimmed and in lower case

ASSUME LockoutAssumption == MaxAttempts \in Nat \ {0}

VARIABLES
    attempts,       \* of each identity: the count, and whether the key expires
    locked,         \* identities whose lock key exists
    guesses,        \* wrong passwords tried since the identity was last cleared,
                    \* while the lockout is enabled
    overlooked      \* of each identity: checks that missed its lock because TTL failed

lockoutVars == <<attempts, locked, guesses, overlooked>>

NoAttempts == [count |-> 0, ttl |-> FALSE]

LockoutInit ==
    /\ attempts = [k \in Identities |-> NoAttempts] /\ locked = {}
    /\ guesses = [k \in Identities |-> 0] /\ overlooked = [k \in Identities |-> 0]

\* A call to AccountService or to the lockout that leaves the other alone.
NoLockout == UNCHANGED lockoutVars

\* check: the lock's TTL decides; a disabled lockout lets every login pass.
check(c) == Arg(c).enabled => Arg(c).identity \notin locked

\* An error of TTL is taken for -2, a key that does not exist.  As many may
\* fail on an identity as calls may be dropped.
check_fails_open(c) ==
    LET k == Arg(c).identity
    IN  /\ ~check(c) /\ overlooked[k] < load.aborts
        /\ overlooked' = [overlooked EXCEPT ![k] = @ + 1]

\* The middleware looks at the lock and runs the handler.
middleware(c) ==
    /\ Doing(c, "login", "idle")
    /\ \/ check(c) /\ Proceed(c, "handler", Unread) /\ UNCHANGED overlooked
       \/ check_fails_open(c) /\ Proceed(c, "handler", Unread)
       \/ ~check(c) /\ Return(c, "Locked") /\ UNCHANGED overlooked
    /\ UNCHANGED <<rows, attempts, locked, guesses>> /\ Quiet

\* The login handler.  Only 401 and success are recorded.
handler(c) ==
    LET k == Arg(c).identity
        r == authenticate(Email(k), Arg(c).password)
    IN  /\ Doing(c, "login", "handler")
        /\ IF r = "ok" THEN Proceed(c, "record_login", Unread)
           ELSE IF r = "InvalidCredentials" /\ Arg(c).enabled THEN Proceed(c, "incr", Unread)
           ELSE Return(c, r)
        /\ guesses' = IF r = "InvalidCredentials" /\ Arg(c).enabled THEN [guesses EXCEPT ![k] = @ + 1] ELSE guesses
        /\ UNCHANGED <<rows, attempts, locked, overlooked>> /\ Quiet

\* Mutant of locks: one failure more than max_attempts.
locks_AfterOneMore(count) == count > MaxAttempts

\* record_failure locks at the count that reaches the limit.
locks(count) == count >= MaxAttempts

\* INCR; EXPIRE for the first failure only; SET EX of the lock at the limit.
record_failure(c) ==
    LET k == Arg(c).identity
        n == attempts[k].count + 1
    IN  \/ /\ Doing(c, "login", "incr")
           /\ attempts' = [attempts EXCEPT ![k].count = n]
           /\ IF n = 1 THEN Proceed(c, IF locks(n) THEN "expire_lock" ELSE "expire_key", Unread)
              ELSE IF locks(n) THEN Proceed(c, "lock", Unread)
              ELSE Return(c, "InvalidCredentials")
           /\ UNCHANGED <<rows, locked, guesses, overlooked>> /\ Quiet
        \/ /\ \/ Doing(c, "login", "expire_key") /\ Return(c, "InvalidCredentials")
              \/ Doing(c, "login", "expire_lock") /\ Proceed(c, "lock", Unread)
           /\ attempts' = [attempts EXCEPT ![k].ttl = attempts[k].count > 0]
           /\ UNCHANGED <<rows, locked, guesses, overlooked>> /\ Quiet
        \/ /\ Doing(c, "login", "lock")
           /\ locked' = locked \cup {k} /\ Return(c, "InvalidCredentials")
           /\ events' = events \cup {<<"AuthAccountLocked", k>>}
           /\ UNCHANGED <<rows, intent, overlapped, attempts, guesses, overlooked>>

\* DEL of both keys.
Clear(k) ==
    /\ attempts' = [attempts EXCEPT ![k] = NoAttempts] /\ locked' = locked \ {k}
    /\ guesses' = [guesses EXCEPT ![k] = 0] /\ UNCHANGED overlooked

\* The login is recorded in the row, then both keys are deleted.  An error of
\* EXISTS is taken for no lock, and there is no event.
record_success(c) ==
    LET k == Arg(c).identity
    IN  \/ /\ Doing(c, "login", "record_login")
           /\ record_login(Email(k))
           /\ IF Arg(c).enabled THEN Proceed(c, "exists", Unread) ELSE Return(c, "ok")
           /\ UNCHANGED lockoutVars /\ Quiet
        \/ /\ Doing(c, "login", "exists")
           /\ (k \in locked /\ Proceed(c, "del_locked", Unread)) \/ Proceed(c, "del", Unread)
           /\ UNCHANGED <<rows, lockoutVars>> /\ Quiet
        \/ /\ Doing(c, "login", "del") \/ Doing(c, "login", "del_locked")
           /\ Clear(k) /\ Return(c, "ok")
           /\ events' = IF call[c].at = "del" THEN events ELSE events \cup {<<"AuthAccountUnlocked", k>>}
           /\ UNCHANGED <<rows, intent, overlapped>>

\* An administrator's unlock.
unlock(c) ==
    /\ Doing(c, "unlock", "idle")
    /\ Clear(Arg(c).identity) /\ Return(c, "ok")
    /\ events' = events \cup {<<"AuthAccountUnlocked", Arg(c).identity>>}
    /\ UNCHANGED <<rows, intent, overlapped>>

\* A key's time to live runs out.
KeyExpires(k) ==
    /\ \/ /\ attempts[k].ttl /\ attempts' = [attempts EXCEPT ![k] = NoAttempts]
          /\ guesses' = [guesses EXCEPT ![k] = IF k \in locked THEN @ ELSE 0] /\ UNCHANGED locked
       \/ /\ k \in locked /\ locked' = locked \ {k}
          /\ guesses' = [guesses EXCEPT ![k] = 0] /\ UNCHANGED attempts
    /\ UNCHANGED <<callVars, rows, overlooked>> /\ Quiet

LockoutStep(c) == middleware(c) \/ handler(c) \/ record_failure(c) \/ record_success(c) \/ unlock(c)

-----------------------------------------------------------------------------
(* Properties.                                                             *)

\* However the logins interleave, between two times an identity is cleared it
\* is refused after at most max_attempts wrong passwords, one more for each
\* other login in flight, one for each call that was dropped before INCR and
\* one for each check whose TTL failed, which lets the login pass.
GuessesBounded ==
    \A k \in Identities :
        guesses[k] < MaxAttempts + Cardinality(Clients) + (load.aborts - aborts) + overlooked[k]

=============================================================================
