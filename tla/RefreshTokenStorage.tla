------------------------- MODULE RefreshTokenStorage -------------------------
(***************************************************************************)
(* The contract of the RefreshTokenStorage trait (auth/tokens/refresh.rs)  *)
(* for the tokens of one family and one user.  A call has work: tokens to  *)
(* revoke and perhaps one to store.  It does all of it at once or fails    *)
(* and does none of it; rotate is documented to revoke and to create       *)
(* atomically.  A token that is revoked stays so.                          *)
(***************************************************************************)
EXTENDS FiniteSets

CONSTANTS Tokens, Callers

VARIABLES
    token,          \* of each token: "absent", "valid" or "revoked"
    work,           \* of each caller: what its call has to do
    answer          \* of each caller: whether its last call succeeded

contract == <<token, work, answer>>

NoWork == [busy |-> FALSE, revoke |-> {}, store |-> {}]

Init ==
    /\ token \in [Tokens -> {"absent", "valid", "revoked"}]
    /\ work = [c \in Callers |-> NoWork]
    /\ answer = [c \in Callers |-> FALSE]

\* store, revoke, revoke_family, revoke_all_for_user or rotate is called.
Called(c) ==
    /\ ~work[c].busy
    /\ work'[c] \in [busy : {TRUE}, revoke : SUBSET Tokens, store : {{}} \cup {{t} : t \in Tokens}]
    /\ work' = [work EXCEPT ![c] = work'[c]]
    /\ UNCHANGED <<token, answer>>

After(state, revoke, store) ==
    [t \in Tokens |-> IF t \in store THEN "valid"
                      ELSE IF t \in revoke /\ state[t] = "valid" THEN "revoked" ELSE state[t]]

\* The call does its work and succeeds.
Commit(c) ==
    /\ work[c].busy
    /\ \A t \in work[c].store : token[t] = "absent"
    /\ token' = After(token, work[c].revoke, work[c].store)
    /\ work' = [work EXCEPT ![c] = NoWork] /\ answer' = [answer EXCEPT ![c] = TRUE]

\* A call fails, or one that only reads returns.
Returned(c) ==
    /\ work' = [work EXCEPT ![c] = NoWork] /\ answer' = [answer EXCEPT ![c] = FALSE]
    /\ UNCHANGED token

\* Expired tokens disappear, of themselves or in a cleanup_expired.
Expired ==
    /\ token' \in [Tokens -> {"absent", "valid", "revoked"}]
    /\ \A t \in Tokens : token'[t] \in {token[t], "absent"}
    /\ UNCHANGED answer \/ \E c \in Callers : ~work[c].busy /\ answer' = [answer EXCEPT ![c] = FALSE]
    /\ UNCHANGED work

Next ==
    \/ \E c \in Callers : Called(c) \/ Commit(c) \/ Returned(c)
    \/ Expired

Spec == Init /\ [][Next]_contract

=============================================================================
