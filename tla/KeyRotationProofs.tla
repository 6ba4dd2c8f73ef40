------------------------- MODULE KeyRotationProofs --------------------------
(***************************************************************************)
(* Proofs about KeyRotation for any number of instances, keys and any      *)
(* workload: keys are replaced once, a single instance has one active key, *)
(* the cached signing key can be verified, and no JWT is refused.          *)
(***************************************************************************)
EXTENDS KeyRotation, FiniteSetTheorems, WellFoundedInduction, TLAPS

-----------------------------------------------------------------------------
(* Operators.                                                              *)

\* A non-empty set of naturals has a least element: there is a next kid.
LEMMA MinIsMember ==
    ASSUME NEW S, S \subseteq Nat, S # {}
    PROVE  Min(S) \in S
<1>1. \E x \in S : \A y \in S : <<y, x>> \notin OpToRel(<, Nat)
  BY NatLessThanWellFounded, WFMin
<1>2. PICK x \in S : \A y \in S : <<y, x>> \notin OpToRel(<, Nat)
  BY <1>1
<1>3. \A y \in S : ~(y < x)
  BY <1>2 DEF OpToRel
<1>4. \A y \in S : x =< y
  BY <1>3
<1> QED  BY <1>4 DEF Min

\* What a behaviour may spend.
Spendable == {"keys", "aged", "drained", "forced", "failures", "crashes"}

\* Spending takes one of what is spent and leaves the rest of the workload alone.
LEMMA SpendBudget ==
    ASSUME budget \in Budget, NEW what \in Spendable, Spend(what)
    PROVE  /\ budget' \in Budget
           /\ budget'.deployed = budget.deployed
           /\ what # "keys" => budget'.keys = budget.keys
           /\ what = "keys" => budget.keys > 0 /\ budget'.keys = budget.keys - 1
<1>0. MaxKeys \in Nat  BY KeyRotationAssumption
<1>1. CASE what = "keys"  BY <1>0, <1>1 DEF Budget, Spend
<1>2. CASE what = "aged"  BY <1>2 DEF Budget, Spend
<1>3. CASE what = "drained"  BY <1>3 DEF Budget, Spend
<1>4. CASE what = "forced"  BY <1>4 DEF Budget, Spend
<1>5. CASE what = "failures"  BY <1>5 DEF Budget, Spend
<1>6. CASE what = "crashes"  BY <1>6 DEF Budget, Spend
<1> QED  BY <1>1, <1>2, <1>3, <1>4, <1>5, <1>6 DEF Spendable

\* Threads and their instances.
LEMMA ThreadFacts ==
    /\ \A i \in Instances : agent(i) \in Threads /\ request(i) \in Threads
    /\ \A i \in Instances : agent(i)[1] = i /\ request(i)[1] = i
    /\ \A t \in Threads : t[1] \in Instances
    /\ \A i, j \in Instances : agent(i) # request(j) /\ (agent(i) = agent(j) => i = j)
BY DEF Threads, agent, request

\* No drain window ends: nothing is ever retired.
LEMMA NothingExpires == Expired = {}
BY DEF Expired, DrainExpirySet

-----------------------------------------------------------------------------
(* Types.                                                                  *)

TableTypes ==
    /\ status \in [Kids -> Status]
    /\ aged \subseteq Kids /\ windowOver \subseteq Kids
    /\ replaced \in [Kids -> Kids \cup {NoKey}]

ProcessTypes ==
    /\ pool \in [Instances -> BOOLEAN]
    /\ mode \in [Instances -> {"boot", "on", "off", "down"}]
    /\ forced \in [Instances -> BOOLEAN] /\ stale \in [Instances -> BOOLEAN]

ControlTypes ==
    /\ pc \in [Threads -> Steps] /\ next \in [Threads -> Steps]
    /\ subject \in [Threads -> Kids \cup {NoKey}]

CacheTypes == cache \in [Instances -> Caches] /\ read \in [Threads -> Caches]

OutputTypes ==
    tokens \subseteq Kids /\ rejected \subseteq [kid : Kids, how : {"jwt", "paseto"}]

\* Where a refresh returns to; the steps of a rotation that change the table
\* are entered by rotate and drain_old alone.
Returns == {"idle", "check", "capture", "decide", "rotate", "sign", "tryAll"}
ReturnsOK == \A t \in Threads : next[t] \in Returns

\* Only the agent's threads are at the rotation's steps, and the key to drain,
\* or to insert into the cache, is one.
SubjectsOK ==
    \A i \in Instances :
        /\ pc[request(i)] \notin {"drain", "store"} /\ pc[agent(i)] # "insert"
        /\ pc[agent(i)] = "drain" => subject[agent(i)] \in Kids
        /\ pc[request(i)] = "insert" => subject[request(i)] \in Kids

\* The keys the workload may still generate are there to generate.
KeysLeft == Cardinality(KeysWith({"absent"})) >= budget.keys

Typed ==
    /\ TableTypes /\ ProcessTypes /\ ControlTypes /\ CacheTypes /\ OutputTypes
    /\ budget \in Budget /\ ReturnsOK /\ SubjectsOK /\ KeysLeft

\* A step of control of one thread.
LEMMA CallTypes ==
    ASSUME ControlTypes, ReturnsOK, NEW t \in Threads, NEW step \in Steps, NEW return \in Returns,
           Call(t, step, return)
    PROVE  /\ pc' \in [Threads -> Steps] /\ next' \in [Threads -> Steps] /\ ReturnsOK'
           /\ pc'[t] = step /\ \A u \in Threads \ {t} : pc'[u] = pc[u]
BY DEF ControlTypes, ReturnsOK, Returns, Steps, Call

\* The same of a step that keeps where to return to.
LEMMA GotoTypes ==
    ASSUME ControlTypes, ReturnsOK, NEW t \in Threads, NEW step \in Steps, Goto(t, step)
    PROVE  /\ pc' \in [Threads -> Steps] /\ next' \in [Threads -> Steps] /\ ReturnsOK'
           /\ pc'[t] = step /\ \A u \in Threads \ {t} : pc'[u] = pc[u]
BY CallTypes DEF Goto, ReturnsOK

\* Parts that a step leaves alone.
LEMMA TypesFrame ==
    /\ TableTypes /\ UNCHANGED table => TableTypes'
    /\ ProcessTypes /\ UNCHANGED <<process, stale>> => ProcessTypes'
    /\ ControlTypes /\ ReturnsOK /\ SubjectsOK /\ UNCHANGED <<pc, next, subject>> =>
           ControlTypes' /\ ReturnsOK' /\ SubjectsOK'
    /\ CacheTypes /\ UNCHANGED <<cache, read>> => CacheTypes'
    /\ OutputTypes /\ UNCHANGED outputs => OutputTypes'
    /\ budget \in Budget /\ UNCHANGED budget => budget' \in Budget
BY DEF TableTypes, ProcessTypes, ControlTypes, ReturnsOK, SubjectsOK, CacheTypes, OutputTypes,
       table, process, outputs

\* Time, pools and restarts keep the types.
LEMMA EnvironmentTypes ==
    ASSUME Typed,
           \/ \E k \in Kids : Age(k) \/ DrainElapses(k)
           \/ \E i \in Instances : PoolConnects(i) \/ CacheExpires(i) \/ Restart(i)
    PROVE  Typed'
<1>1. ASSUME NEW k \in Kids, Age(k) \/ DrainElapses(k)  PROVE Typed'
  <2>1. TableTypes' /\ status' = status
    BY <1>1 DEF Age, DrainElapses, Typed, TableTypes
  <2>2. budget' \in Budget /\ budget'.keys = budget.keys
    BY <1>1, SpendBudget DEF Age, DrainElapses, Typed, Spendable
  <2>3. KeysLeft'
    BY <2>1, <2>2 DEF KeysLeft, KeysWith, Typed
  <2> QED  BY <1>1, <2>1, <2>2, <2>3, TypesFrame DEF Age, DrainElapses, Typed, threads
<1>2. ASSUME NEW i \in Instances, PoolConnects(i) \/ CacheExpires(i) \/ Restart(i)  PROVE Typed'
  <2>1. ProcessTypes'
    <3> USE DEF Typed, ProcessTypes
    <3>1. CASE PoolConnects(i)  BY <3>1 DEF PoolConnects
    <3>2. CASE CacheExpires(i)  BY <3>2 DEF CacheExpires, process
    <3>3. CASE Restart(i)  BY <3>3 DEF Restart
    <3> QED  BY <1>2, <3>1, <3>2, <3>3
  <2>2. KeysLeft'
    BY <1>2 DEF PoolConnects, CacheExpires, Restart, table, KeysLeft, KeysWith, Typed
  <2> QED  BY <1>2, <2>1, <2>2, TypesFrame DEF PoolConnects, CacheExpires, Restart, Typed, threads
<1> QED  BY <1>1, <1>2

\* Table, caches and workload as they were: the keys left are the same.
LEMMA KeysLeftFrame ==
    ASSUME KeysLeft, UNCHANGED status, budget'.keys = budget.keys
    PROVE  KeysLeft'
BY DEF KeysLeft, KeysWith

\* Caches with other fields are caches.
LEMMA CachesFields ==
    /\ KeyCacheEmpty \in Caches
    /\ \A c \in Caches : \A k \in Kids \cup {NoKey} : [c EXCEPT !.active = k] \in Caches
    /\ \A c \in Caches : \A v \in SUBSET Kids : [c EXCEPT !.verification = v] \in Caches
    /\ \A c \in Caches : \A v \in SUBSET Kids :
           [c EXCEPT !.verification = v, !.whole = FALSE] \in Caches
BY DEF Caches, KeyCacheEmpty, NoKey

\* A crash keeps the types.
LEMMA CrashTypes ==
    ASSUME Typed, NEW i \in Instances, Crash(i)
    PROVE  Typed'
<1>1. budget' \in Budget /\ budget'.keys = budget.keys
  BY SpendBudget DEF Crash, Typed, Spendable
<1>2. ProcessTypes'
  BY DEF Crash, Typed, ProcessTypes
<1>3. CacheTypes'
  BY CachesFields DEF Crash, Typed, CacheTypes
<1>4. ControlTypes' /\ ReturnsOK' /\ SubjectsOK'
  BY ThreadFacts DEF Crash, Typed, ControlTypes, ReturnsOK, SubjectsOK, Steps, Returns, NoKey
<1>5. KeysLeft'
  BY <1>1, KeysLeftFrame DEF Crash, table, Typed
<1> QED  BY <1>1, <1>2, <1>3, <1>4, <1>5, TypesFrame DEF Crash, Typed

\* Control of the agent of i moves to step and its subject to k.
LEMMA AgentMoveTypes ==
    ASSUME Typed, NEW i \in Instances, NEW step \in Steps \ {"insert"}, NEW k \in Kids \cup {NoKey},
           step = "drain" => k \in Kids,
           Goto(agent(i), step) \/ \E r \in Returns : Call(agent(i), step, r),
           subject' = [subject EXCEPT ![agent(i)] = k]
    PROVE  ControlTypes' /\ ReturnsOK' /\ SubjectsOK'
<1>1. agent(i) \in Threads /\ step \in Steps /\ ControlTypes /\ ReturnsOK /\ SubjectsOK
  BY ThreadFacts DEF Typed
<1>2. /\ pc' \in [Threads -> Steps] /\ next' \in [Threads -> Steps] /\ ReturnsOK'
      /\ pc'[agent(i)] = step /\ \A u \in Threads \ {agent(i)} : pc'[u] = pc[u]
  BY <1>1, CallTypes, GotoTypes
<1>3. /\ subject' \in [Threads -> Kids \cup {NoKey}]
      /\ subject'[agent(i)] = k /\ \A u \in Threads \ {agent(i)} : subject'[u] = subject[u]
  BY <1>1 DEF ControlTypes
<1>4. SubjectsOK'
  BY <1>1, <1>2, <1>3, ThreadFacts DEF SubjectsOK
<1> QED  BY <1>2, <1>3, <1>4 DEF ControlTypes

\* Control of a request thread of i moves to step and its subject to k.
LEMMA RequestMoveTypes ==
    ASSUME Typed, NEW i \in Instances, NEW step \in Steps \ {"drain", "store"},
           NEW k \in Kids \cup {NoKey}, step = "insert" => k \in Kids,
           Goto(request(i), step) \/ \E r \in Returns : Call(request(i), step, r),
           subject' = [subject EXCEPT ![request(i)] = k]
    PROVE  ControlTypes' /\ ReturnsOK' /\ SubjectsOK'
<1>1. request(i) \in Threads /\ step \in Steps /\ ControlTypes /\ ReturnsOK /\ SubjectsOK
  BY ThreadFacts DEF Typed
<1>2. /\ pc' \in [Threads -> Steps] /\ next' \in [Threads -> Steps] /\ ReturnsOK'
      /\ pc'[request(i)] = step /\ \A u \in Threads \ {request(i)} : pc'[u] = pc[u]
  BY <1>1, CallTypes, GotoTypes
<1>3. /\ subject' \in [Threads -> Kids \cup {NoKey}]
      /\ subject'[request(i)] = k /\ \A u \in Threads \ {request(i)} : subject'[u] = subject[u]
  BY <1>1 DEF ControlTypes
<1>4. SubjectsOK'
  BY <1>1, <1>2, <1>3, ThreadFacts DEF SubjectsOK
<1> QED  BY <1>2, <1>3, <1>4 DEF ControlTypes

\* The agent is done with its key, and the request with its token.
LEMMA ThreadEndTypes ==
    ASSUME Typed, NEW i \in Instances
    PROVE  /\ \A step \in {"idle", "refresh", "rotate"} :
                  /\ Goto(agent(i), step) \/ Call(agent(i), step, "idle")
                  /\ subject' = [subject EXCEPT ![agent(i)] = NoKey]
                  => ControlTypes' /\ ReturnsOK' /\ SubjectsOK'
           /\ Done(i) => ControlTypes' /\ ReturnsOK' /\ SubjectsOK'
<1>0. "idle" \in Returns /\ NoKey \in Kids \cup {NoKey}
  BY DEF Returns
<1>1. ASSUME NEW step \in {"idle", "refresh", "rotate"},
             Goto(agent(i), step) \/ Call(agent(i), step, "idle"),
             subject' = [subject EXCEPT ![agent(i)] = NoKey]
      PROVE  ControlTypes' /\ ReturnsOK' /\ SubjectsOK'
  <2>1. step \in Steps \ {"insert"} /\ step # "drain"
    BY DEF Steps
  <2>2. Goto(agent(i), step) \/ \E r \in Returns : Call(agent(i), step, r)
    BY <1>0, <1>1
  <2> QED  BY <1>0, <1>1, <2>1, <2>2, AgentMoveTypes
<1>2. ASSUME Done(i)  PROVE ControlTypes' /\ ReturnsOK' /\ SubjectsOK'
  <2>1. "idle" \in Steps \ {"drain", "store"} /\ "idle" # "insert"
    BY DEF Steps
  <2>2. /\ \E r \in Returns : Call(request(i), "idle", r)
        /\ subject' = [subject EXCEPT ![request(i)] = NoKey]
    BY <1>0, <1>2 DEF Done
  <2> QED  BY <1>0, <2>1, <2>2, RequestMoveTypes
<1> QED  BY <1>1, <1>2

\* Control of any thread moves to a step that is neither of a rotation nor an
\* insert, its subject staying as it is.
LEMMA ThreadMoveTypes ==
    ASSUME Typed, NEW t \in Threads, NEW step \in Steps \ {"drain", "store", "insert"},
           Goto(t, step) \/ \E r \in Returns : Call(t, step, r),
           UNCHANGED subject
    PROVE  ControlTypes' /\ ReturnsOK' /\ SubjectsOK'
<1>1. ControlTypes /\ ReturnsOK /\ SubjectsOK
  BY DEF Typed
<1>2. /\ pc' \in [Threads -> Steps] /\ next' \in [Threads -> Steps] /\ ReturnsOK'
      /\ pc'[t] = step /\ \A u \in Threads \ {t} : pc'[u] = pc[u]
  BY <1>1, CallTypes, GotoTypes
<1>3. SubjectsOK'
  BY <1>1, <1>2, ThreadFacts DEF SubjectsOK
<1> QED  BY <1>1, <1>2, <1>3 DEF ControlTypes

\* The active key a thread reads is a key, or there is none.
LEMMA ActiveKeyFacts ==
    /\ AnActiveKey \subseteq Kids \cup {NoKey}
    /\ \A k \in AnActiveKey : k # NoKey => status[k] = "active"
    /\ NoKey \in AnActiveKey => KeysWith({"active"}) = {}
    /\ NoKey \notin Kids
BY KeyRotationAssumption DEF AnActiveKey, KeysWith, Kids, NoKey

\* refresh_cache keeps the types, whichever thread runs it and however Turso
\* answers.
LEMMA RefreshTypes ==
    ASSUME Typed, NEW t \in Threads, refresh_cache(t) \/ get_verification_keys_turso(t)
    PROVE  Typed'
<1>0. t[1] \in Instances /\ KeysWith({"active", "draining"}) \subseteq Kids
  BY ThreadFacts DEF KeysWith
<1>1. CASE refresh_reads(t) /\ UNCHANGED <<table, process, cache, stale, subject, outputs, budget>>
  <2>1. CacheTypes'
    <3>1. read \in [Threads -> Caches]
      BY DEF Typed, CacheTypes
    <3>2. CASE \E k \in AnActiveKey : read' = [read EXCEPT ![t].active = k]
      <4>1. PICK k \in Kids \cup {NoKey} : read' = [read EXCEPT ![t].active = k]
        BY <3>2, ActiveKeyFacts
      <4>2. read' \in [Threads -> Caches]
        BY <3>1, <4>1, CachesFields
      <4> QED  BY <1>1, <4>2 DEF Typed, CacheTypes
    <3>3. CASE read' = [read EXCEPT ![t].verification = KeysWith({"active", "draining"})]
      BY <1>0, <1>1, <3>1, <3>3, CachesFields DEF Typed, CacheTypes
    <3> QED  BY <1>1, <3>2, <3>3 DEF refresh_reads
  <2>2. ControlTypes' /\ ReturnsOK' /\ SubjectsOK'
    <3>1. \E step \in {"refreshKeys", "refreshWrite"} : Goto(t, step)
      BY <1>1 DEF refresh_reads
    <3> QED  BY <1>1, <3>1, ThreadMoveTypes DEF Steps
  <2> QED  BY <1>1, <2>1, <2>2, TypesFrame, KeysLeftFrame DEF Typed, table
<1>2. CASE refresh_cache(t) /\ pc[t] = "refreshWrite"
  <2>1. next[t] \in Returns
    BY DEF Typed, ReturnsOK
  <2>2. ControlTypes' /\ ReturnsOK' /\ SubjectsOK'
    BY <1>2, <2>1, ThreadMoveTypes DEF refresh_cache, refresh_reads, Returns, Steps
  <2>3. CacheTypes'
    BY <1>0, <1>2, CachesFields DEF refresh_cache, refresh_reads, Typed, CacheTypes
  <2>4. ProcessTypes'
    BY <1>0, <1>2 DEF refresh_cache, refresh_reads, Typed, ProcessTypes
  <2>5. UNCHANGED <<table, outputs, budget>>
    BY <1>2 DEF refresh_cache, refresh_reads
  <2> QED  BY <2>2, <2>3, <2>4, <2>5, TypesFrame, KeysLeftFrame DEF Typed, table
<1>3. CASE get_verification_keys_turso(t)
  <2>1. budget' \in Budget /\ budget'.keys = budget.keys
    BY <1>3, SpendBudget DEF get_verification_keys_turso, Typed, Spendable
  <2>2. ControlTypes' /\ ReturnsOK' /\ SubjectsOK'
    BY <1>3, ThreadMoveTypes DEF get_verification_keys_turso, Steps
  <2>3. CacheTypes'
    <3>1. PICK k \in Kids :
            read' = [read EXCEPT ![t].verification = {l \in KeysWith({"active", "draining"}) : l > k},
                                 ![t].whole = FALSE]
      BY <1>0, <1>3 DEF get_verification_keys_turso
    <3>2. PICK v \in SUBSET Kids : read' = [read EXCEPT ![t].verification = v, ![t].whole = FALSE]
      BY <1>0, <3>1
    <3>3. read'[t] = [read[t] EXCEPT !.verification = v, !.whole = FALSE]
      BY <3>2 DEF Typed, CacheTypes
    <3>4. read' \in [Threads -> Caches]
      BY <3>2, <3>3, CachesFields DEF Typed, CacheTypes
    <3> QED  BY <1>3, <3>4 DEF get_verification_keys_turso, Typed, CacheTypes
  <2> QED  BY <1>3, <2>1, <2>2, <2>3, TypesFrame, KeysLeftFrame
             DEF get_verification_keys_turso, Typed, table
<1> QED  BY <1>1, <1>2, <1>3 DEF refresh_cache

\* store_key finds a kid that no key has had.
LEMMA FreshKey ==
    ASSUME Typed, NEW i \in Instances, store_key(i)
    PROVE  \E k \in KeysWith({"absent"}) :
               /\ status' = [status EXCEPT ![k] = "active"]
               /\ replaced' = [replaced EXCEPT ![k] = subject[agent(i)]]
<1>1. PICK k : k = Min(KeysWith({"absent"}))
  OBVIOUS
<1>2. budget.keys > 0 /\ budget.keys \in Nat
  <2>1. Spend("keys") /\ "keys" \in Spendable /\ budget \in Budget
    BY DEF store_key, Typed, Spendable
  <2> QED  BY <2>1, SpendBudget, KeyRotationAssumption DEF Budget
<1>3. IsFiniteSet(KeysWith({"absent"})) /\ KeysWith({"absent"}) \subseteq Nat
  BY KeyRotationAssumption, FS_Interval, FS_Subset DEF KeysWith, Kids
<1>4. k \in KeysWith({"absent"})
  BY <1>1, <1>2, <1>3, MinIsMember, FS_EmptySet DEF Typed, KeysLeft
<1> QED  BY <1>1, <1>4 DEF store_key

\* The agent's steps keep the types.
LEMMA AgentTypes ==
    ASSUME Typed, NEW i \in Instances,
           \/ init_key_rotation(i) \/ CheckRotation(i) \/ ForceRotation(i)
           \/ prepare(i) \/ decide(i) \/ rotate(i) \/ drain_old(i) \/ store_key(i)
           \/ store_key_surrealdb(i) \/ update_key_status_surrealdb(i) \/ StorageFails(i)
    PROVE  Typed'
<1> USE TypesFrame, KeysLeftFrame
<1>0. agent(i) \in Threads /\ agent(i)[1] = i
  BY ThreadFacts
<1>1. CASE init_key_rotation(i)
  <2>1. ControlTypes' /\ ReturnsOK' /\ SubjectsOK'
    <3>1. CASE Call(agent(i), "refresh", "idle")
      BY <1>0, <1>1, <3>1, ThreadMoveTypes DEF init_key_rotation, Returns, Steps
    <3>2. CASE UNCHANGED <<pc, next>>
      BY <1>1, <3>2 DEF init_key_rotation, Typed
    <3> QED  BY <1>1, <3>1, <3>2 DEF init_key_rotation
  <2>2. ProcessTypes'
    BY <1>1 DEF init_key_rotation, Typed, ProcessTypes
  <2> QED  BY <1>1, <2>1, <2>2 DEF init_key_rotation, Typed, table
<1>2. CASE CheckRotation(i) \/ ForceRotation(i)
  <2>1. \E step \in {"check", "capture"} : retire_expired(i, step)
    BY <1>2 DEF CheckRotation, ForceRotation
  <2>2. PICK step \in {"check", "capture"} : retire_expired(i, step)
    BY <2>1
  <2>3. Goto(agent(i), step) /\ status' = status
    BY <2>2, NothingExpires DEF retire_expired, Typed, TableTypes
  <2>4. ControlTypes' /\ ReturnsOK' /\ SubjectsOK'
    BY <1>0, <1>2, <2>3, ThreadMoveTypes DEF CheckRotation, ForceRotation, Steps
  <2>5. ProcessTypes'
    BY <1>2 DEF CheckRotation, ForceRotation, Typed, ProcessTypes
  <2>6. budget' \in Budget /\ budget'.keys = budget.keys
    BY <1>2, SpendBudget DEF CheckRotation, ForceRotation, Typed, Spendable
  <2> QED  BY <1>2, <2>3, <2>4, <2>5, <2>6 DEF CheckRotation, ForceRotation, Typed, table
<1>3. CASE prepare(i)
  <2>1. \E r \in {"decide", "rotate"} : Call(agent(i), "refresh", r)
    BY <1>3 DEF prepare, refresh_stale
  <2>2. ControlTypes' /\ ReturnsOK' /\ SubjectsOK'
    BY <1>0, <1>3, <2>1, ThreadMoveTypes DEF prepare, Returns, Steps
  <2> QED  BY <1>3, <2>2 DEF prepare, Typed, table
<1>4. CASE decide(i)
  <2>1. \E step \in {"capture", "idle"} : Goto(agent(i), step)
    BY <1>4 DEF decide
  <2>2. ControlTypes' /\ ReturnsOK' /\ SubjectsOK'
    BY <1>0, <1>4, <2>1, ThreadMoveTypes DEF decide, Steps
  <2> QED  BY <1>4, <2>2 DEF decide, Typed, table
<1>5. CASE rotate(i)
  <2>1. PICK old \in AnActiveKey :
          /\ subject' = [subject EXCEPT ![agent(i)] = old]
          /\ Goto(agent(i), IF old = NoKey THEN "store" ELSE "drain")
    BY <1>5 DEF rotate
  <2>2. PICK step : step = IF old = NoKey THEN "store" ELSE "drain"
    OBVIOUS
  <2>3. /\ step \in Steps \ {"insert"} /\ old \in Kids \cup {NoKey} /\ (step = "drain" => old \in Kids)
        /\ Goto(agent(i), step)
    BY <2>1, <2>2, ActiveKeyFacts DEF Steps
  <2>4. ControlTypes' /\ ReturnsOK' /\ SubjectsOK'
    BY <2>1, <2>3, AgentMoveTypes
  <2> QED  BY <1>5, <2>4 DEF rotate, Typed, table
<1>6. CASE drain_old(i)
  <2>1. subject[agent(i)] \in Kids /\ subject \in [Threads -> Kids \cup {NoKey}]
    BY <1>6 DEF drain_old, Typed, SubjectsOK, ControlTypes
  <2>2. CASE Drain(i, "draining") /\ status[subject[agent(i)]] = "active"
    <3>1. ControlTypes' /\ ReturnsOK' /\ SubjectsOK'
      <4>1. subject' = [subject EXCEPT ![agent(i)] = subject[agent(i)]] /\ Goto(agent(i), "store")
        BY <2>1, <2>2 DEF Drain
      <4> QED  BY <2>1, <4>1, AgentMoveTypes DEF Steps
    <3>2. TableTypes' /\ KeysWith({"absent"})' = KeysWith({"absent"})
      BY <1>6, <2>1, <2>2 DEF drain_old, drainUnchanged, Drain, Typed, TableTypes, Status, KeysWith
    <3>3. KeysLeft'
      BY <1>6, <3>2 DEF drain_old, drainUnchanged, KeysLeft, Typed
    <3> QED  BY <1>6, <3>1, <3>2, <3>3 DEF drain_old, drainUnchanged, Typed
  <2>3. CASE Goto(agent(i), "idle") /\ subject' = [subject EXCEPT ![agent(i)] = NoKey] /\ UNCHANGED status
    <3>1. ControlTypes' /\ ReturnsOK' /\ SubjectsOK'
      BY <2>3, AgentMoveTypes DEF Steps
    <3> QED  BY <1>6, <2>3, <3>1 DEF drain_old, drainUnchanged, Typed, table
  <2> QED  BY <1>6, <2>2, <2>3 DEF drain_old
<1>7. CASE store_key(i)
  <2>1. PICK k \in KeysWith({"absent"}) :
          /\ status' = [status EXCEPT ![k] = "active"]
          /\ replaced' = [replaced EXCEPT ![k] = subject[agent(i)]]
    BY <1>7, FreshKey
  <2>2. /\ budget' \in Budget /\ budget'.keys = budget.keys - 1 /\ budget.keys \in Nat
    <3>1. Spend("keys") /\ "keys" \in Spendable /\ budget \in Budget
      BY <1>7 DEF store_key, Typed, Spendable
    <3> QED  BY <3>1, SpendBudget, KeyRotationAssumption DEF Budget
  <2>3. IsFiniteSet(KeysWith({"absent"}))
    BY KeyRotationAssumption, FS_Interval, FS_Subset DEF KeysWith, Kids
  <2>6. TableTypes'
    BY <1>0, <1>7, <2>1 DEF store_key, Typed, TableTypes, ControlTypes, Status, KeysWith
  <2>7. KeysWith({"absent"})' = KeysWith({"absent"}) \ {k}
    BY <2>1 DEF KeysWith, Typed, TableTypes
  <2>8. KeysLeft'
    <3>1. Cardinality(KeysWith({"absent"}) \ {k}) = Cardinality(KeysWith({"absent"})) - 1
      BY <2>1, <2>3, FS_RemoveElement
    <3>2. Cardinality(KeysWith({"absent"})) \in Nat /\ Cardinality(KeysWith({"absent"})) >= budget.keys
      BY <2>3, FS_CardinalityType DEF Typed, KeysLeft
    <3>3. Cardinality(KeysWith({"absent"}) \ {k}) >= budget'.keys
      BY <2>2, <3>1, <3>2
    <3> QED  BY <2>7, <3>3 DEF KeysLeft
  <2>9. ControlTypes' /\ ReturnsOK' /\ SubjectsOK'
    BY <1>7, ThreadEndTypes DEF store_key
  <2> QED  BY <1>7, <2>2, <2>6, <2>8, <2>9 DEF store_key, Typed
<1>8. CASE store_key_surrealdb(i) \/ update_key_status_surrealdb(i)
  <2>1. ControlTypes' /\ ReturnsOK' /\ SubjectsOK'
    <3>1. /\ Goto(agent(i), "idle") \/ Call(agent(i), "refresh", "idle")
          /\ subject' = [subject EXCEPT ![agent(i)] = NoKey]
      BY <1>8 DEF store_key_surrealdb, update_key_status_surrealdb
    <3> QED  BY <3>1, ThreadEndTypes
  <2>2. budget' \in Budget /\ budget'.keys = budget.keys
    BY <1>8, SpendBudget DEF store_key_surrealdb, update_key_status_surrealdb, Typed, Spendable
  <2> QED  BY <1>8, <2>1, <2>2 DEF store_key_surrealdb, update_key_status_surrealdb, Typed, table
<1>9. CASE StorageFails(i)
  <2>1. PICK step : step = IF next[agent(i)] = "rotate" THEN "rotate" ELSE "idle"
    OBVIOUS
  <2>2. ControlTypes' /\ ReturnsOK' /\ SubjectsOK'
    BY <1>9, <2>1, ThreadEndTypes DEF StorageFails
  <2>3. budget' \in Budget /\ budget'.keys = budget.keys
    BY <1>9, SpendBudget DEF StorageFails, Typed, Spendable
  <2>4. ProcessTypes'
    BY <1>9 DEF StorageFails, Typed, ProcessTypes
  <2>5. CacheTypes'
    BY <1>9, CachesFields DEF StorageFails, Typed, CacheTypes
  <2> QED  BY <1>9, <2>2, <2>3, <2>4, <2>5 DEF StorageFails, Typed, table
<1> QED  BY <1>1, <1>2, <1>3, <1>4, <1>5, <1>6, <1>7, <1>8, <1>9

\* The steps of requests keep the types.
LEMMA RequestTypes ==
    ASSUME Typed, NEW i \in Instances,
           lookup(i) \/ sign(i) \/ validate_jwt(i) \/ validate_paseto(i) \/ RequestFails(i)
    PROVE  Typed'
<1> USE TypesFrame, KeysLeftFrame
<1>0. /\ request(i) \in Threads /\ request(i)[1] = i
      /\ tokens \subseteq Kids /\ NoKey \in Kids \cup {NoKey}
  BY ThreadFacts DEF Typed, OutputTypes
<1>1. CASE lookup(i)
  <2>1. ControlTypes' /\ ReturnsOK' /\ SubjectsOK'
    <3>1. CASE Call(request(i), "refresh", "sign") /\ UNCHANGED subject
      BY <1>0, <3>1, ThreadMoveTypes DEF Steps, Returns
    <3>2. CASE /\ Call(request(i), "refresh", "tryAll")
               /\ \E k \in tokens : subject' = [subject EXCEPT ![request(i)] = k]
      BY <1>0, <3>2, RequestMoveTypes DEF Steps, Returns
    <3> QED  BY <1>1, <3>1, <3>2 DEF lookup, refresh_stale
  <2> QED  BY <1>1, <2>1 DEF lookup, Typed, table
<1>2. ASSUME Done(i)  PROVE ControlTypes' /\ ReturnsOK' /\ SubjectsOK'
  BY <1>2, ThreadEndTypes
<1>3. CASE sign(i)
  <2>1. OutputTypes'
    BY <1>3 DEF sign, Typed, OutputTypes, CacheTypes, Caches
  <2> QED  BY <1>2, <1>3, <2>1 DEF sign, Typed, table
<1>4. ASSUME NEW k \in tokens, get_verification_key(i, k), UNCHANGED tokens
      PROVE  ControlTypes' /\ ReturnsOK' /\ SubjectsOK' /\ OutputTypes'
  <2>1. CASE /\ Goto(request(i), "insert") /\ subject' = [subject EXCEPT ![request(i)] = k]
             /\ UNCHANGED rejected
    BY <1>0, <1>4, <2>1, RequestMoveTypes DEF Steps, outputs, Typed
  <2>2. CASE Refuse(k, "jwt") /\ UNCHANGED <<pc, next, subject>>
    <3>1. OutputTypes'
      BY <1>0, <1>4, <2>2 DEF Refuse, OutputTypes, Typed
    <3> QED  BY <2>2, <3>1 DEF Typed
  <2> QED  BY <1>4, <2>1, <2>2 DEF get_verification_key
<1>5. CASE validate_jwt(i)
  <2>1. CASE pc[request(i)] = "insert" /\ Done(i)
             /\ cache' = [cache EXCEPT ![i].verification = @ \cup {subject[request(i)]}]
             /\ UNCHANGED <<table, process, stale, read, outputs, budget>>
    <3>1. subject[request(i)] \in Kids
      BY <2>1 DEF Typed, SubjectsOK
    <3>2. PICK v : v = cache[i].verification \cup {subject[request(i)]}
      OBVIOUS
    <3>3. v \in SUBSET Kids /\ cache' = [cache EXCEPT ![i].verification = v]
      BY <2>1, <3>1, <3>2 DEF Typed, CacheTypes, Caches
    <3>4. cache' \in [Instances -> Caches]
      BY <3>3, CachesFields DEF Typed, CacheTypes
    <3>5. CacheTypes'
      BY <2>1, <3>4 DEF Typed, CacheTypes
    <3> QED  BY <1>2, <2>1, <3>5 DEF Typed, table
  <2>2. CASE (\E k \in tokens : get_verification_key(i, k))
             /\ UNCHANGED <<table, process, cache, stale, read, tokens, budget>>
    BY <1>4, <2>2 DEF Typed, table
  <2> QED  BY <1>5, <2>1, <2>2 DEF validate_jwt
<1>6. CASE validate_paseto(i)
  <2>1. OutputTypes'
    BY <1>0, <1>6 DEF validate_paseto, Refuse, OutputTypes, Typed
  <2>2. ControlTypes' /\ ReturnsOK' /\ SubjectsOK'
    BY <1>2, <1>6 DEF validate_paseto
  <2>3. UNCHANGED <<table, process, cache, stale, read, budget>>
    BY <1>6 DEF validate_paseto
  <2> QED  BY <2>1, <2>2, <2>3 DEF Typed, table
<1>7. CASE RequestFails(i)
  <2>1. budget' \in Budget /\ budget'.keys = budget.keys
    BY <1>7, SpendBudget DEF RequestFails, Typed, Spendable
  <2>2. CacheTypes'
    BY <1>7, CachesFields DEF RequestFails, Typed, CacheTypes
  <2> QED  BY <1>2, <1>7, <2>1, <2>2 DEF RequestFails, Typed, table
<1> QED  BY <1>1, <1>3, <1>5, <1>6, <1>7

\* Types and the facts with them hold initially and are kept by every step.
LEMMA TypedInductive ==
    /\ Init => Typed
    /\ Typed /\ [Next]_vars => Typed'
<1>1. ASSUME Init  PROVE Typed
  <2>1. budget \in Budget
    BY <1>1, KeyRotationAssumption DEF Init
  <2>2. TableTypes /\ OutputTypes
    BY <1>1 DEF Init, TableTypes, OutputTypes, Status, NoKey
  <2>3. ProcessTypes
    BY <1>1 DEF Init, ProcessTypes
  <2>4. CacheTypes
    BY <1>1, CachesFields DEF Init, CacheTypes
  <2>5. ControlTypes /\ ReturnsOK /\ SubjectsOK
    BY <1>1, ThreadFacts DEF Init, ControlTypes, ReturnsOK, SubjectsOK, Steps, Returns, NoKey
  <2>6. KeysLeft
    <3>1. KeysWith({"absent"}) = 1 .. MaxKeys
      BY <1>1 DEF Init, KeysWith, Kids
    <3>2. Cardinality(1 .. MaxKeys) = MaxKeys
      BY KeyRotationAssumption, FS_Interval
    <3>3. budget.keys \in 0 .. MaxKeys
      BY <2>1 DEF Budget
    <3> QED  BY <3>1, <3>2, <3>3, KeyRotationAssumption DEF KeysLeft
  <2> QED  BY <2>1, <2>2, <2>3, <2>4, <2>5, <2>6 DEF Typed
<1>2. ASSUME Typed, UNCHANGED vars  PROVE Typed'
  BY <1>2, TypesFrame, KeysLeftFrame DEF vars, Typed, threads, table
<1>3. ASSUME Typed, Next  PROVE Typed'
  BY <1>3, EnvironmentTypes, CrashTypes, RefreshTypes, AgentTypes, RequestTypes, ThreadFacts
     DEF Next, AgentStep, RequestStep
<1> QED  BY <1>1, <1>2, <1>3

\* The table, the caches and the threads keep their types, whatever fails and
\* crashes: there is always a kid for store_key, and drain_old has a key.
THEOREM TypeCorrect == Spec => []TypeOK
<1>1. Typed => TypeOK
  BY DEF Typed, TypeOK, TableTypes, ProcessTypes, ControlTypes, CacheTypes, OutputTypes
<1> QED  BY <1>1, TypedInductive, PTL DEF Spec

-----------------------------------------------------------------------------
(* What a step does to the table and to the threads.                       *)

\* The conditional UPDATE that drains a key, and the INSERT of a new one.
Drains(i) ==
    /\ drain_old(i) /\ subject[agent(i)] \in Kids /\ status[subject[agent(i)]] = "active"
    /\ status' = [status EXCEPT ![subject[agent(i)]] = "draining"]
    /\ pc' = [pc EXCEPT ![agent(i)] = "store"]
    /\ UNCHANGED <<replaced, subject>>

Stores(i, k) ==
    /\ pc[agent(i)] = "store" /\ status[k] = "absent"
    /\ status' = [status EXCEPT ![k] = "active"]
    /\ replaced' = [replaced EXCEPT ![k] = subject[agent(i)]]
    /\ pc' = [pc EXCEPT ![agent(i)] = "refresh"]
    /\ subject' = [subject EXCEPT ![agent(i)] = NoKey]

\* They are the only steps that change which key has which status.
LEMMA TableMoves ==
    ASSUME Typed, [Next]_vars
    PROVE  \/ UNCHANGED <<status, replaced>>
           \/ \E i \in Instances : Drains(i)
           \/ \E i \in Instances, k \in Kids : Stores(i, k)
<1>1. CASE UNCHANGED vars
  BY <1>1 DEF vars, table
<1>2. ASSUME NEW k \in Kids, Age(k) \/ DrainElapses(k)  PROVE UNCHANGED <<status, replaced>>
  BY <1>2 DEF Age, DrainElapses
<1>3. ASSUME NEW i \in Instances, CheckRotation(i) \/ ForceRotation(i)  PROVE UNCHANGED <<status, replaced>>
  BY <1>3, NothingExpires DEF CheckRotation, ForceRotation, retire_expired, Typed, TableTypes
<1>4. ASSUME NEW i \in Instances, drain_old(i)  PROVE Drains(i) \/ UNCHANGED <<status, replaced>>
  BY <1>4 DEF drain_old, drainUnchanged, Drain, Goto, Call, Drains, Typed, SubjectsOK
<1>5. ASSUME NEW i \in Instances, store_key(i)  PROVE \E k \in Kids : Stores(i, k)
  BY <1>5, FreshKey DEF store_key, Call, Stores, KeysWith
<1>6. ASSUME NEW t \in Threads, refresh_cache(t) \/ get_verification_keys_turso(t)
      PROVE  UNCHANGED <<status, replaced>>
  BY <1>6 DEF refresh_cache, get_verification_keys_turso, table
<1>7. ASSUME NEW i \in Instances,
             \/ PoolConnects(i) \/ CacheExpires(i) \/ Crash(i) \/ Restart(i) \/ init_key_rotation(i)
             \/ prepare(i) \/ decide(i) \/ rotate(i) \/ store_key_surrealdb(i)
             \/ update_key_status_surrealdb(i) \/ StorageFails(i)
             \/ lookup(i) \/ sign(i) \/ validate_jwt(i) \/ validate_paseto(i) \/ RequestFails(i)
      PROVE  UNCHANGED <<status, replaced>>
  BY <1>7 DEF PoolConnects, CacheExpires, Crash, Restart, init_key_rotation, prepare, decide, rotate,
       store_key_surrealdb, update_key_status_surrealdb, StorageFails, lookup, sign, validate_jwt,
       validate_paseto, RequestFails, table
<1> QED  BY <1>1, <1>2, <1>3, <1>4, <1>5, <1>6, <1>7, ThreadFacts DEF Next, AgentStep, RequestStep

\* A step of thread u: no other thread moves and no other instance changes mode.
Moves(u) ==
    /\ pc[u] # "idle" \/ mode[u[1]] # "down"
    /\ \A v \in Threads \ {u} : pc'[v] = pc[v] /\ subject'[v] = subject[v]
    /\ \A i \in Instances \ {u[1]} : mode'[i] = mode[i]

\* A step of u that enters neither step of a rotation.
Aside(u) == Moves(u) /\ pc'[u] \notin {"drain", "store"}

\* Who moves: one thread at a time, aside from crashes and restarts.
LEMMA ThreadMoves ==
    ASSUME Typed, [Next]_vars
    PROVE  \/ UNCHANGED <<pc, subject, mode>>
           \/ \E i \in Instances : Crash(i) \/ Restart(i)
           \/ \E i \in Instances : Moves(agent(i)) /\ (rotate(i) \/ drain_old(i))
           \/ \E u \in Threads : Aside(u)
<1>0. /\ pc \in [Threads -> Steps] /\ next \in [Threads -> Steps]
      /\ subject \in [Threads -> Kids \cup {NoKey}]
      /\ mode \in [Instances -> {"boot", "on", "off", "down"}]
      /\ \A t \in Threads : next[t] \notin {"drain", "store"}
  BY DEF Typed, ControlTypes, ProcessTypes, ReturnsOK, Returns
<1>1. CASE UNCHANGED vars
  BY <1>1 DEF vars, threads, process
<1>2. ASSUME NEW k \in Kids, Age(k) \/ DrainElapses(k)  PROVE UNCHANGED <<pc, subject, mode>>
  BY <1>2 DEF Age, DrainElapses, threads, process
<1>3. ASSUME NEW i \in Instances, PoolConnects(i) \/ CacheExpires(i)  PROVE UNCHANGED <<pc, subject, mode>>
  BY <1>3 DEF PoolConnects, CacheExpires, threads, process
<1>4. ASSUME NEW t \in Threads, refresh_cache(t) \/ get_verification_keys_turso(t)  PROVE Aside(t)
  BY <1>0, <1>4, ThreadFacts
     DEF refresh_cache, refresh_reads, get_verification_keys_turso, Goto, Call, process, Aside, Moves
<1>5. ASSUME NEW i \in Instances, rotate(i) \/ drain_old(i)  PROVE Moves(agent(i))
  BY <1>0, <1>5, ThreadFacts
     DEF rotate, HasCache, drain_old, drainUnchanged, Drain, Goto, Call, process, Moves
<1>7. ASSUME NEW i \in Instances, init_key_rotation(i)  PROVE Aside(agent(i))
  BY <1>0, <1>7, ThreadFacts DEF init_key_rotation, Call, Aside, Moves
<1>8. ASSUME NEW i \in Instances, CheckRotation(i) \/ ForceRotation(i)  PROVE Aside(agent(i))
  <2>1. \E step \in {"check", "capture"} : Goto(agent(i), step)
    BY <1>8, NothingExpires DEF CheckRotation, ForceRotation, retire_expired
  <2> QED  BY <1>0, <1>8, <2>1, ThreadFacts DEF CheckRotation, ForceRotation, Goto, Call, Aside, Moves
<1>9. ASSUME NEW i \in Instances, prepare(i) \/ decide(i)  PROVE Aside(agent(i))
  BY <1>0, <1>9, ThreadFacts DEF prepare, refresh_stale, decide, HasCache, Goto, Call, process, Aside, Moves
<1>10. ASSUME NEW i \in Instances,
              store_key(i) \/ store_key_surrealdb(i) \/ update_key_status_surrealdb(i) \/ StorageFails(i)
       PROVE  Aside(agent(i))
  BY <1>0, <1>10, ThreadFacts DEF store_key, store_key_surrealdb, update_key_status_surrealdb, StorageFails,
     HasCache, Goto, Call, process, Aside, Moves
<1>11. ASSUME NEW i \in Instances, lookup(i)  PROVE Aside(request(i))
  BY <1>0, <1>11, ThreadFacts DEF lookup, IdleSigning, IdleValidating, Idle, refresh_stale, Call, process,
     Aside, Moves
<1>12. ASSUME NEW i \in Instances, sign(i) \/ validate_paseto(i) \/ RequestFails(i)  PROVE Aside(request(i))
  BY <1>0, <1>12, ThreadFacts DEF sign, validate_paseto, RequestFails, IdleSigning, IdleValidating, Idle,
     Done, Call, process, Aside, Moves
<1>13. ASSUME NEW i \in Instances, validate_jwt(i)  PROVE Aside(request(i)) \/ UNCHANGED <<pc, subject, mode>>
  BY <1>0, <1>13, ThreadFacts DEF validate_jwt, get_verification_key, IdleValidating, Idle, Done, Goto, Call,
     process, Aside, Moves
<1> QED
  BY <1>1, <1>2, <1>3, <1>4, <1>5, <1>7, <1>8, <1>9, <1>10, <1>11, <1>12, <1>13, ThreadFacts
     DEF Next, AgentStep, RequestStep

\* The rotations' steps as the agents see them: at "drain" and "store" an agent
\* came there by rotate or drain_old, or has not moved.
Arrives(i) ==
    \/ pc'[agent(i)] \notin {"drain", "store"}
    \/ pc'[agent(i)] = pc[agent(i)] /\ subject'[agent(i)] = subject[agent(i)]
    \/ rotate(i)
    \/ Drains(i)

\* There is no other way to those steps.
LEMMA AgentMoves ==
    ASSUME Typed, [Next]_vars, NEW i \in Instances
    PROVE  Arrives(i)
<1>0. agent(i) \in Threads /\ pc \in [Threads -> Steps]
  BY ThreadFacts DEF Typed, ControlTypes
<1>1. ASSUME NEW u \in Threads, Aside(u)  PROVE Arrives(i)
  BY <1>0, <1>1 DEF Aside, Moves, Arrives
<1>2. ASSUME NEW j \in Instances, Moves(agent(j)), rotate(j) \/ drain_old(j)  PROVE Arrives(i)
  <2>1. CASE i # j
    <3>1. agent(i) \in Threads \ {agent(j)}
      BY <2>1, ThreadFacts
    <3> QED  BY <1>2, <3>1 DEF Moves, Arrives
  <2>2. CASE i = j /\ drain_old(i)
    <3>1. Drains(i) \/ pc' = [pc EXCEPT ![agent(i)] = "idle"]
      BY <2>2 DEF drain_old, drainUnchanged, Drain, Goto, Call, Drains, Typed, SubjectsOK
    <3> QED  BY <1>0, <3>1 DEF Arrives
  <2> QED  BY <1>2, <2>1, <2>2 DEF Arrives
<1>3. ASSUME NEW j \in Instances, Crash(j)  PROVE Arrives(i)
  BY <1>0, <1>3, ThreadFacts DEF Crash, Arrives
<1>4. CASE (\E j \in Instances : Restart(j)) \/ UNCHANGED <<pc, subject, mode>>
  BY <1>4 DEF Restart, threads, Arrives
<1> QED  BY <1>1, <1>2, <1>3, <1>4, ThreadMoves

-----------------------------------------------------------------------------
(* Keys are replaced once.                                                 *)

\* The agent of i has drained k and stores its successor.
Replacing(i, k) == pc[agent(i)] = "store" /\ subject[agent(i)] = k

\* A key that was replaced, or is about to be, is draining, and each such key
\* belongs to one rotation, finished or not.
OneRotationEach ==
    /\ \A k \in Kids : replaced[k] # NoKey => status[replaced[k]] = "draining"
    /\ \A i \in Instances, k \in Kids : Replacing(i, k) =>
           /\ status[k] = "draining"
           /\ \A l \in Kids : replaced[l] # k
           /\ \A j \in Instances : Replacing(j, k) => i = j
    /\ ReplacedOnce

\* It is inductive: rotate takes up no key yet, drain_old only one that is
\* active and so in no other rotation, and store_key ends the rotation.
LEMMA OneRotationEachInductive ==
    /\ Init => OneRotationEach
    /\ Typed /\ OneRotationEach /\ [Next]_vars => OneRotationEach'
<1>0. NoKey \notin Kids
  BY ActiveKeyFacts
<1>1. Init => OneRotationEach
  BY ThreadFacts DEF Init, OneRotationEach, ReplacedOnce, Replacing
<1>2. ASSUME Typed, OneRotationEach, [Next]_vars  PROVE OneRotationEach'
  <2>0. /\ status \in [Kids -> Status] /\ replaced \in [Kids -> Kids \cup {NoKey}]
        /\ subject \in [Threads -> Kids \cup {NoKey}] /\ pc \in [Threads -> Steps]
        /\ \A i \in Instances : agent(i) \in Threads
        /\ \A i, j \in Instances : agent(i) = agent(j) => i = j
    BY <1>2, ThreadFacts DEF Typed, TableTypes, ControlTypes
  <2>1. CASE UNCHANGED <<status, replaced>>
    <3>1. ASSUME NEW i \in Instances, NEW k \in Kids, Replacing(i, k)'  PROVE Replacing(i, k)
      <4>1. ~Drains(i)
        BY <2>0, <2>1 DEF Drains
      <4>2. ~rotate(i)
        <5>1. SUFFICES ASSUME rotate(i)  PROVE FALSE
          OBVIOUS
        <5>2. PICK old \in AnActiveKey :
                /\ subject' = [subject EXCEPT ![agent(i)] = old]
                /\ pc' = [pc EXCEPT ![agent(i)] = IF old = NoKey THEN "store" ELSE "drain"]
          BY <5>1 DEF rotate, Goto, Call
        <5> QED  BY <1>0, <2>0, <3>1, <5>2 DEF Replacing
      <4> QED  BY <1>2, <3>1, <4>1, <4>2, AgentMoves DEF Arrives, Replacing
    <3> QED  BY <1>2, <2>1, <3>1 DEF OneRotationEach, ReplacedOnce
  <2>2. ASSUME NEW i \in Instances, Drains(i)  PROVE OneRotationEach'
    <3>1. PICK old \in Kids : old = subject[agent(i)]
      BY <2>2 DEF Drains
    <3>2. /\ status[old] = "active" /\ status' = [status EXCEPT ![old] = "draining"]
          /\ pc' = [pc EXCEPT ![agent(i)] = "store"] /\ UNCHANGED <<replaced, subject>>
      BY <2>2, <3>1 DEF Drains
    <3>3. /\ \A k \in Kids : replaced[k] # old
          /\ \A j \in Instances : ~Replacing(j, old)
      BY <1>0, <1>2, <3>2 DEF OneRotationEach
    <3>4. \A j \in Instances, k \in Kids : Replacing(j, k)' => Replacing(j, k) \/ (j = i /\ k = old)
      BY <2>0, <3>1, <3>2 DEF Replacing
    <3>5. Replacing(i, old)'
      BY <2>0, <3>1, <3>2 DEF Replacing
    <3>6. \A k \in Kids : status[k] = "draining" => status'[k] = "draining"
      BY <2>0, <3>2
    <3>7. \A k \in Kids : replaced[k] # NoKey => replaced[k] \in Kids
      BY <2>0
    <3> HIDE DEF Replacing
    <3> QED  BY <1>2, <2>0, <3>2, <3>3, <3>4, <3>5, <3>6, <3>7 DEF OneRotationEach, ReplacedOnce
  <2>3. ASSUME NEW i \in Instances, NEW new \in Kids, Stores(i, new)  PROVE OneRotationEach'
    <3>1. PICK old \in Kids \cup {NoKey} : old = subject[agent(i)]
      BY <2>0
    <3>2. /\ pc[agent(i)] = "store" /\ status[new] = "absent"
          /\ status' = [status EXCEPT ![new] = "active"]
          /\ replaced' = [replaced EXCEPT ![new] = old]
          /\ pc' = [pc EXCEPT ![agent(i)] = "refresh"]
          /\ subject' = [subject EXCEPT ![agent(i)] = NoKey]
      BY <2>3, <3>1 DEF Stores
    <3>3. old # NoKey => Replacing(i, old)
      BY <3>1, <3>2 DEF Replacing
    <3>4. old # NoKey => /\ status[old] = "draining" /\ \A l \in Kids : replaced[l] # old
                         /\ \A j \in Instances : Replacing(j, old) => i = j
      BY <1>2, <3>1, <3>3 DEF OneRotationEach
    <3>5. \A j \in Instances, k \in Kids : Replacing(j, k)' => Replacing(j, k) /\ j # i
      BY <1>0, <2>0, <3>2 DEF Replacing
    <3>6. \A k \in Kids : status[k] = "draining" => status'[k] = "draining"
      BY <2>0, <3>2
    <3>7. \A k \in Kids : replaced[k] # NoKey => replaced[k] \in Kids
      BY <2>0
    <3>8. /\ replaced'[new] = old /\ \A k \in Kids \ {new} : replaced'[k] = replaced[k]
      BY <2>0, <3>2
    <3>9. \A k \in Kids : replaced'[k] # NoKey => status'[replaced'[k]] = "draining"
      BY <1>2, <3>1, <3>4, <3>6, <3>7, <3>8 DEF OneRotationEach
    <3>10. \A j \in Instances, k \in Kids : Replacing(j, k)' =>
             /\ status'[k] = "draining"
             /\ \A l \in Kids : replaced'[l] # k
             /\ \A h \in Instances : Replacing(h, k)' => j = h
      BY <1>0, <1>2, <3>4, <3>5, <3>6, <3>8 DEF OneRotationEach
    <3>11. ReplacedOnce'
      BY <1>2, <3>4, <3>8 DEF OneRotationEach, ReplacedOnce
    <3> QED  BY <3>9, <3>10, <3>11 DEF OneRotationEach
  <2> QED  BY <1>2, <2>1, <2>2, <2>3, TableMoves
<1> QED  BY <1>1, <1>2

\* No key is replaced by two rotations, for any number of instances rotating at
\* once: the UPDATE conditional on status = 'active' makes one of them win.
THEOREM KeysReplacedOnce == Spec => []ReplacedOnce
<1>1. OneRotationEach => ReplacedOnce
  BY DEF OneRotationEach
<1> QED  BY <1>1, TypedInductive, OneRotationEachInductive, PTL DEF Spec

-----------------------------------------------------------------------------
(* One active key where one instance runs.                                 *)

\* What is deployed does not change.
LEMMA DeployedStays ==
    ASSUME Typed, [Next]_vars
    PROVE  budget'.deployed = budget.deployed
<1>1. ASSUME NEW what \in Spendable, Spend(what)  PROVE budget'.deployed = budget.deployed
  BY <1>1, SpendBudget DEF Typed
<1>2. CASE UNCHANGED vars
  BY <1>2 DEF vars
<1>3. ASSUME NEW k \in Kids, Age(k) \/ DrainElapses(k)  PROVE budget'.deployed = budget.deployed
  BY <1>1, <1>3 DEF Age, DrainElapses, Spendable
<1>4. ASSUME NEW i \in Instances,
             \/ Crash(i) \/ ForceRotation(i) \/ store_key(i) \/ store_key_surrealdb(i)
             \/ update_key_status_surrealdb(i) \/ StorageFails(i) \/ RequestFails(i)
      PROVE  budget'.deployed = budget.deployed
  BY <1>1, <1>4 DEF Crash, ForceRotation, store_key, store_key_surrealdb,
       update_key_status_surrealdb, StorageFails, RequestFails, Spendable
<1>5. ASSUME NEW t \in Threads, refresh_cache(t) \/ get_verification_keys_turso(t)
      PROVE  budget'.deployed = budget.deployed
  BY <1>1, <1>5 DEF refresh_cache, get_verification_keys_turso, Spendable
<1>6. ASSUME NEW i \in Instances,
             \/ PoolConnects(i) \/ CacheExpires(i) \/ Restart(i) \/ init_key_rotation(i)
             \/ CheckRotation(i) \/ prepare(i) \/ decide(i) \/ rotate(i) \/ drain_old(i)
             \/ lookup(i) \/ sign(i) \/ validate_jwt(i) \/ validate_paseto(i)
      PROVE  budget'.deployed = budget.deployed
  BY <1>6 DEF PoolConnects, CacheExpires, Restart, init_key_rotation, CheckRotation, prepare, decide,
       rotate, drain_old, drainUnchanged, lookup, sign, validate_jwt, validate_paseto
<1> QED  BY <1>2, <1>3, <1>4, <1>5, <1>6, ThreadFacts DEF Next, AgentStep, RequestStep

\* An instance that is not deployed is down and none of its threads runs.
DeployedOnly ==
    \A i \in Instances \ budget.deployed :
        mode[i] = "down" /\ \A t \in Threads : t[1] = i => pc[t] = "idle"

\* It stays so: only what runs moves, and only what is deployed restarts.
LEMMA DeployedOnlyInductive ==
    /\ Init => DeployedOnly
    /\ Typed /\ DeployedOnly /\ [Next]_vars => DeployedOnly'
<1>1. Init => DeployedOnly
  BY DEF Init, DeployedOnly
<1>2. ASSUME Typed, DeployedOnly, [Next]_vars  PROVE DeployedOnly'
  <2>0. /\ budget'.deployed = budget.deployed /\ \A t \in Threads : t[1] \in Instances
        /\ pc \in [Threads -> Steps] /\ mode \in [Instances -> {"boot", "on", "off", "down"}]
    BY <1>2, DeployedStays, ThreadFacts DEF Typed, ControlTypes, ProcessTypes
  <2>1. ASSUME NEW u \in Threads, Moves(u)  PROVE DeployedOnly'
    <3>1. u[1] \in budget.deployed
      BY <1>2, <2>0, <2>1 DEF DeployedOnly, Moves
    <3> QED  BY <1>2, <2>0, <2>1, <3>1 DEF DeployedOnly, Moves
  <2>2. ASSUME NEW i \in Instances, Crash(i)  PROVE DeployedOnly'
    BY <1>2, <2>0, <2>2 DEF DeployedOnly, Crash
  <2>3. ASSUME NEW i \in Instances, Restart(i)  PROVE DeployedOnly'
    BY <1>2, <2>0, <2>3 DEF DeployedOnly, Restart, threads
  <2>4. CASE UNCHANGED <<pc, subject, mode>>
    BY <1>2, <2>0, <2>4 DEF DeployedOnly
  <2> QED  BY <1>2, <2>1, <2>2, <2>3, <2>4, ThreadMoves, ThreadFacts DEF Aside
<1> QED  BY <1>1, <1>2

\* Where one instance runs, a rotation that is about to store its key has left
\* none active.
OneActive ==
    IsSingle =>
        /\ \A k, l \in Kids : status[k] = "active" /\ status[l] = "active" => k = l
        /\ \A i \in Instances : pc[agent(i)] = "store" => \A k \in Kids : status[k] # "active"

\* It is inductive: no second agent can store a key between the two.
LEMMA OneActiveInductive ==
    /\ Init => OneActive
    /\ Typed /\ DeployedOnly /\ OneActive /\ [Next]_vars => OneActive'
<1>1. Init => OneActive
  BY DEF Init, OneActive
<1>2. ASSUME Typed, DeployedOnly, OneActive, [Next]_vars  PROVE OneActive'
  <2>0. /\ status \in [Kids -> Status] /\ pc \in [Threads -> Steps]
        /\ \A i \in Instances : agent(i) \in Threads /\ agent(i)[1] = i
        /\ \A i, j \in Instances : agent(i) = agent(j) => i = j
    BY <1>2, ThreadFacts DEF Typed, TableTypes, ControlTypes
  <2>1. IsSingle' <=> IsSingle
    BY <1>2, DeployedStays DEF IsSingle
  <2>2. SUFFICES ASSUME IsSingle
                 PROVE  /\ \A k, l \in Kids : status'[k] = "active" /\ status'[l] = "active" => k = l
                        /\ \A i \in Instances :
                             pc'[agent(i)] = "store" => \A k \in Kids : status'[k] # "active"
    BY <2>1 DEF OneActive
  <2>3. PICK only : budget.deployed = {only}
    <3>1. budget.deployed \subseteq Instances
      BY <1>2 DEF Typed, Budget
    <3>2. IsFiniteSet(budget.deployed)
      BY <3>1, KeyRotationAssumption, FS_Subset
    <3> QED  BY <2>2, <3>2, FS_Singleton DEF IsSingle
  <2>4. \A i \in Instances : pc[agent(i)] # "idle" => i = only
    BY <1>2, <2>0, <2>3 DEF DeployedOnly
  <2>5. /\ \A k, l \in Kids : status[k] = "active" /\ status[l] = "active" => k = l
        /\ \A i \in Instances : pc[agent(i)] = "store" => \A k \in Kids : status[k] # "active"
    BY <1>2, <2>2 DEF OneActive
  <2>6. CASE UNCHANGED <<status, replaced>>
    <3>1. ASSUME NEW i \in Instances, pc'[agent(i)] = "store", pc[agent(i)] # "store"
          PROVE  \A k \in Kids : status[k] # "active"
      <4>1. ~Drains(i)
        BY <2>0, <2>6 DEF Drains
      <4>2. rotate(i)
        BY <1>2, <3>1, <4>1, AgentMoves DEF Arrives
      <4>3. PICK old \in AnActiveKey : pc' = [pc EXCEPT ![agent(i)] = IF old = NoKey THEN "store" ELSE "drain"]
        BY <4>2 DEF rotate, Goto, Call
      <4>4. old = NoKey
        BY <2>0, <3>1, <4>3
      <4> QED  BY <4>3, <4>4, ActiveKeyFacts DEF KeysWith
    <3> QED  BY <2>5, <2>6, <3>1
  <2>7. ASSUME NEW i \in Instances, Drains(i)  PROVE OneActive'
    <3>1. PICK old \in Kids : old = subject[agent(i)]
      BY <2>7 DEF Drains
    <3>2. status[old] = "active" /\ status' = [status EXCEPT ![old] = "draining"]
      BY <2>7, <3>1 DEF Drains
    <3>3. \A k \in Kids : status'[k] # "active"
      BY <2>0, <2>5, <3>2
    <3> QED  BY <3>3 DEF OneActive
  <2>8. ASSUME NEW i \in Instances, NEW new \in Kids, Stores(i, new)  PROVE OneActive'
    <3>1. /\ pc[agent(i)] = "store" /\ status' = [status EXCEPT ![new] = "active"]
          /\ pc' = [pc EXCEPT ![agent(i)] = "refresh"]
      BY <2>8 DEF Stores
    <3>2. \A k \in Kids : status'[k] = "active" => k = new
      BY <2>0, <2>5, <3>1
    <3>3. \A j \in Instances : pc'[agent(j)] # "store"
      BY <2>0, <2>4, <3>1
    <3> QED  BY <3>2, <3>3 DEF OneActive
  <2> QED  BY <1>2, <2>1, <2>2, <2>6, <2>7, <2>8, TableMoves DEF OneActive
<1> QED  BY <1>1, <1>2

\* Where one instance runs at most one key is active, whatever call fails and
\* whenever the process crashes: rotate drains before it stores.
THEOREM SingleHasOneActive == Spec => []AtMostOneActive
<1>1. OneActive => AtMostOneActive
  BY DEF OneActive, AtMostOneActive, KeysWith
<1> QED  BY <1>1, TypedInductive, DeployedOnlyInductive, OneActiveInductive, PTL DEF Spec

-----------------------------------------------------------------------------
(* Signing keys stay verifiable.                                           *)

\* A key that verifies: get_verification_keys returns it.
InUse(k) == status[k] \in {"active", "draining"}

\* Keys stay in use, since none is retired.
LEMMA InUseStays ==
    ASSUME Typed, [Next]_vars, NEW k \in Kids, InUse(k)
    PROVE  InUse(k)'
<1>1. status \in [Kids -> Status]
  BY DEF Typed, TableTypes
<1>2. ASSUME NEW i \in Instances, Drains(i)  PROVE InUse(k)'
  BY <1>1, <1>2 DEF Drains, InUse
<1>3. ASSUME NEW i \in Instances, NEW new \in Kids, Stores(i, new)  PROVE InUse(k)'
  BY <1>1, <1>3 DEF Stores, InUse
<1> QED  BY <1>2, <1>3, TableMoves DEF InUse

\* What is cached or read as a signing key is in use, and once both reads of a
\* refresh are done it is among the verification keys.
CachesSound ==
    /\ \A t \in Threads :
           /\ read[t].active # NoKey => InUse(read[t].active)
           /\ pc[t] = "refreshWrite" /\ read[t].whole /\ read[t].active # NoKey =>
                  read[t].active \in read[t].verification
    /\ \A i \in Instances : cache[i].active # NoKey => InUse(cache[i].active)
    /\ SigningKeyVerifiable

\* Tokens are signed with keys in use, and stay so: no JWT is refused.
TokensSound == (\A k \in tokens : InUse(k)) /\ JwtAccepted

\* A step that leaves what was read and cached alone and ends no refresh.
NoCaching == UNCHANGED <<cache, read>> /\ \A t \in Threads : pc'[t] = "refreshWrite" => pc[t] = "refreshWrite"

\* Most steps do.
LEMMA CacheMoves ==
    ASSUME Typed, [Next]_vars
    PROVE  \/ NoCaching
           \/ \E i \in Instances : Crash(i) \/ StorageFails(i) \/ RequestFails(i) \/ validate_jwt(i)
           \/ \E t \in Threads : refresh_cache(t) \/ get_verification_keys_turso(t)
<1>0. /\ pc \in [Threads -> Steps] /\ \A i \in Instances : agent(i) \in Threads /\ request(i) \in Threads
  BY ThreadFacts DEF Typed, ControlTypes
<1>1. CASE UNCHANGED vars
  BY <1>1 DEF vars, threads, NoCaching
<1>2. ASSUME NEW k \in Kids, Age(k) \/ DrainElapses(k)  PROVE NoCaching
  BY <1>2 DEF Age, DrainElapses, threads, NoCaching
<1>3. ASSUME NEW i \in Instances, PoolConnects(i) \/ CacheExpires(i) \/ Restart(i)  PROVE NoCaching
  BY <1>3 DEF PoolConnects, CacheExpires, Restart, threads, NoCaching
<1>4. ASSUME NEW i \in Instances, init_key_rotation(i) \/ prepare(i) \/ decide(i) \/ rotate(i)
      PROVE  NoCaching
  BY <1>0, <1>4 DEF init_key_rotation, prepare, refresh_stale, decide, rotate, Goto, Call, NoCaching
<1>5. ASSUME NEW i \in Instances, CheckRotation(i) \/ ForceRotation(i)  PROVE NoCaching
  <2>1. \E step \in {"check", "capture"} : Goto(agent(i), step)
    BY <1>5, NothingExpires DEF CheckRotation, ForceRotation, retire_expired
  <2> QED  BY <1>0, <1>5, <2>1 DEF CheckRotation, ForceRotation, Goto, Call, NoCaching
<1>6. ASSUME NEW i \in Instances,
             drain_old(i) \/ store_key(i) \/ store_key_surrealdb(i) \/ update_key_status_surrealdb(i)
      PROVE  NoCaching
  BY <1>0, <1>6 DEF drain_old, drainUnchanged, Drain, store_key, store_key_surrealdb,
       update_key_status_surrealdb, Goto, Call, NoCaching
<1>7. ASSUME NEW i \in Instances, lookup(i) \/ sign(i) \/ validate_paseto(i)  PROVE NoCaching
  BY <1>0, <1>7 DEF lookup, refresh_stale, sign, validate_paseto, Done, Call, NoCaching
<1> QED  BY <1>1, <1>2, <1>3, <1>4, <1>5, <1>6, <1>7, ThreadFacts DEF Next, AgentStep, RequestStep

\* The refresh reads an active key first and the verification keys after it, so
\* that the key, active or drained since, is among them.
LEMMA CachesSoundInductive ==
    /\ Init => CachesSound
    /\ Typed /\ CachesSound /\ [Next]_vars => CachesSound'
<1>1. Init => CachesSound
  BY DEF Init, CachesSound, SigningKeyVerifiable, KeyCacheEmpty
<1>2. ASSUME Typed, CachesSound, [Next]_vars  PROVE CachesSound'
  <2>0. /\ pc \in [Threads -> Steps] /\ read \in [Threads -> Caches] /\ cache \in [Instances -> Caches]
        /\ next \in [Threads -> Steps] /\ \A t \in Threads : next[t] # "refreshWrite"
        /\ \A i \in Instances : agent(i) \in Threads /\ request(i) \in Threads
        /\ \A t \in Threads : t[1] \in Instances
    BY <1>2, ThreadFacts DEF Typed, ControlTypes, CacheTypes, ReturnsOK, Returns
  <2>1. \A c \in Caches : c.active # NoKey => c.active \in Kids
    BY DEF Caches
  <2>2. \A k \in Kids : InUse(k) => InUse(k)'
    BY <1>2, InUseStays
  <2>3. /\ \A t \in Threads : read[t].active # NoKey => InUse(read[t].active) /\ status'[read[t].active] \in {"active", "draining"}
        /\ \A i \in Instances : cache[i].active # NoKey => status'[cache[i].active] \in {"active", "draining"}
    BY <1>2, <2>0, <2>1, <2>2 DEF CachesSound, InUse
  <2>4. CASE NoCaching
    BY <1>2, <2>3, <2>4 DEF NoCaching, CachesSound, SigningKeyVerifiable, InUse
  <2>5. ASSUME NEW i \in Instances, Crash(i)  PROVE CachesSound'
    BY <1>2, <2>0, <2>3, <2>5 DEF Crash, CachesSound, SigningKeyVerifiable, KeyCacheEmpty, InUse
  <2>6. ASSUME NEW i \in Instances, NEW t \in Threads, UNCHANGED cache,
               read' = [read EXCEPT ![t] = KeyCacheEmpty],
               \A u \in Threads : pc'[u] = "refreshWrite" => pc[u] = "refreshWrite"
        PROVE  CachesSound'
    BY <1>2, <2>0, <2>3, <2>6 DEF CachesSound, SigningKeyVerifiable, KeyCacheEmpty, InUse
  <2>7. ASSUME NEW i \in Instances, StorageFails(i) \/ RequestFails(i)  PROVE CachesSound'
    <3>1. \E t \in Threads : read' = [read EXCEPT ![t] = KeyCacheEmpty]
      BY <2>0, <2>7 DEF StorageFails, RequestFails
    <3>2. UNCHANGED cache /\ \A u \in Threads : pc'[u] = "refreshWrite" => pc[u] = "refreshWrite"
      BY <2>0, <2>7 DEF StorageFails, RequestFails, Done, Call
    <3> QED  BY <2>6, <3>1, <3>2
  <2>8. ASSUME NEW i \in Instances, validate_jwt(i)  PROVE CachesSound'
    <3>1. UNCHANGED read /\ \A u \in Threads : pc'[u] = "refreshWrite" => pc[u] = "refreshWrite"
      BY <2>0, <2>8 DEF validate_jwt, get_verification_key, Done, Goto, Call
    <3>2. \A j \in Instances : /\ cache'[j].active = cache[j].active /\ cache'[j].whole = cache[j].whole
                               /\ cache[j].verification \subseteq cache'[j].verification
      BY <2>0, <2>8 DEF validate_jwt, Caches
    <3> QED  BY <1>2, <2>3, <3>1, <3>2 DEF CachesSound, SigningKeyVerifiable, InUse
  <2>9. ASSUME NEW t \in Threads, pc[t] = "refresh", refresh_cache(t)  PROVE CachesSound'
    <3>1. PICK k \in AnActiveKey : read' = [read EXCEPT ![t].active = k]
      BY <2>9 DEF refresh_cache, refresh_reads
    <3>2. /\ pc' = [pc EXCEPT ![t] = "refreshKeys"] /\ UNCHANGED <<cache, status>>
      BY <2>9 DEF refresh_cache, refresh_reads, Goto, Call, table
    <3>3. k # NoKey => status'[k] = "active"
      BY <3>1, <3>2, ActiveKeyFacts
    <3>4. read'[t].active = k /\ pc'[t] # "refreshWrite"
      BY <2>0, <3>1, <3>2 DEF Caches
    <3>5. \A u \in Threads \ {t} : read'[u] = read[u] /\ pc'[u] = pc[u]
      BY <2>0, <3>1, <3>2
    <3> QED  BY <1>2, <2>3, <3>2, <3>3, <3>4, <3>5 DEF CachesSound, SigningKeyVerifiable, InUse
  <2>10. ASSUME NEW t \in Threads, pc[t] = "refreshKeys", refresh_cache(t)  PROVE CachesSound'
    <3>1. /\ read' = [read EXCEPT ![t].verification = KeysWith({"active", "draining"})]
          /\ pc' = [pc EXCEPT ![t] = "refreshWrite"] /\ UNCHANGED <<cache, status>>
      BY <2>10 DEF refresh_cache, refresh_reads, Goto, Call, table
    <3>2. read'[t].active = read[t].active /\ read'[t].verification = KeysWith({"active", "draining"})
      BY <2>0, <3>1 DEF Caches
    <3>3. read[t].active # NoKey => read[t].active \in KeysWith({"active", "draining"})
      BY <2>0, <2>1, <2>3 DEF KeysWith, InUse
    <3>4. \A u \in Threads \ {t} : read'[u] = read[u] /\ pc'[u] = pc[u]
      BY <2>0, <3>1
    <3> QED  BY <1>2, <2>3, <3>1, <3>2, <3>3, <3>4 DEF CachesSound, SigningKeyVerifiable, InUse
  <2>11. ASSUME NEW t \in Threads, get_verification_keys_turso(t)  PROVE CachesSound'
    <3>1. /\ \E v : read' = [read EXCEPT ![t].verification = v, ![t].whole = FALSE]
          /\ pc' = [pc EXCEPT ![t] = "refreshWrite"] /\ UNCHANGED <<cache, status>>
      BY <2>11 DEF get_verification_keys_turso, Goto, Call, table
    <3>2. read'[t].active = read[t].active /\ read'[t].whole = FALSE
      BY <2>0, <3>1 DEF Caches
    <3>3. \A u \in Threads \ {t} : read'[u] = read[u] /\ pc'[u] = pc[u]
      BY <2>0, <3>1
    <3> QED  BY <1>2, <2>3, <3>1, <3>2, <3>3 DEF CachesSound, SigningKeyVerifiable, InUse
  <2>12. ASSUME NEW t \in Threads, pc[t] = "refreshWrite", refresh_cache(t)  PROVE CachesSound'
    <3>1. /\ cache' = [cache EXCEPT ![t[1]] = read[t]]
          /\ read' = [read EXCEPT ![t] = KeyCacheEmpty]
          /\ pc' = [pc EXCEPT ![t] = next[t]]
      BY <2>12 DEF refresh_cache, refresh_reads, Call
    <3>2. /\ cache'[t[1]] = read[t] /\ \A i \in Instances \ {t[1]} : cache'[i] = cache[i]
          /\ read'[t] = KeyCacheEmpty /\ \A u \in Threads \ {t} : read'[u] = read[u] /\ pc'[u] = pc[u]
      BY <2>0, <3>1
    <3>3. KeyCacheEmpty.active = NoKey
      BY DEF KeyCacheEmpty
    <3> QED  BY <1>2, <2>0, <2>3, <2>12, <3>2, <3>3 DEF CachesSound, SigningKeyVerifiable, InUse
  <2>13. \A t \in Threads : refresh_cache(t) => pc[t] \in {"refresh", "refreshKeys", "refreshWrite"}
    BY DEF refresh_cache, refresh_reads
  <2> QED  BY <1>2, <2>4, <2>5, <2>7, <2>8, <2>9, <2>10, <2>11, <2>12, <2>13, CacheMoves
<1> QED  BY <1>1, <1>2

\* The key an instance signs with is one the same instance can verify, for any
\* interleaving of the refresh with the rotations of any number of instances.
THEOREM SigningKeyStaysVerifiable == Spec => []SigningKeyVerifiable
<1>1. CachesSound => SigningKeyVerifiable
  BY DEF CachesSound
<1> QED  BY <1>1, TypedInductive, CachesSoundInductive, PTL DEF Spec

\* Only sign issues tokens and only the two validations refuse one; the look-up
\* of a kid that is not cached reads a key that is in use.
LEMMA TokensSoundInductive ==
    /\ Init => TokensSound
    /\ Typed /\ CachesSound /\ TokensSound /\ [Next]_vars => TokensSound'
<1>1. Init => TokensSound
  BY DEF Init, TokensSound, JwtAccepted
<1>2. ASSUME Typed, CachesSound, TokensSound, [Next]_vars  PROVE TokensSound'
  <2>0. tokens \subseteq Kids /\ cache \in [Instances -> Caches]
    BY <1>2 DEF Typed, OutputTypes, CacheTypes
  <2>1. /\ \A k \in Kids : InUse(k) => InUse(k)'
        /\ \A k \in tokens : status'[k] \in {"active", "draining"}
    BY <1>2, <2>0, InUseStays DEF TokensSound, InUse
  <2>2. CASE UNCHANGED outputs
    BY <1>2, <2>1, <2>2 DEF outputs, TokensSound, JwtAccepted, InUse
  <2>3. ASSUME NEW i \in Instances, sign(i)  PROVE TokensSound'
    <3>1. tokens' = tokens \cup ({cache[i].active} \ {NoKey}) /\ rejected' = rejected
      BY <2>3 DEF sign
    <3>2. cache[i].active # NoKey => status'[cache[i].active] \in {"active", "draining"}
      BY <1>2, <2>0, <2>1 DEF CachesSound, Caches, InUse
    <3> QED  BY <1>2, <2>1, <3>1, <3>2 DEF TokensSound, JwtAccepted, InUse
  <2>4. ASSUME NEW i \in Instances, validate_jwt(i)  PROVE TokensSound'
    <3>1. UNCHANGED outputs
      BY <1>2, <2>4 DEF validate_jwt, get_verification_key, outputs, TokensSound, InUse
    <3> QED  BY <2>2, <3>1
  <2>5. ASSUME NEW i \in Instances, validate_paseto(i)  PROVE TokensSound'
    <3>1. tokens' = tokens /\ \A r \in rejected' : r \in rejected \/ r.how = "paseto"
      BY <2>5 DEF validate_paseto, Refuse
    <3> QED  BY <1>2, <2>1, <3>1 DEF TokensSound, JwtAccepted, InUse
  <2>6. ASSUME NEW k \in Kids, Age(k) \/ DrainElapses(k)  PROVE UNCHANGED outputs
    BY <2>6 DEF Age, DrainElapses
  <2>7. ASSUME NEW t \in Threads, refresh_cache(t) \/ get_verification_keys_turso(t)  PROVE UNCHANGED outputs
    BY <2>7 DEF refresh_cache, get_verification_keys_turso
  <2>8. ASSUME NEW i \in Instances,
               \/ PoolConnects(i) \/ CacheExpires(i) \/ Crash(i) \/ Restart(i) \/ init_key_rotation(i)
               \/ CheckRotation(i) \/ ForceRotation(i) \/ prepare(i) \/ decide(i) \/ rotate(i)
               \/ drain_old(i) \/ store_key(i) \/ store_key_surrealdb(i)
               \/ update_key_status_surrealdb(i) \/ StorageFails(i) \/ lookup(i) \/ RequestFails(i)
        PROVE  UNCHANGED outputs
    BY <2>8 DEF PoolConnects, CacheExpires, Crash, Restart, init_key_rotation, CheckRotation,
         ForceRotation, prepare, decide, rotate, drain_old, drainUnchanged, store_key,
         store_key_surrealdb, update_key_status_surrealdb, StorageFails, lookup, RequestFails
  <2>9. UNCHANGED vars => UNCHANGED outputs
    BY DEF vars
  <2> QED  BY <1>2, <2>2, <2>3, <2>4, <2>5, <2>6, <2>7, <2>8, <2>9, ThreadFacts
             DEF Next, AgentStep, RequestStep
<1> QED  BY <1>1, <1>2

\* A JWT that any instance issued is accepted by every instance, through
\* rotations, stale caches, failing storage calls and crashes: its key is in
\* use for ever, and a kid the cache misses is looked up in the table.
THEOREM JwtsAccepted == Spec => []JwtAccepted
<1>1. TokensSound => JwtAccepted
  BY DEF TokensSound
<1> QED  BY <1>1, TypedInductive, CachesSoundInductive, TokensSoundInductive, PTL DEF Spec

=============================================================================
