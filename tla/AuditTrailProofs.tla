-------------------------- MODULE AuditTrailProofs --------------------------
(***************************************************************************)
(* Proofs about AuditTrail for any number of replicas, events, crashes and *)
(* any buffer size: the type invariant, that the stored hash chain never   *)
(* breaks without a call to record_failure, that events are stored in the  *)
(* order they were emitted, that none vanishes, and that what was stored   *)
(* verifies.                                                               *)
(***************************************************************************)
EXTENDS AuditTrail, SequenceTheorems, TLAPS

\* Sequence numbers count the inputs behind a hash.
RowShape(r) == /\ r.sequence = Len(r.previous_hash) + 1
               /\ r.sequence = Len(r.hash)

\* Hashes a new row may link to.
Anchors == {Genesis} \cup {r.hash : r \in db}

StoredShape == \A r \in db : RowShape(r)

ChannelShape ==
    \A i \in Instances : \A k \in 1 .. Len(channel[i]) : RowShape(channel[i][k])

ChainShape ==
    \A i \in Instances :
        chain[i] # None => Len(chain[i].previous_hash) = chain[i].sequence

\* ChainLoaded carries a stored hash, or none, with its sequence number.
LoadedShape ==
    \A i \in Instances : \A k \in 1 .. Len(mailbox[i]) :
        mailbox[i][k].type = "loaded" =>
            /\ Len(mailbox[i][k].previous_hash) = mailbox[i][k].sequence
            /\ mailbox[i][k].previous_hash \in Anchors

\* The start-up task sends ChainLoaded once, and nothing is sealed before.
LoadedOnce ==
    \A i \in Instances :
        /\ chain[i] # None \/ phase[i] # "loaded" =>
             \A k \in 1 .. Len(mailbox[i]) : mailbox[i][k].type = "event"
        /\ \A j, k \in 1 .. Len(mailbox[i]) :
             mailbox[i][j].type = "loaded" /\ mailbox[i][k].type = "loaded" => j = k
        /\ chain[i] # None => phase[i] = "loaded"
        /\ chain[i] = None => channel[i] = << >>

\* The rows on their way to the table continue each other up to the chain tip.
ChannelLinked ==
    \A i \in Instances :
        /\ \A k \in 1 .. Len(channel[i]) - 1 :
             channel[i][k + 1].previous_hash = channel[i][k].hash
        /\ channel[i] # << >> =>
             chain[i].previous_hash = channel[i][Len(channel[i])].hash

\* While nothing was reported they also continue what is stored.
ChannelAnchored ==
    reported = {} =>
        \A i \in Instances :
            /\ channel[i] # << >> => channel[i][1].previous_hash \in Anchors
            /\ chain[i] # None /\ channel[i] = << >> =>
                 chain[i].previous_hash \in Anchors

StoredAnchored == reported = {} => \A r \in db : r.previous_hash \in Anchors

StoredUnique ==
    Backend \in UniqueBackends => \A r, s \in db : r.sequence = s.sequence => r = s

IInv ==
    /\ TypeOK
    /\ StoredShape
    /\ ChannelShape
    /\ ChainShape
    /\ LoadedShape
    /\ LoadedOnce
    /\ ChannelLinked
    /\ ChannelAnchored
    /\ StoredAnchored
    /\ StoredUnique

-----------------------------------------------------------------------------
(* Sealing.                                                                *)

\* The inputs of k events on top of a chain form a hash, k inputs longer.
LEMMA HashAfterType ==
    ASSUME NEW c \in Chains, NEW es \in Seq(Events), NEW k \in 0 .. Len(es)
    PROVE  /\ HashAfter(c, es, k) \in Hashes
           /\ Len(HashAfter(c, es, k)) = Len(c.previous_hash) + k
<1> DEFINE tail == [j \in 1 .. k |-> <<c.sequence + j, es[j], Timestamp(es[j])>>]
<1>1. c.previous_hash \in Seq(HashInput) /\ c.sequence \in Nat
  BY DEF Chains, Hashes
<1>2. \A j \in 1 .. k : <<c.sequence + j, es[j], Timestamp(es[j])>> \in HashInput
  <2> TAKE j \in 1 .. k
  <2>1. es[j] \in Events
    OBVIOUS
  <2>2. Timestamp(es[j]) \in {0, 1}
    BY DEF Timestamp
  <2>3. c.sequence + j \in Nat \ {0}
    BY <1>1
  <2> QED
    BY <2>1, <2>2, <2>3 DEF HashInput
<1>3. tail \in Seq(HashInput) /\ Len(tail) = k
  <2>1. tail \in [1 .. k -> HashInput]
    BY <1>2
  <2> QED
    BY <2>1, SeqDef, LenProperties
<1> QED
  BY <1>1, <1>3, ConcatProperties DEF HashAfter, Hashes

\* Nothing sealed, nothing changed.
LEMMA HashAfterNone ==
    ASSUME NEW c \in Chains, NEW es \in Seq(Events)
    PROVE  HashAfter(c, es, 0) = c.previous_hash
<1> DEFINE tail == [j \in 1 .. 0 |-> <<c.sequence + j, es[j], Timestamp(es[j])>>]
<1>1. c.previous_hash \in Seq(HashInput)
  BY DEF Chains, Hashes
<1>2. tail = << >>
  BY DOMAIN tail = {}
<1> QED
  BY <1>1, <1>2, ConcatEmptySeq DEF HashAfter

\* AuditChain::seal, applied to a run of events: well-typed rows of the right
\* shape, each linked to the one before, the first to the old chain tip and
\* the last to the new one.
LEMMA SealedRun ==
    ASSUME NEW c \in Chains, NEW es \in Seq(Events),
           Len(c.previous_hash) = c.sequence
    PROVE  LET rows == Sealed(c, es)
               tip  == Advanced(c, es)
           IN  /\ rows \in Seq(Rows)
               /\ Len(rows) = Len(es)
               /\ tip \in Chains
               /\ Len(tip.previous_hash) = tip.sequence
               /\ \A k \in 1 .. Len(rows) : RowShape(rows[k])
               /\ \A k \in 1 .. Len(rows) - 1 : rows[k + 1].previous_hash = rows[k].hash
               /\ es = << >> => tip.previous_hash = c.previous_hash
               /\ es # << >> => /\ rows[1].previous_hash = c.previous_hash
                                /\ tip.previous_hash = rows[Len(rows)].hash
<1> DEFINE rows == Sealed(c, es)
           tip  == Advanced(c, es)
           n    == Len(es)
<1>0. n \in Nat /\ c.sequence \in Nat
  BY LenProperties DEF Chains
<1>1. \A k \in 0 .. n : /\ HashAfter(c, es, k) \in Hashes
                        /\ Len(HashAfter(c, es, k)) = c.sequence + k
  BY HashAfterType
<1>2. ASSUME NEW k \in 1 .. n
      PROVE  /\ rows[k] \in Rows
             /\ RowShape(rows[k])
             /\ rows[k].previous_hash = HashAfter(c, es, k - 1)
             /\ rows[k].hash = HashAfter(c, es, k)
  <2>1. k \in 0 .. n /\ k - 1 \in 0 .. n /\ c.sequence + k \in Nat \ {0}
    BY <1>0
  <2>2. es[k] \in Events /\ Timestamp(es[k]) \in {0, 1}
    BY DEF Timestamp
  <2>3. rows[k] = [event         |-> es[k],
                   timestamp     |-> Timestamp(es[k]),
                   sequence      |-> c.sequence + k,
                   previous_hash |-> HashAfter(c, es, k - 1),
                   hash          |-> HashAfter(c, es, k)]
    BY DEF Sealed
  <2>4. /\ HashAfter(c, es, k - 1) \in Hashes
        /\ Len(HashAfter(c, es, k - 1)) = c.sequence + (k - 1)
        /\ HashAfter(c, es, k) \in Hashes
        /\ Len(HashAfter(c, es, k)) = c.sequence + k
    BY <1>1, <2>1
  <2> HIDE DEF rows, n
  <2>5. rows[k] \in Rows
    BY <2>1, <2>2, <2>3, <2>4 DEF Rows
  <2>6. RowShape(rows[k])
    <3>1. c.sequence + k = (c.sequence + (k - 1)) + 1
      BY <1>0
    <3> QED
      BY <2>3, <2>4, <3>1 DEF RowShape
  <2> QED
    BY <2>3, <2>5, <2>6
<1>3. rows \in Seq(Rows) /\ Len(rows) = n
  <2>1. DOMAIN rows = 1 .. n /\ rows = [k \in 1 .. n |-> rows[k]]
    BY DEF Sealed
  <2>2. rows \in [1 .. n -> Rows]
    BY <1>2, <2>1
  <2> QED
    BY <1>0, <2>2, SeqDef, LenProperties
<1>4. tip \in Chains /\ Len(tip.previous_hash) = tip.sequence
  BY <1>0, <1>1 DEF Advanced, Chains
<1>5. \A k \in 1 .. n - 1 : rows[k + 1].previous_hash = rows[k].hash
  BY <1>0, <1>2
<1>6. tip.previous_hash = HashAfter(c, es, n)
  BY DEF Advanced
<1>7. es = << >> => tip.previous_hash = c.previous_hash
  BY <1>6, HashAfterNone
<1>8. es # << >> => n \in 1 .. n /\ 1 \in 1 .. n
  BY EmptySeq, <1>0
<1>9. es # << >> => /\ rows[1].previous_hash = c.previous_hash
                    /\ tip.previous_hash = rows[n].hash
  BY <1>2, <1>6, <1>8, HashAfterNone
<1> QED
  BY <1>2, <1>3, <1>4, <1>5, <1>7, <1>9

-----------------------------------------------------------------------------
(* Steps.                                                                  *)

\* seal_and_dispatch keeps the channel linked, up to a chain tip that is the
\* last row sealed, provided the chain it starts from continues the channel.
LEMMA SealStep ==
    ASSUME IInv, NEW i \in Instances, NEW c \in Chains, NEW es \in Seq(Events),
           Len(c.previous_hash) = c.sequence,
           channel[i] # << >> => c.previous_hash = channel[i][Len(channel[i])].hash,
           reported = {} /\ channel[i] = << >> => c.previous_hash \in Anchors,
           seal_and_dispatch(i, c, es),
           db' = db, reported' = reported
    PROVE  /\ chain' \in [Instances -> Chains \cup {None}]
           /\ channel' \in [Instances -> Seq(Rows)]
           /\ chain'[i] # None
           /\ ChannelShape' /\ ChainShape' /\ ChannelLinked' /\ ChannelAnchored'
<1> DEFINE rows == Sealed(c, es)
           tip  == Advanced(c, es)
<1>0. /\ chain \in [Instances -> Chains \cup {None}]
      /\ channel \in [Instances -> Seq(Rows)]
      /\ ChannelShape /\ ChainShape /\ ChannelLinked /\ ChannelAnchored
  BY DEF IInv, TypeOK
<1>1. /\ rows \in Seq(Rows)
      /\ Len(rows) = Len(es)
      /\ tip \in Chains
      /\ Len(tip.previous_hash) = tip.sequence
      /\ \A k \in 1 .. Len(rows) : RowShape(rows[k])
      /\ \A k \in 1 .. Len(rows) - 1 : rows[k + 1].previous_hash = rows[k].hash
      /\ es = << >> => tip.previous_hash = c.previous_hash
      /\ es # << >> => /\ rows[1].previous_hash = c.previous_hash
                       /\ tip.previous_hash = rows[Len(rows)].hash
  BY SealedRun
<1>2. /\ chain' = [chain EXCEPT ![i] = tip]
      /\ channel' = [channel EXCEPT ![i] = @ \o rows]
  BY DEF seal_and_dispatch
<1> HIDE DEF rows, tip
<1>4. /\ channel[i] \in Seq(Rows) /\ channel'[i] = channel[i] \o rows
      /\ \A j \in Instances \ {i} : channel'[j] = channel[j]
  BY <1>0, <1>2
<1>5. /\ chain'[i] = tip
      /\ \A j \in Instances \ {i} : chain'[j] = chain[j]
  BY <1>0, <1>2
<1> DEFINE m == Len(channel[i])
           n == Len(rows)
<1>6. /\ channel'[i] \in Seq(Rows)
      /\ Len(channel'[i]) = m + n
      /\ \A k \in 1 .. m + n :
            channel'[i][k] = IF k <= m THEN channel[i][k] ELSE rows[k - m]
  <2>1. /\ channel[i] \o rows \in Seq(Rows)
        /\ Len(channel[i] \o rows) = m + n
        /\ \A k \in 1 .. m + n :
              (channel[i] \o rows)[k] = IF k <= m THEN channel[i][k] ELSE rows[k - m]
    <3>1. channel[i] \in Seq(Rows) /\ rows \in Seq(Rows)
      BY <1>1, <1>4
    <3> QED
      BY ONLY <3>1, ConcatProperties
  <2> QED
    BY <1>4, <2>1
<1>7. m \in Nat /\ n \in Nat /\ n = Len(es)
  BY <1>1, <1>4, LenProperties
<1>8. /\ chain' \in [Instances -> Chains \cup {None}]
      /\ channel' \in [Instances -> Seq(Rows)]
  BY <1>0, <1>1, <1>2, <1>6
<1>9. chain'[i] # None
  BY <1>1, <1>5, ConstantsAssumption
<1>10. ChannelShape'
  <2>1. \A k \in 1 .. m : RowShape(channel[i][k])
    BY <1>0 DEF ChannelShape
  <2>2. \A k \in 1 .. m + n : RowShape(channel'[i][k])
    <3> HIDE DEF m, n
    <3> TAKE k \in 1 .. m + n
    <3>1. CASE k <= m
      BY <1>6, <1>7, <2>1, <3>1
    <3>2. CASE ~(k <= m)
      <4>1. k - m \in 1 .. n
        BY <1>7, <3>2
      <4> QED
        BY <1>1, <1>6, <3>2, <4>1 DEF n
    <3> QED
      BY <3>1, <3>2
  <2> QED
    BY <1>0, <1>4, <1>6, <2>2 DEF ChannelShape
<1>11. ChainShape'
  BY <1>0, <1>1, <1>5 DEF ChainShape
<1>12. es = << >> <=> n = 0
  BY <1>7, EmptySeq
<1>13. channel[i] = << >> <=> m = 0
  BY <1>4, <1>7, EmptySeq
<1>14. channel'[i] = << >> <=> m = 0 /\ n = 0
  BY <1>6, <1>7, EmptySeq
<1>15. ChannelLinked'
  <2>1. \A k \in 1 .. m - 1 : channel[i][k + 1].previous_hash = channel[i][k].hash
    BY <1>0 DEF ChannelLinked
  <2>2. ASSUME NEW k \in 1 .. (m + n) - 1
        PROVE  channel'[i][k + 1].previous_hash = channel'[i][k].hash
    <3> HIDE DEF m, n
    <3>1. k \in 1 .. m + n /\ k + 1 \in 1 .. m + n
      BY <1>7
    <3>2. CASE k < m
      <4>1. k \in 1 .. m - 1 /\ k <= m /\ k + 1 <= m
        BY <1>7, <3>2
      <4> QED
        BY <1>6, <2>1, <3>1, <4>1
    <3>3. CASE k = m
      <4>1. k <= m /\ ~(k + 1 <= m) /\ (k + 1) - m = 1 /\ m # 0 /\ n # 0
        BY <1>7, <3>3
      <4>2. channel'[i][k + 1] = rows[1] /\ channel'[i][k] = channel[i][m]
        BY <1>6, <3>1, <3>3, <4>1
      <4> QED
        BY <1>1, <1>12, <1>13, <4>1, <4>2 DEF m
    <3>4. CASE k > m
      <4>1. /\ ~(k <= m) /\ ~(k + 1 <= m)
            /\ (k + 1) - m = (k - m) + 1
            /\ k - m \in 1 .. n - 1
        BY <1>7, <3>4
      <4>2. channel'[i][k + 1] = rows[(k - m) + 1] /\ channel'[i][k] = rows[k - m]
        BY <1>6, <3>1, <4>1
      <4> QED
        BY <1>1, <4>1, <4>2 DEF n
    <3> QED
      BY <1>7, <3>2, <3>3, <3>4
  <2>3. channel'[i] # << >> => tip.previous_hash = channel'[i][m + n].hash
    <3> HIDE DEF m, n
    <3>1. CASE n = 0
      <4>1. channel'[i] # << >> => m + n = m /\ m \in 1 .. m + n /\ m <= m
        BY <1>7, <1>14, <3>1
      <4>2. channel'[i] # << >> => channel'[i][m + n] = channel[i][m]
        BY <1>6, <4>1
      <4> QED
        BY <1>1, <1>12, <1>13, <1>14, <3>1, <4>2 DEF m
    <3>2. CASE n # 0
      <4>1. m + n \in 1 .. m + n /\ ~(m + n <= m) /\ (m + n) - m = n
        BY <1>7, <3>2
      <4>2. channel'[i][m + n] = rows[n]
        BY <1>6, <4>1
      <4> QED
        BY <1>1, <1>12, <3>2, <4>2 DEF n
    <3> QED
      BY <3>1, <3>2
  <2>4. ASSUME NEW j \in Instances
        PROVE  /\ \A k \in 1 .. Len(channel'[j]) - 1 :
                    channel'[j][k + 1].previous_hash = channel'[j][k].hash
               /\ channel'[j] # << >> =>
                    chain'[j].previous_hash = channel'[j][Len(channel'[j])].hash
    <3> HIDE DEF m, n
    <3>1. CASE j = i
      BY <1>5, <1>6, <2>2, <2>3, <3>1
    <3>2. CASE j # i
      BY <1>0, <1>4, <1>5, <3>2 DEF ChannelLinked
    <3> QED
      BY <3>1, <3>2
  <2> QED
    BY <2>4 DEF ChannelLinked
<1>16. ChannelAnchored'
  <2> SUFFICES ASSUME reported = {}
               PROVE  \A j \in Instances :
                        /\ channel'[j] # << >> => channel'[j][1].previous_hash \in Anchors
                        /\ chain'[j] # None /\ channel'[j] = << >> =>
                             chain'[j].previous_hash \in Anchors
    BY DEF ChannelAnchored, Anchors
  <2>1. channel[i] # << >> => channel[i][1].previous_hash \in Anchors
    BY <1>0 DEF ChannelAnchored
  <2>2. channel'[i] # << >> => channel'[i][1].previous_hash \in Anchors
    <3> HIDE DEF m, n
    <3>1. CASE channel[i] # << >>
      <4>1. 1 \in 1 .. m + n /\ 1 <= m
        BY <1>7, <1>13, <3>1
      <4> QED
        BY <1>6, <2>1, <3>1, <4>1
    <3>2. CASE channel[i] = << >> /\ channel'[i] # << >>
      <4>1. 1 \in 1 .. m + n /\ ~(1 <= m) /\ 1 - m = 1 /\ n # 0
        BY <1>7, <1>13, <1>14, <3>2
      <4>2. channel'[i][1] = rows[1]
        BY <1>6, <4>1
      <4> QED
        BY <1>1, <1>12, <3>2, <4>1, <4>2
    <3> QED
      BY <3>1, <3>2
  <2>3. channel'[i] = << >> => tip.previous_hash \in Anchors
    BY <1>1, <1>12, <1>13, <1>14
  <2> QED
    BY <1>0, <1>4, <1>5, <2>2, <2>3 DEF ChannelAnchored
<1> QED
  BY <1>8, <1>9, <1>10, <1>11, <1>15, <1>16

\* The parts of the invariant that do not depend on the mailboxes.
LEMMA Unmoved ==
    ASSUME IInv, UNCHANGED <<chain, channel, db, reported>>
    PROVE  /\ StoredShape' /\ ChannelShape' /\ ChainShape' /\ ChannelLinked'
           /\ ChannelAnchored' /\ StoredAnchored' /\ StoredUnique'
BY DEF IInv, StoredShape, ChannelShape, ChainShape, ChannelLinked, ChannelAnchored,
       StoredAnchored, StoredUnique, Anchors

\* A message at the end of one mailbox.
LEMMA MailboxAppend ==
    ASSUME IInv, NEW i \in Instances, NEW m \in Messages,
           mailbox' = [mailbox EXCEPT ![i] = Append(@, m)]
    PROVE  /\ mailbox' \in [Instances -> Seq(Messages)]
           /\ \A j \in Instances \ {i} : mailbox'[j] = mailbox[j]
           /\ Len(mailbox[i]) \in Nat
           /\ Len(mailbox'[i]) = Len(mailbox[i]) + 1
           /\ \A k \in 1 .. Len(mailbox[i]) : mailbox'[i][k] = mailbox[i][k]
           /\ mailbox'[i][Len(mailbox[i]) + 1] = m
<1>1. mailbox \in [Instances -> Seq(Messages)]
  BY DEF IInv, TypeOK
<1>2. mailbox[i] \in Seq(Messages) /\ mailbox'[i] = Append(mailbox[i], m)
  BY <1>1
<1>3. /\ Append(mailbox[i], m) \in Seq(Messages)
      /\ Len(Append(mailbox[i], m)) = Len(mailbox[i]) + 1
      /\ \A k \in 1 .. Len(mailbox[i]) : Append(mailbox[i], m)[k] = mailbox[i][k]
      /\ Append(mailbox[i], m)[Len(mailbox[i]) + 1] = m
  BY <1>2, AppendProperties
<1> QED
  BY <1>1, <1>2, <1>3, LenProperties

\* The agent takes the first message out of its mailbox.
LEMMA MailboxTail ==
    ASSUME IInv, NEW i \in Instances, mailbox[i] # << >>,
           mailbox' = [mailbox EXCEPT ![i] = Tail(@)]
    PROVE  /\ mailbox' \in [Instances -> Seq(Messages)]
           /\ Head(mailbox[i]) \in Messages
           /\ Head(mailbox[i]) = mailbox[i][1]
           /\ \A j \in Instances \ {i} : mailbox'[j] = mailbox[j]
           /\ Len(mailbox[i]) \in Nat \ {0}
           /\ Len(mailbox'[i]) = Len(mailbox[i]) - 1
           /\ \A k \in 1 .. Len(mailbox[i]) - 1 : mailbox'[i][k] = mailbox[i][k + 1]
<1>1. mailbox \in [Instances -> Seq(Messages)]
  BY DEF IInv, TypeOK
<1>2. mailbox[i] \in Seq(Messages) /\ mailbox'[i] = Tail(mailbox[i])
  BY <1>1
<1>3. /\ Tail(mailbox[i]) \in Seq(Messages)
      /\ Len(Tail(mailbox[i])) = Len(mailbox[i]) - 1
      /\ Len(mailbox[i]) \in Nat \ {0}
      /\ Head(mailbox[i]) = mailbox[i][1]
      /\ Head(mailbox[i]) \in Messages
      /\ \A k \in 1 .. Len(mailbox[i]) - 1 : Tail(mailbox[i])[k] = mailbox[i][k + 1]
  BY <1>2, HeadTailProperties, EmptySeq
<1> QED
  BY <1>1, <1>2, <1>3

\* Taking a message keeps what is known of those that stay.
LEMMA MailboxTailShape ==
    ASSUME IInv, NEW i \in Instances, mailbox[i] # << >>,
           mailbox' = [mailbox EXCEPT ![i] = Tail(@)], db' = db
    PROVE  LoadedShape'
<1>1. ASSUME NEW j \in Instances, NEW k \in 1 .. Len(mailbox'[j])
      PROVE  \E l \in 1 .. Len(mailbox[j]) : mailbox'[j][k] = mailbox[j][l]
  <2>1. CASE j = i
    <3>1. /\ Len(mailbox[i]) \in Nat \ {0}
          /\ Len(mailbox'[i]) = Len(mailbox[i]) - 1
      BY MailboxTail
    <3>2. k \in 1 .. Len(mailbox[i]) - 1 /\ k + 1 \in 1 .. Len(mailbox[i])
      BY <2>1, <3>1
    <3>3. mailbox'[i][k] = mailbox[i][k + 1]
      BY <3>2, MailboxTail
    <3> QED
      BY <2>1, <3>2, <3>3
  <2>2. CASE j # i
    BY MailboxTail, <2>2
  <2> QED
    BY <2>1, <2>2
<1>2. Anchors' = Anchors
  BY DEF Anchors
<1>3. LoadedShape
  BY DEF IInv
<1>4. ASSUME NEW j \in Instances, NEW k \in 1 .. Len(mailbox'[j]),
             mailbox'[j][k].type = "loaded"
      PROVE  /\ Len(mailbox'[j][k].previous_hash) = mailbox'[j][k].sequence
             /\ mailbox'[j][k].previous_hash \in Anchors
  <2>1. PICK l \in 1 .. Len(mailbox[j]) : mailbox'[j][k] = mailbox[j][l]
    BY <1>1
  <2> QED
    BY <1>3, <1>4, <2>1 DEF LoadedShape
<1> QED
  BY <1>2, <1>4 DEF LoadedShape

\* An event enters a mailbox.
LEMMA LogStep ==
    ASSUME IInv, NEW i \in Instances, Log(i)
    PROVE  IInv'
<1> DEFINE m == [type |-> "event", event |-> <<i, emitted[i] + 1>>]
<1>1. /\ phase[i] # "down" /\ emitted[i] < MaxEvents
      /\ emitted' = [emitted EXCEPT ![i] = @ + 1]
      /\ mailbox' = [mailbox EXCEPT ![i] = Append(@, m)]
      /\ UNCHANGED <<phase, chain, pending, channel, db, online, reported, dropped,
                     forked, lost, crashes>>
  BY DEF Log
<1>2. TypeOK /\ LoadedShape /\ LoadedOnce
  BY DEF IInv
<1>3. emitted[i] \in 0 .. MaxEvents /\ emitted[i] + 1 \in 1 .. MaxEvents /\ MaxEvents \in Nat
  BY <1>1, <1>2, ConstantsAssumption DEF TypeOK
<1>4. m \in Messages /\ m.type = "event"
  BY <1>3 DEF Messages, Events
<1> HIDE DEF m
<1>5. TypeOK'
  BY <1>1, <1>2, <1>3, <1>4, MailboxAppend DEF TypeOK
<1>6. ASSUME NEW j \in Instances, NEW k \in 1 .. Len(mailbox'[j])
      PROVE  \/ k \in 1 .. Len(mailbox[j]) /\ mailbox'[j][k] = mailbox[j][k]
             \/ mailbox'[j][k].type = "event"
  <2>1. CASE j = i
    <3>1. k \in 1 .. Len(mailbox[i]) \/ k = Len(mailbox[i]) + 1
      BY <1>1, <1>4, <2>1, MailboxAppend
    <3> QED
      BY <1>1, <1>4, <2>1, <3>1, MailboxAppend
  <2>2. CASE j # i
    BY <1>1, <1>4, <2>2, MailboxAppend
  <2> QED
    BY <2>1, <2>2
<1>7. "event" # "loaded"
  OBVIOUS
<1>8. Anchors' = Anchors
  BY <1>1 DEF Anchors
<1>9. LoadedShape'
  BY <1>2, <1>6, <1>7, <1>8 DEF LoadedShape
<1>10. LoadedOnce'
  BY <1>1, <1>2, <1>6, <1>7 DEF LoadedOnce
<1> QED
  BY <1>1, <1>5, <1>9, <1>10, Unmoved DEF IInv

\* The start-up task stops waiting for the pool.
LEMMA WaitStep ==
    ASSUME IInv, NEW i \in Instances, wait_for_storage(i)
    PROVE  IInv'
<1>1. /\ phase[i] = "waiting"
      /\ phase' = [phase EXCEPT ![i] = "reading"]
      /\ UNCHANGED <<mailbox, chain, pending, channel, db, online, historyVars>>
  BY DEF wait_for_storage
<1>2. TypeOK /\ LoadedShape /\ LoadedOnce
  BY DEF IInv
<1>3. TypeOK'
  BY <1>1, <1>2 DEF TypeOK, historyVars
<1>4. LoadedShape'
  BY <1>1, <1>2 DEF LoadedShape, Anchors
<1>5. \A j \in Instances : phase'[j] = "loaded" <=> phase[j] = "loaded"
  BY <1>1, <1>2 DEF TypeOK
<1>6. LoadedOnce'
  BY <1>1, <1>2, <1>5 DEF LoadedOnce
<1> QED
  BY <1>1, <1>3, <1>4, <1>6, Unmoved DEF IInv, historyVars

\* ChainLoaded enters the mailbox with the hash of a stored row, or with none.
LEMMA LoadStep ==
    ASSUME IInv, NEW i \in Instances, load_chain(i)
    PROVE  IInv'
<1>1. /\ phase[i] = "reading"
      /\ phase' = [phase EXCEPT ![i] = "loaded"]
      /\ UNCHANGED <<chain, pending, channel, db, online, emitted, reported, dropped,
                     lost, crashes>>
  BY DEF load_chain
<1>2. TypeOK /\ LoadedShape /\ LoadedOnce /\ StoredShape
  BY DEF IInv
<1>3. PICK m \in Messages :
        /\ m.type = "loaded"
        /\ Len(m.previous_hash) = m.sequence
        /\ m.previous_hash \in Anchors
        /\ mailbox' = [mailbox EXCEPT ![i] = Append(@, m)]
        /\ forked' \in BOOLEAN
  <2>1. CASE online /\ LatestRows # {} /\ UNCHANGED forked /\
             \E r \in LatestRows :
               mailbox' = [mailbox EXCEPT ![i] = Append(@,
                   [type |-> "loaded", previous_hash |-> r.hash, sequence |-> r.sequence])]
    <3>1. PICK r \in LatestRows :
               mailbox' = [mailbox EXCEPT ![i] = Append(@,
                   [type |-> "loaded", previous_hash |-> r.hash, sequence |-> r.sequence])]
      BY <2>1
    <3>2. r \in db /\ r \in Rows /\ RowShape(r)
      BY <1>2 DEF LatestRows, TypeOK, StoredShape
    <3> DEFINE m == [type |-> "loaded", previous_hash |-> r.hash, sequence |-> r.sequence]
    <3>3. m \in Messages
      BY <3>2 DEF Messages, Rows
    <3>4. Len(m.previous_hash) = m.sequence /\ m.previous_hash \in Anchors
      BY <3>2 DEF RowShape, Anchors
    <3> QED
      BY <1>2, <2>1, <3>1, <3>3, <3>4 DEF TypeOK
  <2>2. CASE /\ mailbox' = [mailbox EXCEPT ![i] = Append(@,
                   [type |-> "loaded", previous_hash |-> Genesis, sequence |-> 0])]
             /\ forked' = (forked \/ db # {})
    <3> DEFINE m == [type |-> "loaded", previous_hash |-> Genesis, sequence |-> 0]
    <3>1. Genesis \in Hashes /\ Len(Genesis) = 0
      BY EmptySeq DEF Hashes, Genesis
    <3>2. m \in Messages
      BY <3>1 DEF Messages
    <3>3. Len(m.previous_hash) = m.sequence /\ m.previous_hash \in Anchors
      BY <3>1 DEF Anchors
    <3>4. forked' \in BOOLEAN
      BY <2>2
    <3> QED
      BY <2>2, <3>2, <3>3, <3>4
  <2> QED
    BY <2>1, <2>2 DEF load_chain
<1>4. TypeOK'
  BY <1>1, <1>2, <1>3, MailboxAppend DEF TypeOK
<1>5. ASSUME NEW j \in Instances, NEW k \in 1 .. Len(mailbox'[j])
      PROVE  \/ k \in 1 .. Len(mailbox[j]) /\ mailbox'[j][k] = mailbox[j][k]
             \/ j = i /\ k = Len(mailbox[i]) + 1 /\ mailbox'[j][k] = m
  <2>1. CASE j = i
    <3>1. k \in 1 .. Len(mailbox[i]) \/ k = Len(mailbox[i]) + 1
      BY <1>3, <2>1, MailboxAppend
    <3> QED
      BY <1>3, <2>1, <3>1, MailboxAppend
  <2>2. CASE j # i
    BY <1>3, <2>2, MailboxAppend
  <2> QED
    BY <2>1, <2>2
<1>6. Anchors' = Anchors
  BY <1>1 DEF Anchors
<1>7. LoadedShape'
  <2>1. ASSUME NEW j \in Instances, NEW k \in 1 .. Len(mailbox'[j]),
               mailbox'[j][k].type = "loaded"
        PROVE  /\ Len(mailbox'[j][k].previous_hash) = mailbox'[j][k].sequence
               /\ mailbox'[j][k].previous_hash \in Anchors
    <3>1. CASE k \in 1 .. Len(mailbox[j]) /\ mailbox'[j][k] = mailbox[j][k]
      BY <1>2, <2>1, <3>1 DEF LoadedShape
    <3>2. CASE mailbox'[j][k] = m
      BY <1>3, <3>2
    <3> QED
      BY <1>5, <3>1, <3>2
  <2> QED
    BY <1>6, <2>1 DEF LoadedShape
<1>8. /\ chain[i] = None
      /\ \A k \in 1 .. Len(mailbox[i]) : mailbox[i][k].type = "event"
  BY <1>1, <1>2 DEF LoadedOnce
<1>9. phase'[i] = "loaded" /\ \A j \in Instances \ {i} : phase'[j] = phase[j]
  BY <1>1, <1>2 DEF TypeOK
<1>10. LoadedOnce'
  <2> SUFFICES ASSUME NEW j \in Instances
      PROVE
        /\ chain[j] # None \/ phase'[j] # "loaded" =>
             \A k \in 1 .. Len(mailbox'[j]) : mailbox'[j][k].type = "event"
        /\ \A l, k \in 1 .. Len(mailbox'[j]) :
             mailbox'[j][l].type = "loaded" /\ mailbox'[j][k].type = "loaded" => l = k
        /\ chain[j] # None => phase'[j] = "loaded"
        /\ chain[j] = None => channel[j] = << >>
    BY <1>1 DEF LoadedOnce
  <2>1. CASE j = i
    <3>1. "event" # "loaded"
      OBVIOUS
    <3>2. \A k \in 1 .. Len(mailbox'[i]) :
             mailbox'[i][k].type = "loaded" => k = Len(mailbox[i]) + 1
      BY <1>5, <1>8, <3>1
    <3> QED
      BY <1>2, <1>8, <1>9, <2>1, <3>2 DEF LoadedOnce
  <2>2. CASE j # i
    BY <1>2, <1>3, <1>9, <2>2, MailboxAppend DEF LoadedOnce
  <2> QED
    BY <2>1, <2>2
<1> QED
  BY <1>1, <1>4, <1>7, <1>10, Unmoved DEF IInv

\* The database comes and goes.
LEMMA ConnectivityStep ==
    ASSUME IInv, Connectivity
    PROVE  IInv'
<1>1. online' \in BOOLEAN /\ UNCHANGED <<agentVars, db, historyVars>>
  BY DEF IInv, TypeOK, Connectivity
<1>2. TypeOK'
  BY <1>1 DEF IInv, TypeOK, agentVars, historyVars
<1>3. LoadedShape' /\ LoadedOnce'
  BY <1>1 DEF IInv, LoadedShape, LoadedOnce, Anchors, agentVars
<1> QED
  BY <1>1, <1>2, <1>3, Unmoved DEF IInv, agentVars, historyVars

\* A process is started again.
LEMMA RestartStep ==
    ASSUME IInv, NEW i \in Instances, Restart(i)
    PROVE  IInv'
<1>1. /\ phase[i] = "down"
      /\ phase' = [phase EXCEPT ![i] = "waiting"]
      /\ UNCHANGED <<mailbox, chain, pending, channel, db, online, historyVars>>
  BY DEF Restart
<1>2. TypeOK /\ LoadedShape /\ LoadedOnce
  BY DEF IInv
<1>3. TypeOK'
  BY <1>1, <1>2 DEF TypeOK, historyVars
<1>4. LoadedShape'
  BY <1>1, <1>2 DEF LoadedShape, Anchors
<1>5. \A j \in Instances : phase'[j] = "loaded" <=> phase[j] = "loaded"
  BY <1>1, <1>2 DEF TypeOK
<1>6. LoadedOnce'
  BY <1>1, <1>2, <1>5 DEF LoadedOnce
<1> QED
  BY <1>1, <1>3, <1>4, <1>6, Unmoved DEF IInv, historyVars

\* Taking an event out of the mailbox: what is left is still loaded once.
LEMMA EventTaken ==
    ASSUME IInv, NEW i \in Instances, mailbox[i] # << >>,
           Head(mailbox[i]).type = "event",
           mailbox' = [mailbox EXCEPT ![i] = Tail(@)], phase' = phase,
           \A j \in Instances : chain'[j] = None <=> chain[j] = None,
           \A j \in Instances : chain[j] = None => channel'[j] = channel[j]
    PROVE  LoadedOnce'
<1>1. LoadedOnce
  BY DEF IInv
<1>2. SUFFICES ASSUME NEW j \in Instances
      PROVE
        /\ chain[j] # None \/ phase[j] # "loaded" =>
             \A k \in 1 .. Len(mailbox'[j]) : mailbox'[j][k].type = "event"
        /\ \A l, k \in 1 .. Len(mailbox'[j]) :
             mailbox'[j][l].type = "loaded" /\ mailbox'[j][k].type = "loaded" => l = k
        /\ chain[j] # None => phase[j] = "loaded"
        /\ chain[j] = None => channel'[j] = << >>
  BY DEF LoadedOnce
<1>3. chain[j] # None => phase[j] = "loaded"
  BY <1>1 DEF LoadedOnce
<1>4. chain[j] = None => channel'[j] = << >>
  BY <1>1 DEF LoadedOnce
<1>5. CASE j # i
  BY <1>1, <1>3, <1>4, <1>5, MailboxTail DEF LoadedOnce
<1>6. CASE j = i
  <2>1. /\ Len(mailbox[i]) \in Nat \ {0}
        /\ Len(mailbox'[i]) = Len(mailbox[i]) - 1
        /\ \A k \in 1 .. Len(mailbox[i]) - 1 : mailbox'[i][k] = mailbox[i][k + 1]
    BY MailboxTail
  <2>2. \A k \in 1 .. Len(mailbox'[i]) :
          k + 1 \in 1 .. Len(mailbox[i]) /\ mailbox'[i][k] = mailbox[i][k + 1]
    BY <2>1
  <2>3. chain[i] # None \/ phase[i] # "loaded" =>
             \A k \in 1 .. Len(mailbox'[i]) : mailbox'[i][k].type = "event"
    BY <1>1, <2>2 DEF LoadedOnce
  <2>4. ASSUME NEW l \in 1 .. Len(mailbox'[i]), NEW k \in 1 .. Len(mailbox'[i]),
               mailbox'[i][l].type = "loaded", mailbox'[i][k].type = "loaded"
        PROVE  l = k
    <3>1. l + 1 = k + 1
      BY <1>1, <2>2, <2>4 DEF LoadedOnce
    <3> QED
      BY <2>1, <3>1
  <2>5. \A l, k \in 1 .. Len(mailbox'[i]) :
          mailbox'[i][l].type = "loaded" /\ mailbox'[i][k].type = "loaded" => l = k
    BY <2>4
  <2> QED
    BY ONLY <1>3, <1>4, <1>6, <2>3, <2>5
<1> QED
  BY <1>5, <1>6

\* The AuditEvent handler: buffer, drop and report, or seal.
LEMMA EventStep ==
    ASSUME IInv, NEW i \in Instances, HandleEvent(i)
    PROVE  IInv'
<1> DEFINE e == Head(mailbox[i]).event
<1>1. /\ mailbox[i] # << >> /\ Head(mailbox[i]).type = "event"
      /\ mailbox' = [mailbox EXCEPT ![i] = Tail(@)]
      /\ UNCHANGED <<phase, db, online, emitted, forked, lost, crashes>>
  BY DEF HandleEvent
<1>2. /\ TypeOK /\ LoadedOnce /\ ChainShape /\ ChannelLinked /\ ChannelAnchored
      /\ StoredShape /\ StoredAnchored /\ StoredUnique
  BY DEF IInv
<1>3. e \in Events
  <2>1. Head(mailbox[i]) \in Messages
    BY <1>1, MailboxTail
  <2> QED
    BY <1>1, <2>1 DEF Messages
<1>4. mailbox' \in [Instances -> Seq(Messages)]
  BY <1>1, MailboxTail
<1>5. LoadedShape'
  BY <1>1, MailboxTailShape
<1>6. chain[i] \in Chains \cup {None} /\ pending[i] \in Seq(Events)
  BY <1>2 DEF TypeOK
<1> HIDE DEF e
<1>7. CASE chain[i] = None /\ buffer_pending_event(i, e) /\ UNCHANGED <<chain, channel>>
  <2>1. pending' \in [Instances -> Seq(Events)] /\ UNCHANGED <<reported, dropped>>
    <3>1. Append(pending[i], e) \in Seq(Events)
      BY <1>3, <1>6, AppendProperties
    <3> QED
      BY <1>2, <1>7, <3>1 DEF buffer_pending_event, TypeOK
  <2>2. TypeOK'
    BY <1>1, <1>2, <1>4, <1>7, <2>1 DEF TypeOK
  <2>3. LoadedOnce'
    BY <1>1, <1>7, EventTaken
  <2> QED
    BY <1>1, <1>5, <1>7, <2>1, <2>2, <2>3, Unmoved DEF IInv
<1>8. CASE chain[i] = None /\ overflow_pending_event(i, e) /\ UNCHANGED <<chain, channel>>
  <2>1. /\ reported' = reported \cup {e} /\ dropped' = dropped \cup {e}
        /\ UNCHANGED pending
    BY <1>8 DEF overflow_pending_event
  <2>2. TypeOK'
    BY <1>1, <1>2, <1>3, <1>4, <1>8, <2>1 DEF TypeOK
  <2>3. LoadedOnce'
    BY <1>1, <1>8, EventTaken
  <2>4. reported' # {}
    BY <2>1
  <2>5. ChannelAnchored' /\ StoredAnchored'
    BY <2>4 DEF ChannelAnchored, StoredAnchored
  <2>6. StoredShape' /\ StoredUnique' /\ ChainShape' /\ ChannelLinked' /\ ChannelShape'
    BY <1>1, <1>8 DEF IInv, StoredShape, StoredUnique, ChainShape, ChannelLinked, ChannelShape
  <2> QED
    BY <1>5, <2>2, <2>3, <2>5, <2>6 DEF IInv
<1>9. CASE /\ chain[i] # None /\ seal_and_dispatch(i, chain[i], <<e>>)
           /\ UNCHANGED <<pending, reported, dropped>>
  <2>1. chain[i] \in Chains /\ Len(chain[i].previous_hash) = chain[i].sequence
    BY <1>2, <1>6, <1>9 DEF ChainShape
  <2>2. <<e>> \in Seq(Events)
    BY <1>3
  <2>3. channel[i] # << >> => chain[i].previous_hash = channel[i][Len(channel[i])].hash
    BY <1>2 DEF ChannelLinked
  <2>4. reported = {} /\ channel[i] = << >> => chain[i].previous_hash \in Anchors
    BY <1>2, <1>9 DEF ChannelAnchored
  <2>5. /\ chain' \in [Instances -> Chains \cup {None}]
        /\ channel' \in [Instances -> Seq(Rows)]
        /\ chain'[i] # None
        /\ ChannelShape' /\ ChainShape' /\ ChannelLinked' /\ ChannelAnchored'
    BY <1>1, <1>9, <2>1, <2>2, <2>3, <2>4, SealStep
  <2>6. TypeOK'
    BY <1>1, <1>2, <1>4, <1>9, <2>5 DEF TypeOK
  <2>7. \A j \in Instances : chain'[j] = None <=> chain[j] = None
    BY <1>2, <1>9, <2>5 DEF seal_and_dispatch, TypeOK
  <2>8. \A j \in Instances : chain[j] = None => channel'[j] = channel[j]
    BY <1>2, <1>9 DEF seal_and_dispatch, TypeOK
  <2>9. LoadedOnce'
    BY <1>1, <2>7, <2>8, EventTaken
  <2>10. StoredShape' /\ StoredUnique' /\ StoredAnchored'
    BY <1>1, <1>2, <1>9 DEF StoredShape, StoredUnique, StoredAnchored, Anchors
  <2> QED
    BY <1>5, <2>5, <2>6, <2>9, <2>10 DEF IInv
<1> QED
  BY <1>7, <1>8, <1>9 DEF HandleEvent, e

\* The ChainLoaded handler: the chain continues a stored row or starts anew,
\* and nothing was sealed before.
LEMMA ChainLoadedStep ==
    ASSUME IInv, NEW i \in Instances, HandleChainLoaded(i)
    PROVE  IInv'
<1> DEFINE m == Head(mailbox[i])
           c == [previous_hash |-> m.previous_hash, sequence |-> m.sequence]
<1>1. /\ mailbox[i] # << >> /\ m.type = "loaded"
      /\ mailbox' = [mailbox EXCEPT ![i] = Tail(@)]
      /\ seal_and_dispatch(i, c, pending[i])
      /\ pending' = [pending EXCEPT ![i] = << >>]
      /\ UNCHANGED <<phase, db, online, historyVars>>
  BY DEF HandleChainLoaded
<1>2. /\ TypeOK /\ LoadedOnce /\ LoadedShape /\ StoredShape /\ StoredAnchored
      /\ StoredUnique
  BY DEF IInv
<1>3. /\ m \in Messages /\ m = mailbox[i][1]
      /\ Len(mailbox[i]) \in Nat \ {0}
      /\ Len(mailbox'[i]) = Len(mailbox[i]) - 1
      /\ \A k \in 1 .. Len(mailbox[i]) - 1 : mailbox'[i][k] = mailbox[i][k + 1]
      /\ \A j \in Instances \ {i} : mailbox'[j] = mailbox[j]
      /\ mailbox' \in [Instances -> Seq(Messages)]
  BY <1>1, MailboxTail
<1>4. 1 \in 1 .. Len(mailbox[i])
  BY <1>3
<1>5. c \in Chains /\ Len(c.previous_hash) = c.sequence /\ c.previous_hash \in Anchors
  <2>1. m.previous_hash \in Hashes /\ m.sequence \in Nat
    BY <1>1, <1>3 DEF Messages
  <2>2. Len(m.previous_hash) = m.sequence /\ m.previous_hash \in Anchors
    <3>1. mailbox[i][1].type = "loaded"
      BY <1>1, <1>3
    <3>2. Len(mailbox[i][1].previous_hash) = mailbox[i][1].sequence /\ mailbox[i][1].previous_hash \in Anchors
      BY <1>2, <1>4, <3>1 DEF LoadedShape
    <3> QED
      BY <1>3, <3>2
  <2> QED
    BY <2>1, <2>2 DEF Chains
<1>6. "event" # "loaded"
  OBVIOUS
<1>7. chain[i] = None /\ phase[i] = "loaded" /\ channel[i] = << >>
  BY <1>1, <1>2, <1>3, <1>4, <1>6 DEF LoadedOnce
<1>8. pending[i] \in Seq(Events) /\ pending' \in [Instances -> Seq(Events)]
  <2>1. << >> \in Seq(Events)
    BY EmptySeq
  <2> QED
    BY <1>1, <1>2, <2>1 DEF TypeOK
<1> HIDE DEF m, c
<1>9. UNCHANGED <<emitted, reported, dropped, forked, lost, crashes>>
  BY <1>1 DEF historyVars
<1>10. /\ chain' \in [Instances -> Chains \cup {None}]
       /\ channel' \in [Instances -> Seq(Rows)]
       /\ chain'[i] # None
       /\ ChannelShape' /\ ChainShape' /\ ChannelLinked' /\ ChannelAnchored'
  BY <1>1, <1>5, <1>7, <1>8, <1>9, SealStep
<1>11. TypeOK'
  BY <1>1, <1>2, <1>3, <1>8, <1>9, <1>10 DEF TypeOK
<1>12. LoadedShape'
  BY <1>1, MailboxTailShape
<1>13. \A j \in Instances \ {i} : chain'[j] = chain[j] /\ channel'[j] = channel[j]
  BY <1>1, <1>2 DEF seal_and_dispatch, TypeOK
<1>14. LoadedOnce'
  <2> SUFFICES ASSUME NEW j \in Instances
      PROVE
        /\ chain'[j] # None \/ phase[j] # "loaded" =>
             \A k \in 1 .. Len(mailbox'[j]) : mailbox'[j][k].type = "event"
        /\ \A l, k \in 1 .. Len(mailbox'[j]) :
             mailbox'[j][l].type = "loaded" /\ mailbox'[j][k].type = "loaded" => l = k
        /\ chain'[j] # None => phase[j] = "loaded"
        /\ chain'[j] = None => channel'[j] = << >>
    BY <1>1 DEF LoadedOnce
  <2>1. CASE j = i
    <3>1. ASSUME NEW k \in 1 .. Len(mailbox'[i])
          PROVE  mailbox'[i][k].type = "event"
      <4>1. /\ k + 1 \in 1 .. Len(mailbox[i]) /\ k + 1 # 1
            /\ mailbox'[i][k] = mailbox[i][k + 1]
        BY <1>3
      <4>2. mailbox[i][k + 1].type # "loaded"
        BY <1>1, <1>2, <1>3, <1>4, <4>1 DEF LoadedOnce
      <4>3. mailbox[i][k + 1] \in Messages
        BY <1>2, <4>1 DEF TypeOK
      <4> QED
        BY <4>1, <4>2, <4>3 DEF Messages
    <3> QED
      BY <1>6, <1>7, <1>10, <2>1, <3>1
  <2>2. CASE j # i
    BY <1>2, <1>3, <1>13, <2>2 DEF LoadedOnce
  <2> QED
    BY <2>1, <2>2
<1>15. StoredShape' /\ StoredUnique' /\ StoredAnchored'
  BY <1>1, <1>2, <1>9 DEF StoredShape, StoredUnique, StoredAnchored, Anchors
<1> QED
  BY <1>10, <1>11, <1>12, <1>14, <1>15 DEF IInv

\* A process ends: its mailbox, buffer, chain and channel are gone.
LEMMA CrashStep ==
    ASSUME IInv, NEW i \in Instances, Crash(i)
    PROVE  IInv'
<1>1. /\ crashes < MaxCrashes /\ crashes' = crashes + 1
      /\ lost' = lost \cup InMemory(i)
      /\ phase' = [phase EXCEPT ![i] = "down"]
      /\ mailbox' = [mailbox EXCEPT ![i] = << >>]
      /\ chain' = [chain EXCEPT ![i] = None]
      /\ pending' = [pending EXCEPT ![i] = << >>]
      /\ channel' = [channel EXCEPT ![i] = << >>]
      /\ UNCHANGED <<db, online, emitted, reported, dropped, forked>>
  BY DEF Crash
<1>2. TypeOK
  BY DEF IInv
<1>3. InMemory(i) \subseteq Events
  <2>1. /\ \A k \in 1 .. Len(mailbox[i]) : mailbox[i][k] \in Messages
        /\ \A k \in 1 .. Len(pending[i]) : pending[i][k] \in Events
        /\ \A k \in 1 .. Len(channel[i]) : channel[i][k] \in Rows
    BY <1>2 DEF TypeOK
  <2>2. \A k \in 1 .. Len(mailbox[i]) :
           mailbox[i][k].type = "event" => mailbox[i][k].event \in Events
    BY <2>1 DEF Messages
  <2>3. \A k \in 1 .. Len(channel[i]) : channel[i][k].event \in Events
    BY <2>1 DEF Rows
  <2> QED
    BY <2>1, <2>2, <2>3 DEF InMemory
<1>4. /\ << >> \in Seq(Messages) /\ << >> \in Seq(Events) /\ << >> \in Seq(Rows)
      /\ Len(<< >>) = 0
  BY EmptySeq
<1>5. TypeOK'
  BY <1>1, <1>2, <1>3, <1>4, ConstantsAssumption DEF TypeOK
<1>6. /\ mailbox'[i] = << >> /\ channel'[i] = << >> /\ chain'[i] = None
      /\ phase'[i] = "down"
      /\ \A j \in Instances \ {i} : /\ mailbox'[j] = mailbox[j]
                                    /\ channel'[j] = channel[j]
                                    /\ chain'[j] = chain[j]
                                    /\ phase'[j] = phase[j]
  BY <1>1, <1>2 DEF TypeOK
<1>7. Anchors' = Anchors
  BY <1>1 DEF Anchors
<1>8. LoadedShape'
  BY <1>4, <1>6, <1>7 DEF IInv, LoadedShape
<1>9. LoadedOnce'
  BY <1>4, <1>6 DEF IInv, LoadedOnce
<1>10. ChannelShape' /\ ChainShape'
  BY <1>4, <1>6 DEF IInv, ChannelShape, ChainShape
<1>11. ChannelLinked'
  BY <1>4, <1>6 DEF IInv, ChannelLinked
<1>12. ChannelAnchored'
  BY <1>1, <1>6, <1>7 DEF IInv, ChannelAnchored
<1>13. StoredShape' /\ StoredUnique' /\ StoredAnchored'
  BY <1>1, <1>7 DEF IInv, StoredShape, StoredUnique, StoredAnchored
<1> QED
  BY <1>5, <1>8, <1>9, <1>10, <1>11, <1>12, <1>13 DEF IInv

\* One turn of the writer task.  A row that is accepted while nothing was
\* reported links to a stored row or to genesis, so the stored rows still do;
\* a row that is not accepted is reported.
LEMMA WriterStep ==
    ASSUME IInv, NEW i \in Instances, WriterAppend(i)
    PROVE  IInv'
<1> DEFINE r  == Head(channel[i])
           st == AsStored(r)
           m  == Len(channel[i])
<1>1. /\ channel[i] # << >>
      /\ channel' = [channel EXCEPT ![i] = Tail(@)]
      /\ UNCHANGED <<phase, mailbox, chain, pending, online, emitted, dropped,
                     forked, lost, crashes>>
  BY DEF WriterAppend
<1>2. /\ TypeOK /\ LoadedOnce /\ LoadedShape /\ StoredShape /\ StoredAnchored
      /\ StoredUnique /\ ChannelShape /\ ChainShape /\ ChannelLinked /\ ChannelAnchored
  BY DEF IInv
<1>3. channel[i] \in Seq(Rows) /\ channel'[i] = Tail(channel[i])
  BY <1>1, <1>2 DEF TypeOK
<1>4. /\ m \in Nat \ {0}
      /\ r = channel[i][1] /\ r \in Rows
      /\ channel'[i] \in Seq(Rows)
      /\ Len(channel'[i]) = m - 1
      /\ \A k \in 1 .. m - 1 : channel'[i][k] = channel[i][k + 1]
  <2>1. /\ Tail(channel[i]) \in Seq(Rows)
        /\ Len(Tail(channel[i])) = Len(channel[i]) - 1
        /\ Len(channel[i]) \in Nat \ {0}
        /\ Head(channel[i]) = channel[i][1]
        /\ Head(channel[i]) \in Rows
        /\ \A k \in 1 .. Len(channel[i]) - 1 : Tail(channel[i])[k] = channel[i][k + 1]
    <3>1. channel[i] \in Seq(Rows) /\ channel[i] # << >>
      BY <1>1, <1>3
    <3> QED
      BY ONLY <3>1, HeadTailProperties, EmptySeq
  <2> QED
    BY <1>3, <2>1
<1>5. \A j \in Instances \ {i} : channel'[j] = channel[j]
  BY <1>1, <1>2 DEF TypeOK
<1>6. channel' \in [Instances -> Seq(Rows)]
  BY <1>1, <1>2, <1>4 DEF TypeOK
<1>7. RowShape(r)
  BY <1>2, <1>4 DEF ChannelShape
<1>8. /\ st \in Rows /\ st.hash = r.hash /\ st.previous_hash = r.previous_hash
      /\ st.sequence = r.sequence
  BY <1>4 DEF AsStored, Rows
<1>9. RowShape(st)
  BY <1>7, <1>8 DEF RowShape
<1>10. r.event \in Events
  BY <1>4 DEF Rows
<1> HIDE DEF r, st, m
<1>11. /\ reported \subseteq reported' /\ reported' \subseteq Events
       /\ \/ db' = db \cup {st} /\ Accepts(r)
          \/ db' = db /\ reported' # {}
  <2>1. CASE online /\ Accepts(r) /\ db' = db \cup {st} /\ UNCHANGED reported
    BY <1>2, <2>1 DEF TypeOK
  <2>2. CASE online /\ Accepts(r) /\ db' = db \cup {st} /\ reported' = reported \cup {r.event}
    BY <1>2, <1>10, <2>2 DEF TypeOK
  <2>3. CASE (~online \/ ~Accepts(r)) /\ reported' = reported \cup {r.event} /\ UNCHANGED db
    BY <1>2, <1>10, <2>3 DEF TypeOK
  <2> QED
    BY <2>1, <2>2, <2>3 DEF WriterAppend, r, st
<1>12. TypeOK'
  <2>1. db' \subseteq Rows
    BY <1>2, <1>8, <1>11 DEF TypeOK
  <2>2. dropped' \subseteq reported'
    BY <1>1, <1>2, <1>11 DEF TypeOK
  <2> QED
    BY <1>1, <1>2, <1>6, <1>11, <2>1, <2>2 DEF TypeOK
<1>13. StoredShape'
  BY <1>2, <1>9, <1>11 DEF StoredShape
<1>14. \A k \in 1 .. m - 1 : k + 1 \in 1 .. m
  BY <1>4
<1>15. ChannelShape'
  BY <1>2, <1>4, <1>5, <1>14 DEF ChannelShape, m
<1>16. ChainShape' /\ LoadedOnce'
  <2>1. chain[i] # None
    BY <1>1, <1>2 DEF LoadedOnce
  <2> QED
    BY <1>1, <1>2, <1>5, <2>1 DEF ChainShape, LoadedOnce
<1>17. Anchors \subseteq Anchors'
  BY <1>11 DEF Anchors
<1>18. LoadedShape'
  BY <1>1, <1>2, <1>17 DEF LoadedShape
<1>19. channel'[i] = << >> <=> m = 1
  BY <1>4, EmptySeq
<1>20. ChannelLinked'
  <2>1. ASSUME NEW k \in 1 .. Len(channel'[i]) - 1
        PROVE  channel'[i][k + 1].previous_hash = channel'[i][k].hash
    <3>1. k \in 1 .. m - 1 /\ k + 1 \in 1 .. m - 1
      BY <1>4
    <3> QED
      BY <1>2, <1>4, <3>1 DEF ChannelLinked, m
  <2>2. channel'[i] # << >> =>
          chain[i].previous_hash = channel'[i][Len(channel'[i])].hash
    <3>1. SUFFICES ASSUME channel'[i] # << >>
                   PROVE  chain[i].previous_hash = channel'[i][Len(channel'[i])].hash
      OBVIOUS
    <3>2. m - 1 \in 1 .. m - 1 /\ (m - 1) + 1 = m
      BY <1>4, <1>19, <3>1
    <3>3. channel'[i][m - 1] = channel[i][m]
      BY <1>4, <3>2
    <3> QED
      BY <1>1, <1>2, <1>4, <3>3 DEF ChannelLinked, m
  <2>3. ASSUME NEW j \in Instances
        PROVE  /\ \A k \in 1 .. Len(channel'[j]) - 1 :
                    channel'[j][k + 1].previous_hash = channel'[j][k].hash
               /\ channel'[j] # << >> =>
                    chain[j].previous_hash = channel'[j][Len(channel'[j])].hash
    <3>1. CASE j = i
      BY <2>1, <2>2, <3>1
    <3>2. CASE j # i
      BY <1>2, <1>5, <3>2 DEF ChannelLinked
    <3> QED
      BY <3>1, <3>2
  <2> QED
    BY <1>1, <2>3 DEF ChannelLinked
<1>21. ASSUME reported' = {}
       PROVE  /\ reported = {} /\ db' = db \cup {st} /\ Accepts(r)
              /\ r.hash \in Anchors' /\ r.previous_hash \in Anchors
  <2>1. reported = {} /\ db' = db \cup {st} /\ Accepts(r)
    BY <1>11, <1>21
  <2>2. r.hash \in Anchors'
    BY <1>8, <2>1 DEF Anchors
  <2>3. r.previous_hash \in Anchors
    BY <1>1, <1>2, <1>4, <2>1 DEF ChannelAnchored
  <2> QED
    BY <2>1, <2>2, <2>3
<1>22. ChannelAnchored'
  <2> SUFFICES ASSUME reported' = {}, NEW j \in Instances
               PROVE  /\ channel'[j] # << >> => channel'[j][1].previous_hash \in Anchors'
                      /\ chain[j] # None /\ channel'[j] = << >> =>
                           chain[j].previous_hash \in Anchors'
    BY <1>1 DEF ChannelAnchored
  <2>1. CASE j = i
    <3>1. CASE channel'[i] = << >>
      <4>1. chain[i].previous_hash = r.hash
        BY <1>1, <1>2, <1>4, <1>19, <3>1 DEF ChannelLinked, m
      <4> QED
        BY <1>21, <2>1, <3>1, <4>1
    <3>2. CASE channel'[i] # << >>
      <4>1. 1 \in 1 .. m - 1
        BY <1>4, <1>19, <3>2
      <4>2. channel'[i][1] = channel[i][1 + 1]
        BY <1>4, <4>1
      <4>3. channel[i][1 + 1].previous_hash = channel[i][1].hash
        BY <1>2, <4>1 DEF ChannelLinked, m
      <4> QED
        BY <1>4, <1>21, <2>1, <3>2, <4>2, <4>3
    <3> QED
      BY <3>1, <3>2
  <2>2. CASE j # i
    BY <1>2, <1>5, <1>17, <1>21, <2>2 DEF ChannelAnchored
  <2> QED
    BY <2>1, <2>2
<1>23. StoredAnchored'
  BY <1>2, <1>8, <1>17, <1>21 DEF StoredAnchored
<1>24. StoredUnique'
  <2>1. CASE db' = db
    BY <1>2, <2>1 DEF StoredUnique
  <2>2. CASE db' = db \cup {st} /\ Accepts(r)
    BY <1>2, <1>8, <2>2 DEF StoredUnique, Accepts
  <2> QED
    BY <1>11, <2>1, <2>2
<1> QED
  BY <1>12, <1>13, <1>15, <1>16, <1>18, <1>20, <1>22, <1>23, <1>24 DEF IInv

-----------------------------------------------------------------------------
(* The theorems.                                                           *)

\* A table without rows and replicas without a chain.
LEMMA InitIInv == Init => IInv
<1> SUFFICES ASSUME Init PROVE IInv
  OBVIOUS
<1>1. << >> \in Seq(Messages) /\ << >> \in Seq(Events) /\ << >> \in Seq(Rows) /\ Len(<< >>) = 0
  BY EmptySeq
<1>2. TypeOK
  <2>1. 0 \in 0 .. MaxEvents /\ 0 \in 0 .. MaxCrashes
    BY ConstantsAssumption
  <2> QED
    BY <1>1, <2>1 DEF Init, TypeOK
<1>3. StoredShape /\ StoredAnchored /\ StoredUnique
  BY DEF Init, StoredShape, StoredAnchored, StoredUnique
<1>4. ChannelShape /\ ChainShape /\ LoadedShape /\ LoadedOnce
  BY <1>1 DEF Init, ChannelShape, ChainShape, LoadedShape, LoadedOnce
<1>5. ChannelLinked /\ ChannelAnchored
  BY <1>1 DEF Init, ChannelLinked, ChannelAnchored
<1> QED
  BY <1>2, <1>3, <1>4, <1>5 DEF IInv

\* Every step of a producer, agent, writer, crash or restart keeps the invariant.
LEMMA NextIInv == IInv /\ [Next]_vars => IInv'
<1> SUFFICES ASSUME IInv, [Next]_vars PROVE IInv'
  OBVIOUS
<1>1. CASE UNCHANGED vars
  <2>1. UNCHANGED <<phase, mailbox, chain, pending, channel, db, online, emitted,
                    reported, dropped, forked, lost, crashes>>
    BY <1>1 DEF vars, agentVars, historyVars
  <2>2. TypeOK' /\ LoadedShape' /\ LoadedOnce'
    BY <2>1 DEF IInv, TypeOK, LoadedShape, LoadedOnce, Anchors
  <2> QED
    BY <2>1, <2>2, Unmoved DEF IInv
<1>2. CASE Connectivity
  BY <1>2, ConnectivityStep
<1>3. ASSUME NEW i \in Instances,
             \/ Log(i) \/ wait_for_storage(i) \/ load_chain(i) \/ HandleEvent(i)
             \/ HandleChainLoaded(i) \/ WriterAppend(i) \/ Crash(i) \/ Restart(i)
      PROVE  IInv'
  BY <1>3, LogStep, WaitStep, LoadStep, EventStep, ChainLoadedStep, WriterStep,
     CrashStep, RestartStep
<1> QED
  BY <1>1, <1>2, <1>3 DEF Next

\* The stored rows form one chain as long as nothing was reported: a row that
\* links to no stored row is the first, and the row it links to has the
\* sequence number just below its own.
LEMMA IInvImpliesLinks == IInv => BreaksAreReported
<1> SUFFICES ASSUME IInv, Backend \in UniqueBackends, reported = {}, NEW r \in db
             PROVE  LinkHolds(r, 1)
  BY DEF BreaksAreReported
<1>1. /\ \A s \in db : s \in Rows /\ s.sequence \in Nat \ {0} /\ RowShape(s)
      /\ \A s, t \in db : s.sequence = t.sequence => s = t
      /\ r.previous_hash \in Anchors
  BY DEF IInv, TypeOK, Rows, StoredShape, StoredUnique, StoredAnchored
<1>2. \A s \in db : s \in Before(r, 1) <=> s.sequence < r.sequence
  BY <1>1 DEF Before
<1>3. CASE r.previous_hash = Genesis
  <2>1. r.sequence = 1
    BY <1>1, <1>3, EmptySeq DEF RowShape, Genesis
  <2>2. Before(r, 1) = {}
    BY <1>1, <2>1 DEF Before
  <2> QED
    BY <1>3, <2>2 DEF LinkHolds
<1>4. CASE \E s \in db : r.previous_hash = s.hash
  <2>1. PICK s \in db : r.previous_hash = s.hash
    BY <1>4
  <2>2. r.sequence = s.sequence + 1
    BY <1>1, <2>1 DEF RowShape
  <2>3. s \in Before(r, 1)
    BY <1>1, <1>2, <2>2
  <2>4. \A t \in Before(r, 1) : t.sequence <= s.sequence
    BY <1>1, <2>2 DEF Before
  <2> QED
    BY <2>1, <2>3, <2>4 DEF LinkHolds
<1> QED
  BY <1>1, <1>3, <1>4 DEF Anchors

\* The inductive invariant: the agent's state in every reachable state of any
\* deployment.
THEOREM Invariance == Spec => []IInv
BY InitIInv, NextIInv, PTL DEF Spec

\* Type correctness of the agent, its writer and the table.
THEOREM TypeCorrect == Spec => []TypeOK
<1>1. IInv => TypeOK
  BY DEF IInv
<1> QED
  BY <1>1, Invariance, PTL

\* With a UNIQUE sequence column, no interleaving of replicas, crashes, late
\* start-ups and storage outages breaks the stored hash chain unless the
\* failure tracker was told (record_failure in agent.rs).
THEOREM NoSilentBreak == Spec => []BreaksAreReported
BY IInvImpliesLinks, Invariance, PTL

-----------------------------------------------------------------------------
(* Order and completeness.                                                 *)

\* The events of a replica, by where they are.
Mail(i) == {k \in 1 .. Len(mailbox[i]) : mailbox[i][k].type = "event"}
Own(i) == {r \in db : r.event[1] = i}

\* A replica holds and stores its own events only, and those closer to the
\* table were emitted earlier: rows before the channel, the channel or the
\* buffer before the mailbox, each of them in order.
MemoryInOrder(i) ==
    /\ \A k \in Mail(i) : mailbox[i][k].event[1] = i /\ mailbox[i][k].event[2] <= emitted[i]
    /\ \A j, k \in Mail(i) : j < k => mailbox[i][j].event[2] < mailbox[i][k].event[2]
    /\ \A k \in 1 .. Len(pending[i]) : pending[i][k][1] = i /\ pending[i][k][2] <= emitted[i]
    /\ \A j, k \in 1 .. Len(pending[i]) : j < k => pending[i][j][2] < pending[i][k][2]
    /\ \A j \in 1 .. Len(pending[i]), k \in Mail(i) : pending[i][j][2] < mailbox[i][k].event[2]
    /\ \A k \in 1 .. Len(channel[i]) : channel[i][k].event[1] = i /\ channel[i][k].event[2] <= emitted[i]
    /\ \A j, k \in 1 .. Len(channel[i]) : j < k => channel[i][j].event[2] < channel[i][k].event[2]
    /\ \A j \in 1 .. Len(channel[i]), k \in Mail(i) : channel[i][j].event[2] < mailbox[i][k].event[2]
    /\ chain[i] # None => pending[i] = << >>

StoredFirst(i) ==
    \A r \in Own(i) :
        /\ r.event[2] <= emitted[i]
        /\ \A k \in Mail(i) : r.event[2] < mailbox[i][k].event[2]
        /\ \A k \in 1 .. Len(pending[i]) : r.event[2] < pending[i][k][2]
        /\ \A k \in 1 .. Len(channel[i]) : r.event[2] < channel[i][k].event[2]

\* The chain a replica resumes from, and then its tip, is past every row the
\* replica has stored, in this life or an earlier one.
SequencesRise(i) ==
    /\ \A k \in 1 .. Len(mailbox[i]) : mailbox[i][k].type = "loaded" =>
           \A r \in Own(i) : r.sequence <= mailbox[i][k].sequence
    /\ chain[i] # None =>
           /\ \A r \in Own(i) : r.sequence <= chain[i].sequence
           /\ \A k \in 1 .. Len(channel[i]) : channel[i][k].sequence <= chain[i].sequence
    /\ \A j, k \in 1 .. Len(channel[i]) : j < k => channel[i][j].sequence < channel[i][k].sequence
    /\ \A r \in Own(i), k \in 1 .. Len(channel[i]) : r.sequence < channel[i][k].sequence

StoredInOrder(i) == \A r, s \in Own(i) : r.event[2] < s.event[2] => r.sequence < s.sequence

InOrder(i) ==
    MemoryInOrder(i) /\ StoredFirst(i) /\ (~forked => SequencesRise(i) /\ StoredInOrder(i))

OrderInv == \A i \in Instances : InOrder(i)

\* Nothing of replica j changes.
Same(j) ==
    /\ mailbox'[j] = mailbox[j] /\ pending'[j] = pending[j] /\ channel'[j] = channel[j]
    /\ chain'[j] = chain[j] /\ emitted'[j] = emitted[j] /\ Own(j)' = Own(j)

LEMMA SameInOrder ==
    ASSUME NEW j \in Instances, InOrder(j), ~forked' => ~forked, Same(j)
    PROVE  InOrder(j)'
<1>1. Mail(j)' = Mail(j)
  BY DEF Mail, Same
<1>2. MemoryInOrder(j)' /\ StoredFirst(j)'
  BY <1>1 DEF InOrder, MemoryInOrder, StoredFirst, Same
<1>3. SequencesRise(j) => SequencesRise(j)'
  BY DEF SequencesRise, Same
<1>4. StoredInOrder(j) => StoredInOrder(j)'
  BY DEF StoredInOrder, Same
<1> QED  BY <1>2, <1>3, <1>4 DEF InOrder

\* The numbers that are compared.
LEMMA Numbers ==
    ASSUME TypeOK, NEW i \in Instances
    PROVE  /\ emitted[i] \in Int
           /\ Len(mailbox[i]) \in Nat /\ Len(pending[i]) \in Nat /\ Len(channel[i]) \in Nat
           /\ \A k \in Mail(i) : mailbox[i][k].event \in Events /\ mailbox[i][k].event[2] \in Int
           /\ \A k \in 1 .. Len(pending[i]) : pending[i][k] \in Events /\ pending[i][k][2] \in Int
           /\ \A k \in 1 .. Len(channel[i]) :
                  channel[i][k] \in Rows /\ channel[i][k].event[2] \in Int /\ channel[i][k].sequence \in Int
           /\ \A r \in db : r.event[2] \in Int /\ r.sequence \in Int
           /\ \A k \in 1 .. Len(mailbox[i]) : mailbox[i][k].type = "loaded" => mailbox[i][k].sequence \in Int
           /\ chain[i] # None => chain[i] \in Chains /\ chain[i].sequence \in Int
<1>1. \A e \in Events : e[2] \in Int
  BY ConstantsAssumption DEF Events
<1>2. \A r \in Rows : r.event \in Events /\ r.sequence \in Int
  BY DEF Rows
<1>3. mailbox[i] \in Seq(Messages) /\ pending[i] \in Seq(Events) /\ channel[i] \in Seq(Rows) /\ db \subseteq Rows
  BY DEF TypeOK
<1>4. \A k \in 1 .. Len(mailbox[i]) : mailbox[i][k] \in Messages
  BY <1>3
<1>5. \A m \in Messages : (m.type = "event" => m.event \in Events) /\ (m.type = "loaded" => m.sequence \in Int)
  BY DEF Messages
<1>6. chain[i] # None => chain[i] \in Chains /\ chain[i].sequence \in Int
  BY DEF TypeOK, Chains
<1>7. emitted[i] \in Int
  BY ConstantsAssumption DEF TypeOK
<1>8. \A k \in 1 .. Len(channel[i]) : channel[i][k] \in Rows
  BY <1>3
<1>9. \A k \in Mail(i) : mailbox[i][k].event \in Events
  BY <1>4, <1>5 DEF Mail
<1>10. \A k \in 1 .. Len(pending[i]) : pending[i][k] \in Events
  BY <1>3
<1> QED  BY <1>1, <1>2, <1>3, <1>4, <1>5, <1>6, <1>7, <1>8, <1>9, <1>10, LenProperties

\* Where the elements of a sequence go.
LEMMA TailPlaces ==
    ASSUME NEW S, NEW s \in Seq(S), s # << >>
    PROVE  /\ Head(s) = s[1] /\ Len(s) \in Nat \ {0} /\ 1 \in 1 .. Len(s) /\ Len(Tail(s)) = Len(s) - 1
           /\ \A k \in 1 .. Len(Tail(s)) : k + 1 \in 1 .. Len(s) /\ Tail(s)[k] = s[k + 1]
           /\ \A k \in 1 .. Len(s) : k = 1 \/ (k - 1 \in 1 .. Len(Tail(s)) /\ Tail(s)[k - 1] = s[k])
<1>1. /\ Head(s) = s[1] /\ Len(s) \in Nat \ {0} /\ Len(Tail(s)) = Len(s) - 1
      /\ \A k \in 1 .. Len(s) - 1 : Tail(s)[k] = s[k + 1]
  BY HeadTailProperties, EmptySeq
<1>2. \A k \in 1 .. Len(s) : k # 1 => k - 1 \in 1 .. Len(s) - 1 /\ (k - 1) + 1 = k
  BY <1>1
<1> QED  BY <1>1, <1>2

\* What seal makes of a run of events.
LEMMA SealedPlaces ==
    ASSUME NEW c \in Chains, NEW es \in Seq(Events)
    PROVE  /\ \A k \in 1 .. Len(es) : Sealed(c, es)[k].event = es[k] /\ Sealed(c, es)[k].sequence = c.sequence + k
           /\ Advanced(c, es).sequence = c.sequence + Len(es)
BY DEF Sealed, Advanced

\* seal_and_dispatch puts the rows of es at the end of the channel.
LEMMA Dispatched ==
    ASSUME TypeOK, NEW i \in Instances, NEW c \in Chains, Len(c.previous_hash) = c.sequence,
           NEW es \in Seq(Events), seal_and_dispatch(i, c, es)
    PROVE  /\ Len(channel'[i]) = Len(channel[i]) + Len(es)
           /\ \A k \in 1 .. Len(channel[i]) : channel'[i][k] = channel[i][k]
           /\ \A k \in 1 .. Len(es) :
                  /\ channel'[i][Len(channel[i]) + k].event = es[k]
                  /\ channel'[i][Len(channel[i]) + k].sequence = c.sequence + k
           /\ chain'[i] # None /\ chain'[i].sequence = c.sequence + Len(es)
           /\ \A j \in Instances \ {i} : chain'[j] = chain[j] /\ channel'[j] = channel[j]
<1>1. PICK rows : rows = Sealed(c, es)
  OBVIOUS
<1>2. rows \in Seq(Rows) /\ Len(rows) = Len(es) /\ Advanced(c, es) \in Chains
  BY <1>1, SealedRun
<1>3. channel[i] \in Seq(Rows) /\ channel'[i] = channel[i] \o rows /\ chain'[i] = Advanced(c, es)
  BY <1>1 DEF TypeOK, seal_and_dispatch
<1>4. /\ Len(channel[i] \o rows) = Len(channel[i]) + Len(rows) /\ Len(channel[i]) \in Nat /\ Len(rows) \in Nat
      /\ \A k \in 1 .. Len(channel[i]) + Len(rows) :
             (channel[i] \o rows)[k] = IF k <= Len(channel[i]) THEN channel[i][k] ELSE rows[k - Len(channel[i])]
  <2>1. channel[i] \in Seq(Rows) /\ rows \in Seq(Rows)
    BY <1>2, <1>3
  <2> QED  BY ONLY <2>1, ConcatProperties, LenProperties
<1>5. \A k \in 1 .. Len(es) : channel'[i][Len(channel[i]) + k] = rows[k]
  <2> TAKE k \in 1 .. Len(es)
  <2>1. /\ Len(channel[i]) + k \in 1 .. Len(channel[i]) + Len(rows) /\ ~(Len(channel[i]) + k <= Len(channel[i]))
        /\ (Len(channel[i]) + k) - Len(channel[i]) = k
    BY <1>2, <1>4
  <2> QED  BY <1>3, <1>4, <2>1
<1>6. \A k \in 1 .. Len(channel[i]) : channel'[i][k] = channel[i][k]
  <2> TAKE k \in 1 .. Len(channel[i])
  <2>1. k \in 1 .. Len(channel[i]) + Len(rows) /\ k <= Len(channel[i])
    BY <1>4
  <2> QED  BY <1>3, <1>4, <2>1
<1>7. chain'[i] # None
  BY <1>2, <1>3, ConstantsAssumption
<1>8. \A j \in Instances \ {i} : chain'[j] = chain[j] /\ channel'[j] = channel[j]
  BY DEF TypeOK, seal_and_dispatch
<1>9. \A k \in 1 .. Len(es) : rows[k].event = es[k] /\ rows[k].sequence = c.sequence + k
  BY <1>1, SealedPlaces
<1> QED  BY <1>2, <1>3, <1>4, <1>5, <1>6, <1>7, <1>8, <1>9, SealedPlaces

\* Only replica i moves, and no other replica's rows are stored.
OnlyOf(i) ==
    /\ \A j \in Instances \ {i} : Same(j)
    /\ ~forked' => ~forked

LEMMA OnlyOfOne ==
    ASSUME OrderInv, NEW i \in Instances, OnlyOf(i), InOrder(i)'
    PROVE  OrderInv'
BY SameInOrder DEF OrderInv, OnlyOf

\* An event is logged: it has the highest number so far.
LEMMA LogOrder ==
    ASSUME IInv, OrderInv, NEW i \in Instances, Log(i)
    PROVE  OrderInv'
<1>1. PICK m : m = [type |-> "event", event |-> <<i, emitted[i] + 1>>]
  OBVIOUS
<1>2. /\ mailbox' = [mailbox EXCEPT ![i] = Append(@, m)] /\ emitted' = [emitted EXCEPT ![i] = @ + 1]
      /\ emitted[i] < MaxEvents /\ UNCHANGED <<chain, pending, channel, db, forked>>
  BY <1>1 DEF Log
<1>3. TypeOK /\ InOrder(i)
  BY DEF IInv, OrderInv
<1>4. emitted'[i] = emitted[i] + 1 /\ emitted[i] \in Nat /\ emitted[i] + 1 \in 1 .. MaxEvents
  BY <1>2, <1>3, ConstantsAssumption DEF TypeOK
<1>5. m \in Messages /\ m.type = "event" /\ m.event[1] = i /\ m.event[2] = emitted[i] + 1 /\ m.type # "loaded"
  BY <1>1, <1>4 DEF Messages, Events
<1>6. /\ \A j \in Instances \ {i} : mailbox'[j] = mailbox[j]
      /\ Len(mailbox[i]) \in Nat /\ Len(mailbox'[i]) = Len(mailbox[i]) + 1
      /\ \A k \in 1 .. Len(mailbox[i]) : mailbox'[i][k] = mailbox[i][k]
      /\ mailbox'[i][Len(mailbox[i]) + 1] = m
  <2>1. m \in Messages /\ mailbox' = [mailbox EXCEPT ![i] = Append(@, m)]
    BY <1>2, <1>5
  <2> QED  BY <2>1, MailboxAppend
<1>7. Own(i)' = Own(i) /\ OnlyOf(i)
  BY <1>2, <1>3, <1>6 DEF Own, OnlyOf, Same, TypeOK
<1>8. \A k \in Mail(i)' : \/ k \in Mail(i) /\ k \in 1 .. Len(mailbox[i]) /\ mailbox'[i][k] = mailbox[i][k]
                          \/ k = Len(mailbox[i]) + 1 /\ mailbox'[i][k] = m
  BY <1>6 DEF Mail
<1>9. MemoryInOrder(i)'
  <2>1. MemoryInOrder(i)
    BY <1>3 DEF InOrder
  <2>0. /\ \A k \in 1 .. Len(pending[i]) : pending[i][k][2] \in Int /\ pending[i][k][2] <= emitted[i]
        /\ \A k \in 1 .. Len(channel[i]) : channel[i][k].event[2] \in Int /\ channel[i][k].event[2] <= emitted[i]
    BY <1>3, <2>1, Numbers DEF MemoryInOrder
  <2>7. \A k \in Mail(i) : /\ mailbox[i][k].event[1] = i /\ mailbox[i][k].event[2] <= emitted[i]
                            /\ mailbox[i][k].event[2] \in Int
    BY <1>3, <2>1, Numbers DEF MemoryInOrder
  <2>8. /\ \A k \in 1 .. Len(pending[i]) : pending[i][k][2] < m.event[2]
        /\ \A k \in 1 .. Len(channel[i]) : channel[i][k].event[2] < m.event[2]
    BY <1>4, <1>5, <2>0
  <2>2. \A k \in Mail(i)' : mailbox'[i][k].event[1] = i /\ mailbox'[i][k].event[2] <= emitted'[i]
    <3>1. \A k \in Mail(i) : mailbox'[i][k] = mailbox[i][k] => mailbox'[i][k].event[1] = i /\ mailbox'[i][k].event[2] <= emitted'[i]
      BY <1>4, <2>7
    <3>2. m.event[1] = i /\ m.event[2] <= emitted'[i]
      BY <1>4, <1>5
    <3> QED  BY <1>8, <3>1, <3>2
  <2>3. ASSUME NEW j \in Mail(i)', NEW k \in Mail(i)', j < k  PROVE mailbox'[i][j].event[2] < mailbox'[i][k].event[2]
    <3>1. j \in Mail(i) /\ mailbox'[i][j] = mailbox[i][j]
      BY <1>6, <1>8, <2>3
    <3>2. mailbox[i][j].event[2] < m.event[2]
      BY <1>4, <1>5, <2>7, <3>1
    <3>3. k \in Mail(i) => mailbox[i][j].event[2] < mailbox[i][k].event[2]
      BY <2>1, <2>3, <3>1 DEF MemoryInOrder
    <3> QED  BY <1>8, <3>1, <3>2, <3>3
  <2>4. \A j \in 1 .. Len(pending[i]), k \in Mail(i)' : pending[i][j][2] < mailbox'[i][k].event[2]
    <3>1. \A j \in 1 .. Len(pending[i]), k \in Mail(i) : pending[i][j][2] < mailbox[i][k].event[2]
      BY <2>1 DEF MemoryInOrder
    <3> QED  BY <1>8, <2>8, <3>1
  <2>5. \A j \in 1 .. Len(channel[i]), k \in Mail(i)' : channel[i][j].event[2] < mailbox'[i][k].event[2]
    <3>1. \A j \in 1 .. Len(channel[i]), k \in Mail(i) : channel[i][j].event[2] < mailbox[i][k].event[2]
      BY <2>1 DEF MemoryInOrder
    <3> QED  BY <1>8, <2>8, <3>1
  <2>6. /\ \A k \in 1 .. Len(pending[i]) : pending[i][k][2] <= emitted'[i]
        /\ \A k \in 1 .. Len(channel[i]) : channel[i][k].event[2] <= emitted'[i]
    BY <1>4, <2>0
  <2> QED  BY <1>2, <2>1, <2>2, <2>3, <2>4, <2>5, <2>6 DEF MemoryInOrder
<1>10. StoredFirst(i)'
  <2>1. StoredFirst(i)
    BY <1>3 DEF InOrder
  <2>2. \A r \in Own(i) : r.event[2] \in Int
    BY <1>3, Numbers DEF Own
  <2>3. \A r \in Own(i) : r.event[2] <= emitted'[i] /\ \A k \in Mail(i)' : r.event[2] < mailbox'[i][k].event[2]
    BY <1>4, <1>5, <1>8, <2>1, <2>2 DEF StoredFirst
  <2> QED  BY <1>2, <1>7, <2>1, <2>3 DEF StoredFirst
<1>11. SequencesRise(i) => SequencesRise(i)'
  <2>1. \A k \in 1 .. Len(mailbox'[i]) : mailbox'[i][k].type = "loaded" =>
            k \in 1 .. Len(mailbox[i]) /\ mailbox'[i][k] = mailbox[i][k]
    BY <1>5, <1>6
  <2> QED  BY <1>2, <1>7, <2>1 DEF SequencesRise
<1>12. StoredInOrder(i) => StoredInOrder(i)'
  BY <1>7 DEF StoredInOrder
<1>13. InOrder(i)'
  BY <1>2, <1>3, <1>9, <1>10, <1>11, <1>12 DEF InOrder
<1> QED  BY <1>7, <1>13, OnlyOfOne

\* A replica starts, stops waiting, or the database comes and goes.
LEMMA QuietOrder ==
    ASSUME OrderInv, UNCHANGED <<mailbox, pending, channel, chain, emitted, db, forked>>
    PROVE  OrderInv'
<1>1. \A j \in Instances : Same(j)
  BY DEF Same, Own
<1> QED  BY <1>1, SameInOrder DEF OrderInv

\* The start-up task sends the newest row on: no row is past it.
LEMMA LoadOrder ==
    ASSUME IInv, OrderInv, NEW i \in Instances, load_chain(i)
    PROVE  OrderInv'
<1>1. TypeOK /\ InOrder(i) /\ LoadedOnce
  BY DEF IInv, OrderInv
<1>2. PICK m \in Messages :
        /\ m.type = "loaded" /\ mailbox' = [mailbox EXCEPT ![i] = Append(@, m)]
        /\ ~forked' => ~forked /\ \A r \in db : r.sequence <= m.sequence
  <2>1. CASE /\ \E r \in LatestRows : mailbox' = [mailbox EXCEPT ![i] = Append(@,
                   [type |-> "loaded", previous_hash |-> r.hash, sequence |-> r.sequence])]
             /\ UNCHANGED forked
    <3>1. PICK r \in LatestRows : mailbox' = [mailbox EXCEPT ![i] = Append(@,
                   [type |-> "loaded", previous_hash |-> r.hash, sequence |-> r.sequence])]
      BY <2>1
    <3>2. r \in Rows /\ \A s \in db : s.sequence <= r.sequence
      BY <1>1, <3>1 DEF LatestRows, TypeOK
    <3>3. [type |-> "loaded", previous_hash |-> r.hash, sequence |-> r.sequence] \in Messages
      BY <3>2 DEF Messages, Rows
    <3> QED  BY <2>1, <3>1, <3>2, <3>3
  <2>2. CASE /\ mailbox' = [mailbox EXCEPT ![i] = Append(@, [type |-> "loaded", previous_hash |-> Genesis, sequence |-> 0])]
             /\ forked' = (forked \/ db # {})
    <3>1. Genesis \in Hashes
      BY EmptySeq DEF Genesis, Hashes
    <3>2. [type |-> "loaded", previous_hash |-> Genesis, sequence |-> 0] \in Messages
      BY <3>1 DEF Messages
    <3>3. ~forked' => ~forked /\ db = {}
      BY <2>2
    <3> QED  BY <2>2, <3>2, <3>3
  <2> QED  BY <2>1, <2>2 DEF load_chain
<1>3. UNCHANGED <<chain, pending, channel, db, emitted>> /\ phase[i] = "reading"
  BY DEF load_chain
<1>4. chain[i] = None /\ channel[i] = << >>
  BY <1>1, <1>3 DEF LoadedOnce
<1>5. /\ \A j \in Instances \ {i} : mailbox'[j] = mailbox[j]
      /\ Len(mailbox[i]) \in Nat /\ Len(mailbox'[i]) = Len(mailbox[i]) + 1
      /\ \A k \in 1 .. Len(mailbox[i]) : mailbox'[i][k] = mailbox[i][k]
      /\ mailbox'[i][Len(mailbox[i]) + 1] = m
  BY <1>2, MailboxAppend
<1>6. Own(i)' = Own(i) /\ OnlyOf(i)
  BY <1>2, <1>3, <1>5 DEF Own, OnlyOf, Same
<1>7. "loaded" # "event"
  OBVIOUS
<1>8. Mail(i)' = Mail(i) /\ \A k \in Mail(i) : mailbox'[i][k] = mailbox[i][k]
  <2>1. \A k \in 1 .. Len(mailbox'[i]) : \/ k \in 1 .. Len(mailbox[i]) /\ mailbox'[i][k] = mailbox[i][k]
                                         \/ mailbox'[i][k].type # "event"
    BY <1>2, <1>5, <1>7
  <2>2. \A k \in 1 .. Len(mailbox[i]) : k \in 1 .. Len(mailbox'[i])
    BY <1>5
  <2>3. Mail(i)' \subseteq Mail(i)
    BY <2>1 DEF Mail
  <2>4. Mail(i) \subseteq Mail(i)'
    BY <1>5, <2>2 DEF Mail
  <2> QED  BY <1>5, <2>3, <2>4 DEF Mail
<1>9. MemoryInOrder(i)' /\ StoredFirst(i)'
  <2>1. MemoryInOrder(i) /\ StoredFirst(i)
    BY <1>1 DEF InOrder
  <2>2. MemoryInOrder(i)'
    <3>1. /\ \A k \in Mail(i)' : mailbox'[i][k].event[1] = i /\ mailbox'[i][k].event[2] <= emitted[i]
          /\ \A j, k \in Mail(i)' : j < k => mailbox'[i][j].event[2] < mailbox'[i][k].event[2]
      BY <1>8, <2>1 DEF MemoryInOrder
    <3>2. \A j \in 1 .. Len(pending[i]), k \in Mail(i)' : pending[i][j][2] < mailbox'[i][k].event[2]
      BY <1>8, <2>1 DEF MemoryInOrder
    <3>3. \A j \in 1 .. Len(channel[i]), k \in Mail(i)' : channel[i][j].event[2] < mailbox'[i][k].event[2]
      BY <1>8, <2>1 DEF MemoryInOrder
    <3> QED  BY <1>3, <2>1, <3>1, <3>2, <3>3 DEF MemoryInOrder
  <2>3. StoredFirst(i)'
    BY <1>3, <1>6, <1>8, <2>1 DEF StoredFirst
  <2> QED  BY <2>2, <2>3
<1>10. ~forked' => SequencesRise(i)'
  <2> SUFFICES ASSUME ~forked'  PROVE SequencesRise(i)'
    OBVIOUS
  <2>1. SequencesRise(i) /\ \A r \in Own(i) : r.sequence <= m.sequence
    BY <1>1, <1>2 DEF InOrder, Own
  <2>2. \A k \in 1 .. Len(mailbox'[i]) : \/ k \in 1 .. Len(mailbox[i]) /\ mailbox'[i][k] = mailbox[i][k]
                                         \/ mailbox'[i][k] = m
    BY <1>5
  <2>3. \A k \in 1 .. Len(mailbox'[i]) : mailbox'[i][k].type = "loaded" => \A r \in Own(i) : r.sequence <= mailbox'[i][k].sequence
    BY <2>1, <2>2 DEF SequencesRise
  <2> QED  BY <1>3, <1>6, <2>1, <2>3 DEF SequencesRise
<1>11. StoredInOrder(i) => StoredInOrder(i)'
  BY <1>6 DEF StoredInOrder
<1>12. InOrder(i)'
  BY <1>1, <1>2, <1>9, <1>10, <1>11 DEF InOrder
<1> QED  BY <1>6, <1>12, OnlyOfOne

\* A crash empties what the replica held.
LEMMA CrashOrder ==
    ASSUME IInv, OrderInv, NEW i \in Instances, Crash(i)
    PROVE  OrderInv'
<1>1. TypeOK /\ InOrder(i)
  BY DEF IInv, OrderInv
<1>2. /\ mailbox'[i] = << >> /\ pending'[i] = << >> /\ channel'[i] = << >> /\ chain'[i] = None
      /\ UNCHANGED <<db, emitted, forked>>
      /\ \A j \in Instances \ {i} : /\ mailbox'[j] = mailbox[j] /\ pending'[j] = pending[j]
                                    /\ channel'[j] = channel[j] /\ chain'[j] = chain[j]
  BY <1>1 DEF Crash, TypeOK
<1>3. Own(i)' = Own(i) /\ OnlyOf(i)
  BY <1>2 DEF Own, OnlyOf, Same
<1>4. Len(<< >>) = 0 /\ 1 .. 0 = {}
  BY EmptySeq
<1>5. Mail(i)' = {}
  BY <1>2, <1>4 DEF Mail
<1>6. MemoryInOrder(i)' /\ SequencesRise(i)'
  BY <1>2, <1>4, <1>5 DEF MemoryInOrder, SequencesRise
<1>7. StoredFirst(i)'
  BY <1>1, <1>2, <1>3, <1>4, <1>5 DEF InOrder, StoredFirst
<1>8. StoredInOrder(i) => StoredInOrder(i)'
  BY <1>3 DEF StoredInOrder
<1>9. InOrder(i)'
  BY <1>1, <1>2, <1>6, <1>7, <1>8 DEF InOrder
<1> QED  BY <1>3, <1>9, OnlyOfOne

\* A message is taken out of the mailbox: the others move up.
LEMMA MailTaken ==
    ASSUME IInv, NEW i \in Instances, mailbox[i] # << >>, mailbox' = [mailbox EXCEPT ![i] = Tail(@)]
    PROVE  /\ \A k \in Mail(i)' : k + 1 \in Mail(i) /\ mailbox'[i][k] = mailbox[i][k + 1] /\ 1 < k + 1 /\ k \in Int
           /\ \A k \in 1 .. Len(mailbox'[i]) : k + 1 \in 1 .. Len(mailbox[i]) /\ mailbox'[i][k] = mailbox[i][k + 1]
           /\ Head(mailbox[i]).type = "event" => 1 \in Mail(i)
           /\ Head(mailbox[i]) = mailbox[i][1] /\ 1 \in 1 .. Len(mailbox[i]) /\ Head(mailbox[i]) \in Messages
           /\ \A j \in Instances \ {i} : mailbox'[j] = mailbox[j]
<1>1. /\ Head(mailbox[i]) \in Messages /\ Head(mailbox[i]) = mailbox[i][1]
      /\ \A j \in Instances \ {i} : mailbox'[j] = mailbox[j]
      /\ Len(mailbox[i]) \in Nat \ {0} /\ Len(mailbox'[i]) = Len(mailbox[i]) - 1
      /\ \A k \in 1 .. Len(mailbox[i]) - 1 : mailbox'[i][k] = mailbox[i][k + 1]
  BY MailboxTail
<1>2. \A k \in 1 .. Len(mailbox'[i]) :
        k + 1 \in 1 .. Len(mailbox[i]) /\ mailbox'[i][k] = mailbox[i][k + 1] /\ 1 < k + 1 /\ k \in Int
  BY <1>1
<1>3. 1 \in 1 .. Len(mailbox[i])
  BY <1>1
<1>4. \A k \in Mail(i)' : k \in 1 .. Len(mailbox'[i]) /\ mailbox'[i][k].type = "event"
  BY DEF Mail
<1>5. \A k \in 1 .. Len(mailbox[i]) : mailbox[i][k].type = "event" => k \in Mail(i)
  BY DEF Mail
<1>6. \A k \in Mail(i)' : k + 1 \in Mail(i)
  BY <1>2, <1>4, <1>5
<1> QED  BY <1>1, <1>2, <1>3, <1>4, <1>5, <1>6

\* What stays in order when a message is taken, whatever becomes of it.
LEMMA TakenOrder ==
    ASSUME IInv, OrderInv, NEW i \in Instances, mailbox[i] # << >>, mailbox' = [mailbox EXCEPT ![i] = Tail(@)]
    PROVE  /\ \A k \in Mail(i)' : mailbox'[i][k].event[1] = i /\ mailbox'[i][k].event[2] <= emitted[i]
           /\ \A j, k \in Mail(i)' : j < k => mailbox'[i][j].event[2] < mailbox'[i][k].event[2]
           /\ \A j \in 1 .. Len(pending[i]), k \in Mail(i)' : pending[i][j][2] < mailbox'[i][k].event[2]
           /\ \A j \in 1 .. Len(channel[i]), k \in Mail(i)' : channel[i][j].event[2] < mailbox'[i][k].event[2]
           /\ \A r \in Own(i), k \in Mail(i)' : r.event[2] < mailbox'[i][k].event[2]
           /\ SequencesRise(i) => \A k \in 1 .. Len(mailbox'[i]) : mailbox'[i][k].type = "loaded" =>
                  \A r \in Own(i) : r.sequence <= mailbox'[i][k].sequence
<1>1. MemoryInOrder(i) /\ StoredFirst(i)
  BY DEF OrderInv, InOrder
<1>2. /\ \A k \in Mail(i)' : k + 1 \in Mail(i) /\ mailbox'[i][k] = mailbox[i][k + 1] /\ 1 < k + 1 /\ k \in Int
      /\ \A k \in 1 .. Len(mailbox'[i]) : k + 1 \in 1 .. Len(mailbox[i]) /\ mailbox'[i][k] = mailbox[i][k + 1]
  BY MailTaken
<1>3. \A j, k \in Mail(i)' : j < k => j + 1 < k + 1
  BY <1>2
<1>4. /\ \A k \in Mail(i)' : mailbox'[i][k].event[1] = i /\ mailbox'[i][k].event[2] <= emitted[i]
      /\ \A j, k \in Mail(i)' : j < k => mailbox'[i][j].event[2] < mailbox'[i][k].event[2]
  BY <1>1, <1>2, <1>3 DEF MemoryInOrder
<1>5. /\ \A j \in 1 .. Len(pending[i]), k \in Mail(i)' : pending[i][j][2] < mailbox'[i][k].event[2]
      /\ \A j \in 1 .. Len(channel[i]), k \in Mail(i)' : channel[i][j].event[2] < mailbox'[i][k].event[2]
  BY <1>1, <1>2 DEF MemoryInOrder
<1>6. \A r \in Own(i), k \in Mail(i)' : r.event[2] < mailbox'[i][k].event[2]
  BY <1>1, <1>2 DEF StoredFirst
<1>7. SequencesRise(i) => \A k \in 1 .. Len(mailbox'[i]) : mailbox'[i][k].type = "loaded" =>
          \A r \in Own(i) : r.sequence <= mailbox'[i][k].sequence
  BY <1>2 DEF SequencesRise
<1> QED  BY <1>4, <1>5, <1>6, <1>7

\* An event that is taken is the replica's own, later than all it holds
\* closer to the table and earlier than all that is left in the mailbox.
LEMMA TakenBetween ==
    ASSUME IInv, OrderInv, NEW i \in Instances, mailbox[i] # << >>, Head(mailbox[i]).type = "event",
           mailbox' = [mailbox EXCEPT ![i] = Tail(@)], NEW e, e = Head(mailbox[i]).event
    PROVE  /\ e \in Events /\ e[2] \in Int /\ e[1] = i /\ e[2] <= emitted[i]
           /\ \A k \in Mail(i)' : e[2] < mailbox'[i][k].event[2]
           /\ \A k \in 1 .. Len(pending[i]) : pending[i][k][2] < e[2]
           /\ \A k \in 1 .. Len(channel[i]) : channel[i][k].event[2] < e[2]
           /\ \A r \in Own(i) : r.event[2] < e[2]
<1>1. MemoryInOrder(i) /\ StoredFirst(i) /\ TypeOK
  BY DEF OrderInv, InOrder, IInv
<1>2. /\ \A k \in Mail(i)' : k + 1 \in Mail(i) /\ mailbox'[i][k] = mailbox[i][k + 1] /\ 1 < k + 1
      /\ 1 \in Mail(i) /\ e = mailbox[i][1].event
  BY MailTaken
<1>3. e \in Events /\ e[2] \in Int
  BY <1>1, <1>2, Numbers
<1>4. e[1] = i /\ e[2] <= emitted[i] /\ \A k \in Mail(i)' : e[2] < mailbox'[i][k].event[2]
  BY <1>1, <1>2 DEF MemoryInOrder
<1>5. /\ \A k \in 1 .. Len(pending[i]) : pending[i][k][2] < e[2]
      /\ \A k \in 1 .. Len(channel[i]) : channel[i][k].event[2] < e[2]
  BY <1>1, <1>2 DEF MemoryInOrder
<1>6. \A r \in Own(i) : r.event[2] < e[2]
  BY <1>1, <1>2 DEF StoredFirst
<1> QED  BY <1>3, <1>4, <1>5, <1>6

\* The event is kept in the buffer.
LEMMA BufferOrder ==
    ASSUME IInv, OrderInv, NEW i \in Instances, mailbox[i] # << >>, Head(mailbox[i]).type = "event",
           mailbox' = [mailbox EXCEPT ![i] = Tail(@)], NEW e, e = Head(mailbox[i]).event,
           chain[i] = None, pending' = [pending EXCEPT ![i] = Append(@, e)],
           UNCHANGED <<chain, channel, db, emitted, forked>>
    PROVE  OrderInv'
<1>1. TypeOK /\ InOrder(i) /\ MemoryInOrder(i) /\ StoredFirst(i)
  BY DEF IInv, OrderInv, InOrder
<1>2. /\ e \in Events /\ e[2] \in Int /\ e[1] = i /\ e[2] <= emitted[i]
      /\ \A k \in Mail(i)' : e[2] < mailbox'[i][k].event[2]
      /\ \A k \in 1 .. Len(pending[i]) : pending[i][k][2] < e[2]
      /\ \A r \in Own(i) : r.event[2] < e[2]
  BY TakenBetween
<1>3. PICK n : n = Len(pending[i])
  OBVIOUS
<1>4. /\ n \in Nat /\ Len(pending'[i]) = n + 1 /\ pending'[i][n + 1] = e
      /\ \A k \in 1 .. n : pending'[i][k] = pending[i][k]
  <2>1. pending[i] \in Seq(Events) /\ pending'[i] = Append(pending[i], e)
    BY <1>1 DEF TypeOK
  <2> QED  BY <1>2, <1>3, <2>1, AppendProperties, LenProperties
<1>5. \A k \in 1 .. Len(pending'[i]) : \/ k \in 1 .. n /\ pending'[i][k] = pending[i][k]
                                       \/ k = n + 1 /\ pending'[i][k] = e
  BY <1>4
<1>6. Own(i)' = Own(i)
  BY DEF Own
<1>7. OnlyOf(i)
  BY <1>1, MailTaken DEF OnlyOf, Same, Own, TypeOK
<1>8. MemoryInOrder(i)'
  <2>1. \A k \in 1 .. Len(pending'[i]) : pending'[i][k][1] = i /\ pending'[i][k][2] <= emitted[i]
    BY <1>1, <1>2, <1>3, <1>5 DEF MemoryInOrder
  <2>2. ASSUME NEW j \in 1 .. Len(pending'[i]), NEW k \in 1 .. Len(pending'[i]), j < k  PROVE pending'[i][j][2] < pending'[i][k][2]
    <3>1. j \in 1 .. n /\ pending'[i][j] = pending[i][j]
      BY <1>4, <1>5, <2>2
    <3> QED  BY <1>1, <1>2, <1>3, <1>5, <2>2, <3>1 DEF MemoryInOrder
  <2>3. \A j \in 1 .. Len(pending'[i]), k \in Mail(i)' : pending'[i][j][2] < mailbox'[i][k].event[2]
    BY <1>2, <1>3, <1>5, TakenOrder
  <2>4. /\ \A k \in Mail(i)' : mailbox'[i][k].event[1] = i /\ mailbox'[i][k].event[2] <= emitted[i]
        /\ \A j, k \in Mail(i)' : j < k => mailbox'[i][j].event[2] < mailbox'[i][k].event[2]
        /\ \A j \in 1 .. Len(channel[i]), k \in Mail(i)' : channel[i][j].event[2] < mailbox'[i][k].event[2]
    BY TakenOrder
  <2> QED  BY <1>1, <2>1, <2>2, <2>3, <2>4 DEF MemoryInOrder
<1>9. StoredFirst(i)'
  <2>1. \A r \in Own(i) : \A k \in 1 .. Len(pending'[i]) : r.event[2] < pending'[i][k][2]
    BY <1>1, <1>2, <1>3, <1>5 DEF StoredFirst
  <2>2. \A r \in Own(i), k \in Mail(i)' : r.event[2] < mailbox'[i][k].event[2]
    BY TakenOrder
  <2> QED  BY <1>1, <1>6, <2>1, <2>2 DEF StoredFirst
<1>10. SequencesRise(i) => SequencesRise(i)'
  <2> SUFFICES ASSUME SequencesRise(i)  PROVE SequencesRise(i)'
    OBVIOUS
  <2>1. \A k \in 1 .. Len(mailbox'[i]) : mailbox'[i][k].type = "loaded" => \A r \in Own(i) : r.sequence <= mailbox'[i][k].sequence
    BY TakenOrder
  <2> QED  BY <1>6, <2>1 DEF SequencesRise
<1>11. StoredInOrder(i) => StoredInOrder(i)'
  BY <1>6 DEF StoredInOrder
<1>12. InOrder(i)'
  BY <1>1, <1>8, <1>9, <1>10, <1>11 DEF InOrder
<1> QED  BY <1>7, <1>12, OnlyOfOne

\* The buffer is full.
LEMMA OverflowOrder ==
    ASSUME IInv, OrderInv, NEW i \in Instances, mailbox[i] # << >>,
           mailbox' = [mailbox EXCEPT ![i] = Tail(@)], UNCHANGED <<pending, chain, channel, db, emitted, forked>>
    PROVE  OrderInv'
<1>1. TypeOK /\ InOrder(i) /\ MemoryInOrder(i) /\ StoredFirst(i)
  BY DEF IInv, OrderInv, InOrder
<1>2. Own(i)' = Own(i)
  BY DEF Own
<1>3. OnlyOf(i)
  BY MailTaken DEF OnlyOf, Same, Own
<1>4. MemoryInOrder(i)'
  <2>1. /\ \A k \in Mail(i)' : mailbox'[i][k].event[1] = i /\ mailbox'[i][k].event[2] <= emitted[i]
        /\ \A j, k \in Mail(i)' : j < k => mailbox'[i][j].event[2] < mailbox'[i][k].event[2]
        /\ \A j \in 1 .. Len(pending[i]), k \in Mail(i)' : pending[i][j][2] < mailbox'[i][k].event[2]
        /\ \A j \in 1 .. Len(channel[i]), k \in Mail(i)' : channel[i][j].event[2] < mailbox'[i][k].event[2]
    BY TakenOrder
  <2> QED  BY <1>1, <2>1 DEF MemoryInOrder
<1>5. StoredFirst(i)'
  <2>1. \A r \in Own(i), k \in Mail(i)' : r.event[2] < mailbox'[i][k].event[2]
    BY TakenOrder
  <2> QED  BY <1>1, <1>2, <2>1 DEF StoredFirst
<1>6. SequencesRise(i) => SequencesRise(i)'
  <2> SUFFICES ASSUME SequencesRise(i)  PROVE SequencesRise(i)'
    OBVIOUS
  <2>1. \A k \in 1 .. Len(mailbox'[i]) : mailbox'[i][k].type = "loaded" => \A r \in Own(i) : r.sequence <= mailbox'[i][k].sequence
    BY TakenOrder
  <2> QED  BY <1>2, <2>1 DEF SequencesRise
<1>7. StoredInOrder(i) => StoredInOrder(i)'
  BY <1>2 DEF StoredInOrder
<1>8. InOrder(i)'
  BY <1>1, <1>4, <1>5, <1>6, <1>7 DEF InOrder
<1> QED  BY <1>3, <1>8, OnlyOfOne

\* A run of events is sealed behind what is in the channel and ahead of what
\* is left in the mailbox.
LEMMA SealOrder ==
    ASSUME IInv, OrderInv, NEW i \in Instances, mailbox[i] # << >>,
           mailbox' = [mailbox EXCEPT ![i] = Tail(@)], UNCHANGED <<db, emitted, forked>>,
           NEW c \in Chains, Len(c.previous_hash) = c.sequence, NEW es \in Seq(Events), seal_and_dispatch(i, c, es),
           pending'[i] = << >>, \A j \in Instances \ {i} : pending'[j] = pending[j],
           \A k \in 1 .. Len(es) : es[k][1] = i /\ es[k][2] <= emitted[i],
           \A j, k \in 1 .. Len(es) : j < k => es[j][2] < es[k][2],
           \A j \in 1 .. Len(es), k \in Mail(i)' : es[j][2] < mailbox'[i][k].event[2],
           \A j \in 1 .. Len(channel[i]), k \in 1 .. Len(es) : channel[i][j].event[2] < es[k][2],
           \A r \in Own(i), k \in 1 .. Len(es) : r.event[2] < es[k][2],
           SequencesRise(i) => /\ \A r \in Own(i) : r.sequence <= c.sequence
                               /\ \A k \in 1 .. Len(channel[i]) : channel[i][k].sequence <= c.sequence
    PROVE  OrderInv'
<1>1. TypeOK /\ InOrder(i) /\ MemoryInOrder(i) /\ StoredFirst(i)
  BY DEF IInv, OrderInv, InOrder
<1>2. PICK n : n = Len(channel[i])
  OBVIOUS
<1>3. /\ Len(channel'[i]) = n + Len(es)
      /\ \A k \in 1 .. n : channel'[i][k] = channel[i][k]
      /\ \A k \in 1 .. Len(es) : channel'[i][n + k].event = es[k] /\ channel'[i][n + k].sequence = c.sequence + k
      /\ chain'[i] # None /\ chain'[i].sequence = c.sequence + Len(es)
      /\ \A j \in Instances \ {i} : chain'[j] = chain[j] /\ channel'[j] = channel[j]
  BY <1>1, <1>2, Dispatched
<1>4. n \in Nat /\ Len(es) \in Nat /\ c.sequence \in Nat
  BY <1>1, <1>2, Numbers, LenProperties DEF Chains
<1>5. \A k \in 1 .. Len(channel'[i]) :
        \/ k \in 1 .. n /\ channel'[i][k] = channel[i][k]
        \/ \E l \in 1 .. Len(es) : k = n + l /\ channel'[i][k].event = es[l] /\ channel'[i][k].sequence = c.sequence + l
  <2> TAKE k \in 1 .. Len(channel'[i])
  <2>1. k \in 1 .. n \/ (k - n \in 1 .. Len(es) /\ k = n + (k - n))
    BY <1>3, <1>4
  <2> QED  BY <1>3, <2>1
<1>6. Own(i)' = Own(i)
  BY DEF Own
<1>7. OnlyOf(i)
  BY <1>3, MailTaken DEF OnlyOf, Same, Own
<1>8. Len(<< >>) = 0 /\ 1 .. 0 = {} /\ Len(pending'[i]) = 0
  BY EmptySeq
<1>9. /\ \A k \in 1 .. n : channel[i][k].event[2] \in Int /\ channel[i][k].sequence \in Int
      /\ \A k \in 1 .. Len(es) : es[k][2] \in Int
      /\ \A r \in Own(i) : r.sequence \in Int
  <2>1. \A e \in Events : e[2] \in Int
    BY ConstantsAssumption DEF Events
  <2>2. \A k \in 1 .. Len(es) : es[k] \in Events
    OBVIOUS
  <2> QED  BY <1>1, <1>2, <2>1, <2>2, Numbers DEF Own
<1>10. MemoryInOrder(i)'
  <2>1. \A k \in 1 .. Len(channel'[i]) : channel'[i][k].event[1] = i /\ channel'[i][k].event[2] <= emitted[i]
    <3>1. \A k \in 1 .. n : channel[i][k].event[1] = i /\ channel[i][k].event[2] <= emitted[i]
      BY <1>1, <1>2 DEF MemoryInOrder
    <3> TAKE k \in 1 .. Len(channel'[i])
    <3>2. CASE k \in 1 .. n /\ channel'[i][k] = channel[i][k]
      BY <3>1, <3>2
    <3>3. CASE \E l \in 1 .. Len(es) : k = n + l /\ channel'[i][k].event = es[l]
      <4>1. PICK l \in 1 .. Len(es) : channel'[i][k].event = es[l]
        BY <3>3
      <4> QED  BY <4>1
    <3> QED  BY <1>5, <3>2, <3>3
  <2>2. ASSUME NEW j \in 1 .. Len(channel'[i]), NEW k \in 1 .. Len(channel'[i]), j < k
        PROVE  channel'[i][j].event[2] < channel'[i][k].event[2]
    <3>1. CASE k \in 1 .. n /\ channel'[i][k] = channel[i][k]
      <4>1. j \in 1 .. n /\ channel'[i][j] = channel[i][j]
        BY <1>3, <1>4, <2>2, <3>1
      <4> QED  BY <1>1, <1>2, <2>2, <3>1, <4>1 DEF MemoryInOrder
    <3>2. CASE \E l \in 1 .. Len(es) : k = n + l /\ channel'[i][k].event = es[l]
      <4>1. PICK l \in 1 .. Len(es) : k = n + l /\ channel'[i][k].event = es[l]
        BY <3>2
      <4>2. CASE j \in 1 .. n /\ channel'[i][j] = channel[i][j]
        BY <1>2, <4>1, <4>2
      <4>3. CASE \E h \in 1 .. Len(es) : j = n + h /\ channel'[i][j].event = es[h]
        <5>1. PICK h \in 1 .. Len(es) : j = n + h /\ channel'[i][j].event = es[h]
          BY <4>3
        <5>2. h < l
          BY <1>4, <2>2, <4>1, <5>1
        <5> QED  BY <4>1, <5>1, <5>2
      <4> QED  BY <1>5, <4>2, <4>3
    <3> QED  BY <1>5, <3>1, <3>2
  <2>3. \A j \in 1 .. Len(channel'[i]), k \in Mail(i)' : channel'[i][j].event[2] < mailbox'[i][k].event[2]
    <3>1. \A j \in 1 .. n, k \in Mail(i)' : channel[i][j].event[2] < mailbox'[i][k].event[2]
      BY <1>2, TakenOrder
    <3> QED  BY <1>5, <3>1
  <2>4. /\ \A k \in Mail(i)' : mailbox'[i][k].event[1] = i /\ mailbox'[i][k].event[2] <= emitted[i]
        /\ \A j, k \in Mail(i)' : j < k => mailbox'[i][j].event[2] < mailbox'[i][k].event[2]
    BY TakenOrder
  <2> QED  BY <1>8, <2>1, <2>2, <2>3, <2>4 DEF MemoryInOrder
<1>11. StoredFirst(i)'
  <2>1. \A r \in Own(i) : \A k \in 1 .. Len(channel'[i]) : r.event[2] < channel'[i][k].event[2]
    BY <1>1, <1>2, <1>5 DEF StoredFirst
  <2>2. \A r \in Own(i), k \in Mail(i)' : r.event[2] < mailbox'[i][k].event[2]
    BY TakenOrder
  <2>3. \A r \in Own(i) : r.event[2] <= emitted[i]
    BY <1>1 DEF StoredFirst
  <2> QED  BY <1>6, <1>8, <2>1, <2>2, <2>3 DEF StoredFirst
<1>12. ASSUME SequencesRise(i)  PROVE SequencesRise(i)'
  <2>1. \A k \in 1 .. Len(mailbox'[i]) : mailbox'[i][k].type = "loaded" => \A r \in Own(i) : r.sequence <= mailbox'[i][k].sequence
    BY <1>12, TakenOrder
  <2>2. /\ \A r \in Own(i) : r.sequence <= c.sequence
        /\ \A k \in 1 .. n : channel[i][k].sequence <= c.sequence
    BY <1>2, <1>12
  <2>3. \A r \in Own(i) : r.sequence <= chain'[i].sequence
    BY <1>3, <1>4, <1>9, <2>2
  <2>4. \A k \in 1 .. Len(channel'[i]) : channel'[i][k].sequence <= chain'[i].sequence
    <3>1. \A k \in 1 .. n : channel[i][k].sequence <= c.sequence + Len(es)
      BY <1>4, <1>9, <2>2
    <3>2. \A l \in 1 .. Len(es) : c.sequence + l <= c.sequence + Len(es)
      BY <1>4
    <3> QED  BY <1>3, <1>5, <3>1, <3>2
  <2>5. ASSUME NEW j \in 1 .. Len(channel'[i]), NEW k \in 1 .. Len(channel'[i]), j < k
        PROVE  channel'[i][j].sequence < channel'[i][k].sequence
    <3>1. CASE k \in 1 .. n /\ channel'[i][k] = channel[i][k]
      <4>1. j \in 1 .. n /\ channel'[i][j] = channel[i][j]
        BY <1>3, <1>4, <2>5, <3>1
      <4> QED  BY <1>2, <1>12, <2>5, <3>1, <4>1 DEF SequencesRise
    <3>2. CASE \E l \in 1 .. Len(es) : k = n + l /\ channel'[i][k].sequence = c.sequence + l
      <4>1. PICK l \in 1 .. Len(es) : k = n + l /\ channel'[i][k].sequence = c.sequence + l
        BY <3>2
      <4>2. CASE j \in 1 .. n /\ channel'[i][j] = channel[i][j]
        BY <1>4, <1>9, <2>2, <4>1, <4>2
      <4>3. CASE \E h \in 1 .. Len(es) : j = n + h /\ channel'[i][j].sequence = c.sequence + h
        BY <1>4, <2>5, <4>1, <4>3
      <4> QED  BY <1>5, <4>2, <4>3
    <3> QED  BY <1>5, <3>1, <3>2
  <2>6. \A r \in Own(i), k \in 1 .. Len(channel'[i]) : r.sequence < channel'[i][k].sequence
    <3> TAKE r \in Own(i), k \in 1 .. Len(channel'[i])
    <3>1. CASE k \in 1 .. n /\ channel'[i][k] = channel[i][k]
      BY <1>2, <1>12, <3>1 DEF SequencesRise
    <3>2. CASE \E l \in 1 .. Len(es) : k = n + l /\ channel'[i][k].sequence = c.sequence + l
      BY <1>4, <1>9, <2>2, <3>2
    <3> QED  BY <1>5, <3>1, <3>2
  <2> QED  BY <1>6, <2>1, <2>3, <2>4, <2>5, <2>6 DEF SequencesRise
<1>13. StoredInOrder(i) => StoredInOrder(i)'
  BY <1>6 DEF StoredInOrder
<1>14. InOrder(i)'
  BY <1>1, <1>10, <1>11, <1>12, <1>13 DEF InOrder
<1> QED  BY <1>7, <1>14, OnlyOfOne

\* The AuditEvent handler.
LEMMA EventOrder ==
    ASSUME IInv, OrderInv, NEW i \in Instances, HandleEvent(i)
    PROVE  OrderInv'
<1>1. PICK e : e = Head(mailbox[i]).event
  OBVIOUS
<1>2. /\ mailbox[i] # << >> /\ Head(mailbox[i]).type = "event" /\ mailbox' = [mailbox EXCEPT ![i] = Tail(@)]
      /\ UNCHANGED <<db, emitted, forked>>
  BY DEF HandleEvent
<1>3. /\ e \in Events /\ e[2] \in Int /\ e[1] = i /\ e[2] <= emitted[i]
      /\ \A k \in Mail(i)' : e[2] < mailbox'[i][k].event[2]
      /\ \A k \in 1 .. Len(channel[i]) : channel[i][k].event[2] < e[2]
      /\ \A r \in Own(i) : r.event[2] < e[2]
  BY <1>1, <1>2, TakenBetween
<1>4. CASE chain[i] = None /\ buffer_pending_event(i, e) /\ UNCHANGED <<chain, channel>>
  BY <1>1, <1>2, <1>4, BufferOrder DEF buffer_pending_event
<1>5. CASE chain[i] = None /\ overflow_pending_event(i, e) /\ UNCHANGED <<chain, channel>>
  BY <1>2, <1>5, OverflowOrder DEF overflow_pending_event
<1>6. CASE chain[i] # None /\ seal_and_dispatch(i, chain[i], <<e>>) /\ UNCHANGED pending
  <2>1. TypeOK /\ ChainShape /\ MemoryInOrder(i)
    BY DEF IInv, OrderInv, InOrder
  <2>2. PICK c, es : c = chain[i] /\ es = <<e>>
    OBVIOUS
  <2>3. c \in Chains /\ Len(c.previous_hash) = c.sequence
    BY <1>6, <2>1, <2>2 DEF TypeOK, ChainShape
  <2>4. es \in Seq(Events) /\ Len(es) = 1 /\ \A k \in 1 .. Len(es) : k = 1 /\ es[k] = e
    BY <1>3, <2>2
  <2>5. pending'[i] = << >> /\ \A j \in Instances \ {i} : pending'[j] = pending[j]
    BY <1>6, <2>1 DEF MemoryInOrder
  <2>6. SequencesRise(i) => /\ \A r \in Own(i) : r.sequence <= c.sequence
                            /\ \A k \in 1 .. Len(channel[i]) : channel[i][k].sequence <= c.sequence
    BY <1>6, <2>2 DEF SequencesRise
  <2>7. /\ \A k \in 1 .. Len(es) : es[k][1] = i /\ es[k][2] <= emitted[i]
        /\ \A j, k \in 1 .. Len(es) : j < k => es[j][2] < es[k][2]
    BY <1>3, <2>4
  <2>8. /\ \A j \in 1 .. Len(es), k \in Mail(i)' : es[j][2] < mailbox'[i][k].event[2]
        /\ \A j \in 1 .. Len(channel[i]), k \in 1 .. Len(es) : channel[i][j].event[2] < es[k][2]
        /\ \A r \in Own(i), k \in 1 .. Len(es) : r.event[2] < es[k][2]
    BY <1>3, <2>4
  <2>9. seal_and_dispatch(i, c, es)
    BY <1>6, <2>2
  <2> QED  BY <1>2, <2>3, <2>4, <2>5, <2>6, <2>7, <2>8, <2>9, SealOrder
<1> QED  BY <1>1, <1>4, <1>5, <1>6 DEF HandleEvent

\* The ChainLoaded handler: nothing of this life has been sealed yet.
LEMMA ChainLoadedOrder ==
    ASSUME IInv, OrderInv, NEW i \in Instances, HandleChainLoaded(i)
    PROVE  OrderInv'
<1>1. PICK m, c : m = Head(mailbox[i]) /\ c = [previous_hash |-> m.previous_hash, sequence |-> m.sequence]
  OBVIOUS
<1>2. /\ mailbox[i] # << >> /\ m.type = "loaded" /\ mailbox' = [mailbox EXCEPT ![i] = Tail(@)]
      /\ seal_and_dispatch(i, c, pending[i]) /\ pending' = [pending EXCEPT ![i] = << >>]
      /\ UNCHANGED <<db, emitted, forked>>
  BY <1>1 DEF HandleChainLoaded, historyVars
<1>3. TypeOK /\ LoadedOnce /\ LoadedShape /\ MemoryInOrder(i) /\ StoredFirst(i)
  BY DEF IInv, OrderInv, InOrder
<1>4. m = mailbox[i][1] /\ 1 \in 1 .. Len(mailbox[i]) /\ m \in Messages
  BY <1>1, <1>2, MailTaken
<1>5. Len(m.previous_hash) = m.sequence /\ m.previous_hash \in Hashes /\ m.sequence \in Nat
  <2>1. mailbox[i][1].type = "loaded"
    BY <1>2, <1>4
  <2>2. Len(mailbox[i][1].previous_hash) = mailbox[i][1].sequence
    BY <1>3, <1>4, <2>1 DEF LoadedShape
  <2> QED  BY <1>2, <1>4, <2>2 DEF Messages
<1>6. c \in Chains /\ Len(c.previous_hash) = c.sequence /\ c.sequence = m.sequence
  BY <1>1, <1>5 DEF Chains
<1>7. channel[i] = << >>
  <2>1. "loaded" # "event" /\ mailbox[i][1].type = "loaded"
    BY <1>2, <1>4
  <2> QED  BY <1>3, <1>4, <2>1 DEF LoadedOnce
<1>8. Len(channel[i]) = 0 /\ 1 .. 0 = {}
  BY <1>7, EmptySeq
<1>9. PICK es : es = pending[i]
  OBVIOUS
<1>10. es \in Seq(Events) /\ pending'[i] = << >> /\ \A j \in Instances \ {i} : pending'[j] = pending[j]
  BY <1>2, <1>3, <1>9 DEF TypeOK
<1>11. /\ \A k \in 1 .. Len(es) : es[k][1] = i /\ es[k][2] <= emitted[i]
       /\ \A j, k \in 1 .. Len(es) : j < k => es[j][2] < es[k][2]
  BY <1>3, <1>9 DEF MemoryInOrder
<1>12. \A j \in 1 .. Len(es), k \in Mail(i)' : es[j][2] < mailbox'[i][k].event[2]
  BY <1>2, <1>9, TakenOrder
<1>13. \A r \in Own(i), k \in 1 .. Len(es) : r.event[2] < es[k][2]
  BY <1>3, <1>9 DEF StoredFirst
<1>14. \A j \in 1 .. Len(channel[i]), k \in 1 .. Len(es) : channel[i][j].event[2] < es[k][2]
  BY <1>8
<1>15. SequencesRise(i) => /\ \A r \in Own(i) : r.sequence <= c.sequence
                           /\ \A k \in 1 .. Len(channel[i]) : channel[i][k].sequence <= c.sequence
  BY <1>2, <1>4, <1>6, <1>8 DEF SequencesRise
<1>16. seal_and_dispatch(i, c, es)
  BY <1>2, <1>9
<1> QED  BY <1>2, <1>6, <1>10, <1>11, <1>12, <1>13, <1>14, <1>15, <1>16, SealOrder

\* A row that is stored is the replica's latest, by number and by sequence.
LEMMA WriterOrder ==
    ASSUME IInv, OrderInv, NEW i \in Instances, WriterAppend(i)
    PROVE  OrderInv'
<1>1. PICK x : x = Head(channel[i])
  OBVIOUS
<1>2. /\ channel[i] # << >> /\ channel' = [channel EXCEPT ![i] = Tail(@)]
      /\ UNCHANGED <<mailbox, pending, chain, emitted, forked>>
      /\ db' = db \/ db' = db \cup {AsStored(x)}
  BY <1>1 DEF WriterAppend
<1>3. TypeOK /\ InOrder(i) /\ MemoryInOrder(i) /\ StoredFirst(i) /\ LoadedOnce
  BY DEF IInv, OrderInv, InOrder
<1>4. channel[i] \in Seq(Rows) /\ channel'[i] = Tail(channel[i]) /\ \A j \in Instances \ {i} : channel'[j] = channel[j]
  BY <1>2, <1>3 DEF TypeOK
<1>5. /\ x = channel[i][1] /\ 1 \in 1 .. Len(channel[i]) /\ Len(channel[i]) \in Nat
      /\ \A k \in 1 .. Len(channel'[i]) : k + 1 \in 1 .. Len(channel[i]) /\ channel'[i][k] = channel[i][k + 1]
  <2>1. channel[i] \in Seq(Rows) /\ channel[i] # << >>
    BY <1>2, <1>4
  <2>2. /\ Head(channel[i]) = channel[i][1] /\ Len(channel[i]) \in Nat \ {0} /\ 1 \in 1 .. Len(channel[i])
        /\ \A k \in 1 .. Len(Tail(channel[i])) : k + 1 \in 1 .. Len(channel[i]) /\ Tail(channel[i])[k] = channel[i][k + 1]
    BY ONLY <2>1, TailPlaces
  <2> QED  BY <1>1, <1>4, <2>2
<1>6. \A k \in 1 .. Len(channel'[i]) : 1 < k + 1 /\ k \in Int
  <2>1. Len(channel'[i]) \in Nat
    BY <1>2, <1>4, TailPlaces
  <2> QED  BY <2>1
<1>7. PICK st : st = AsStored(x)
  OBVIOUS
<1>8. st.event = x.event /\ st.sequence = x.sequence /\ x \in Rows
  <2>1. x \in Rows
    BY <1>4, <1>5
  <2> QED  BY <1>7, <2>1 DEF AsStored, Rows
<1>9. x.event[1] = i /\ x.event[2] \in Int /\ x.sequence \in Int /\ x.event[2] <= emitted[i]
  BY <1>3, <1>5, Numbers DEF MemoryInOrder
<1>10. /\ \A j \in Instances \ {i} : Own(j)' = Own(j)
       /\ \A r \in Own(i)' : r \in Own(i) \/ r = st
  BY <1>2, <1>7, <1>8, <1>9 DEF Own
<1>11. OnlyOf(i)
  BY <1>2, <1>4, <1>10 DEF OnlyOf, Same
<1>12. Mail(i)' = Mail(i)
  BY <1>2 DEF Mail
<1>13. MemoryInOrder(i)'
  <2>1. \A k \in 1 .. Len(channel'[i]) : channel'[i][k].event[1] = i /\ channel'[i][k].event[2] <= emitted[i]
    BY <1>3, <1>5 DEF MemoryInOrder
  <2>2. \A j, k \in 1 .. Len(channel'[i]) : j < k => j + 1 < k + 1
    BY <1>6
  <2>3. \A j, k \in 1 .. Len(channel'[i]) : j < k => channel'[i][j].event[2] < channel'[i][k].event[2]
    BY <1>3, <1>5, <2>2 DEF MemoryInOrder
  <2>4. \A j \in 1 .. Len(channel'[i]), k \in Mail(i) : channel'[i][j].event[2] < mailbox[i][k].event[2]
    BY <1>3, <1>5 DEF MemoryInOrder
  <2> QED  BY <1>2, <1>3, <1>12, <2>1, <2>3, <2>4 DEF MemoryInOrder
<1>14. /\ \A k \in Mail(i) : x.event[2] < mailbox[i][k].event[2]
       /\ \A k \in 1 .. Len(channel'[i]) : x.event[2] < channel'[i][k].event[2]
  BY <1>3, <1>5, <1>6 DEF MemoryInOrder
<1>15. chain[i] # None /\ pending[i] = << >>
  BY <1>2, <1>3 DEF LoadedOnce, MemoryInOrder
<1>16. Len(<< >>) = 0 /\ 1 .. 0 = {}
  BY EmptySeq
<1>17. StoredFirst(i)'
  <2>1. \A r \in Own(i)' : r.event[2] <= emitted[i] /\ \A k \in Mail(i) : r.event[2] < mailbox[i][k].event[2]
    BY <1>3, <1>8, <1>9, <1>10, <1>14 DEF StoredFirst
  <2>2. \A r \in Own(i)' : \A k \in 1 .. Len(channel'[i]) : r.event[2] < channel'[i][k].event[2]
    BY <1>3, <1>5, <1>8, <1>10, <1>14 DEF StoredFirst
  <2> QED  BY <1>2, <1>12, <1>15, <1>16, <2>1, <2>2 DEF StoredFirst
<1>18. ASSUME SequencesRise(i), StoredInOrder(i)  PROVE SequencesRise(i)' /\ StoredInOrder(i)'
  <2>1. \A k \in 1 .. Len(channel'[i]) : x.sequence < channel'[i][k].sequence
    BY <1>5, <1>6, <1>18 DEF SequencesRise
  <2>2. \A r \in Own(i) : r.sequence < x.sequence /\ r.event[2] < x.event[2]
    BY <1>3, <1>5, <1>18 DEF SequencesRise, StoredFirst
  <2>3. \A k \in 1 .. Len(mailbox[i]) : mailbox[i][k].type # "loaded"
    <3>1. \A k \in 1 .. Len(mailbox[i]) : mailbox[i][k].type = "event"
      BY <1>3, <1>15 DEF LoadedOnce
    <3> QED  BY <3>1
  <2>4. /\ \A r \in Own(i)' : r.sequence <= chain[i].sequence
        /\ \A k \in 1 .. Len(channel'[i]) : channel'[i][k].sequence <= chain[i].sequence
    BY <1>5, <1>8, <1>10, <1>15, <1>18 DEF SequencesRise
  <2>5. \A j, k \in 1 .. Len(channel'[i]) : j < k => j + 1 < k + 1
    BY <1>6
  <2>6. \A j, k \in 1 .. Len(channel'[i]) : j < k => channel'[i][j].sequence < channel'[i][k].sequence
    BY <1>5, <1>18, <2>5 DEF SequencesRise
  <2>7. \A r \in Own(i)', k \in 1 .. Len(channel'[i]) : r.sequence < channel'[i][k].sequence
    BY <1>5, <1>8, <1>10, <1>18, <2>1 DEF SequencesRise
  <2>8. SequencesRise(i)'
    BY <1>2, <2>3, <2>4, <2>6, <2>7 DEF SequencesRise
  <2>9. \A r \in Own(i) : r.event[2] \in Int
    BY <1>3, Numbers DEF Own
  <2>10. ASSUME NEW r \in Own(i)', NEW s \in Own(i)', r.event[2] < s.event[2]  PROVE r.sequence < s.sequence
    <3>1. CASE s = st
      <4>1. r \in Own(i)
        BY <1>8, <1>9, <1>10, <2>10, <3>1
      <4> QED  BY <1>8, <2>2, <3>1, <4>1
    <3>2. CASE s \in Own(i)
      <4>1. r # st
        BY <1>8, <1>9, <2>2, <2>9, <2>10, <3>2
      <4> QED  BY <1>10, <1>18, <2>10, <3>2, <4>1 DEF StoredInOrder
    <3> QED  BY <1>10, <3>1, <3>2
  <2> QED  BY <2>8, <2>10 DEF StoredInOrder
<1>19. InOrder(i)'
  BY <1>2, <1>3, <1>13, <1>17, <1>18 DEF InOrder
<1> QED  BY <1>11, <1>19, OnlyOfOne

LEMMA OrderInductive ==
    /\ Init => OrderInv
    /\ IInv /\ OrderInv /\ [Next]_vars => OrderInv'
<1>1. ASSUME Init  PROVE OrderInv
  <2>1. Len(<< >>) = 0 /\ 1 .. 0 = {}
    BY EmptySeq
  <2> SUFFICES ASSUME NEW i \in Instances  PROVE InOrder(i)
    BY DEF OrderInv
  <2>2. /\ mailbox[i] = << >> /\ pending[i] = << >> /\ channel[i] = << >> /\ chain[i] = None /\ db = {}
    BY <1>1 DEF Init
  <2>3. Mail(i) = {} /\ Own(i) = {}
    BY <2>1, <2>2 DEF Mail, Own
  <2> QED  BY <2>1, <2>2, <2>3 DEF InOrder, MemoryInOrder, StoredFirst, SequencesRise, StoredInOrder
<1>2. ASSUME IInv, OrderInv, [Next]_vars  PROVE OrderInv'
  <2>1. ASSUME NEW i \in Instances, wait_for_storage(i) \/ Restart(i)  PROVE OrderInv'
    BY <1>2, <2>1, QuietOrder DEF wait_for_storage, Restart, historyVars
  <2>2. CASE Connectivity \/ UNCHANGED vars
    BY <1>2, <2>2, QuietOrder DEF Connectivity, vars, agentVars, historyVars
  <2> QED  BY <1>2, <2>1, <2>2, LogOrder, LoadOrder, EventOrder, ChainLoadedOrder, WriterOrder, CrashOrder DEF Next
<1> QED  BY <1>1, <1>2

\* The writer task stores a replica's events in the order they were emitted,
\* through the buffer of the start-up, crashes and restarts, other replicas
\* and failing appends, unless a fresh chain was started over stored rows.
THEOREM StoredAsEmitted == Spec => []EmissionOrder
<1>1. IInv /\ OrderInv => EmissionOrder
  <2> SUFFICES ASSUME IInv, OrderInv, ~forked, NEW r \in db, NEW s \in db, r.event[1] = s.event[1], r.event[2] < s.event[2]
               PROVE  r.sequence < s.sequence
    BY DEF EmissionOrder
  <2>1. s.event[1] \in Instances
    BY DEF IInv, TypeOK, Rows, Events
  <2>2. PICK i \in Instances : i = s.event[1]
    BY <2>1
  <2>3. r \in Own(i) /\ s \in Own(i) /\ StoredInOrder(i)
    BY <2>2 DEF Own, OrderInv, InOrder
  <2> QED  BY <2>3 DEF StoredInOrder
<1> QED  BY <1>1, Invariance, OrderInductive, PTL DEF Spec

-----------------------------------------------------------------------------
(* No event vanishes.                                                      *)

\* Where an event of replica i may be.
Found(i) == InMemory(i) \cup {r.event : r \in db} \cup reported \cup lost

LEMMA FoundIn ==
    ASSUME NEW i
    PROVE  /\ \A k \in Mail(i) : mailbox[i][k].event \in Found(i)
           /\ \A k \in 1 .. Len(pending[i]) : pending[i][k] \in Found(i)
           /\ \A k \in 1 .. Len(channel[i]) : channel[i][k].event \in Found(i)
           /\ \A r \in db : r.event \in Found(i)
           /\ reported \subseteq Found(i) /\ lost \subseteq Found(i)
           /\ \A e \in Found(i) :
                  \/ \E k \in Mail(i) : e = mailbox[i][k].event
                  \/ \E k \in 1 .. Len(pending[i]) : e = pending[i][k]
                  \/ \E k \in 1 .. Len(channel[i]) : e = channel[i][k].event
                  \/ \E r \in db : e = r.event
                  \/ e \in reported \/ e \in lost
BY DEF Found, InMemory, Mail

\* What is found once stays found, if no step drops it.
LEMMA StaysFound ==
    ASSUME NEW i, db \subseteq db', reported \subseteq reported', lost \subseteq lost',
           \A k \in Mail(i) : mailbox[i][k].event \in Found(i)',
           \A k \in 1 .. Len(pending[i]) : pending[i][k] \in Found(i)',
           \A k \in 1 .. Len(channel[i]) : channel[i][k].event \in Found(i)'
    PROVE  Found(i) \subseteq Found(i)'
<1>1. /\ \A r \in db : r.event \in Found(i)'
      /\ reported \subseteq Found(i)' /\ lost \subseteq Found(i)'
  BY DEF Found
<1> QED  BY <1>1, FoundIn

\* The replicas that do not move.
LEMMA OthersFound ==
    ASSUME NEW j, db \subseteq db', reported \subseteq reported', lost \subseteq lost',
           mailbox'[j] = mailbox[j], pending'[j] = pending[j], channel'[j] = channel[j]
    PROVE  Found(j) \subseteq Found(j)'
<1>1. InMemory(j)' = InMemory(j)
  BY DEF InMemory
<1> QED  BY <1>1 DEF Found

\* A message is taken: the other events are still in the mailbox.
LEMMA MailLeft ==
    ASSUME IInv, NEW i \in Instances, mailbox[i] # << >>, mailbox' = [mailbox EXCEPT ![i] = Tail(@)]
    PROVE  \A k \in Mail(i) : k = 1 \/ mailbox[i][k].event \in Found(i)'
<1>1. mailbox[i] \in Seq(Messages) /\ mailbox'[i] = Tail(mailbox[i])
  BY DEF IInv, TypeOK
<1>2. \A k \in 1 .. Len(mailbox[i]) : k = 1 \/ (k - 1 \in 1 .. Len(mailbox'[i]) /\ mailbox'[i][k - 1] = mailbox[i][k])
  BY <1>1, TailPlaces
<1>3. \A k \in 1 .. Len(mailbox'[i]) : mailbox'[i][k].type = "event" => mailbox'[i][k].event \in Found(i)'
  BY DEF Found, InMemory
<1>4. \A k \in Mail(i) : k \in 1 .. Len(mailbox[i]) /\ mailbox[i][k].type = "event"
  BY DEF Mail
<1> QED  BY <1>2, <1>3, <1>4

\* No step but Log changes what has been emitted, and none loses an event.
LEMMA StepKeepsFound ==
    ASSUME IInv, NEW i \in Instances,
           wait_for_storage(i) \/ Restart(i) \/ load_chain(i) \/ Log(i) \/ HandleEvent(i) \/ HandleChainLoaded(i)
             \/ WriterAppend(i) \/ Crash(i)
    PROVE  \A j \in Instances : Found(j) \subseteq Found(j)'
<1>1. TypeOK
  BY DEF IInv
<1>2. /\ mailbox[i] \in Seq(Messages) /\ pending[i] \in Seq(Events) /\ channel[i] \in Seq(Rows)
      /\ Len(mailbox[i]) \in Nat /\ Len(pending[i]) \in Nat /\ Len(channel[i]) \in Nat
  BY <1>1, LenProperties DEF TypeOK
<1>3. db \subseteq db' /\ reported \subseteq reported' /\ lost \subseteq lost'
  BY DEF wait_for_storage, Restart, load_chain, Log, HandleEvent, HandleChainLoaded, WriterAppend, Crash, historyVars,
         buffer_pending_event, overflow_pending_event
<1>4. \A j \in Instances \ {i} : mailbox'[j] = mailbox[j] /\ pending'[j] = pending[j] /\ channel'[j] = channel[j]
  BY <1>1 DEF wait_for_storage, Restart, load_chain, Log, HandleEvent, HandleChainLoaded, WriterAppend, Crash, historyVars,
         buffer_pending_event, overflow_pending_event, seal_and_dispatch, TypeOK
<1>5. \A j \in Instances \ {i} : Found(j) \subseteq Found(j)'
  BY <1>3, <1>4, OthersFound
<1>6. /\ \A k \in 1 .. Len(mailbox'[i]) : mailbox'[i][k].type = "event" => mailbox'[i][k].event \in Found(i)'
      /\ \A k \in 1 .. Len(pending'[i]) : pending'[i][k] \in Found(i)'
      /\ \A k \in 1 .. Len(channel'[i]) : channel'[i][k].event \in Found(i)'
      /\ \A r \in db' : r.event \in Found(i)'
      /\ reported' \subseteq Found(i)' /\ lost' \subseteq Found(i)'
  BY DEF Found, InMemory
<1>7. CASE wait_for_storage(i) \/ Restart(i)
  BY <1>3, <1>7, OthersFound DEF wait_for_storage, Restart
<1>8. CASE load_chain(i) \/ Log(i)
  <2>1. UNCHANGED <<pending, channel>>
    BY <1>8 DEF load_chain, Log
  <2>2. PICK m : mailbox'[i] = Append(mailbox[i], m) /\ m \in Messages
    <3>1. LoadedShape' /\ TypeOK'
      BY <1>8, LogStep, LoadStep DEF IInv
    <3>2. \E m : mailbox'[i] = Append(mailbox[i], m)
      BY <1>1, <1>8 DEF load_chain, Log, TypeOK
    <3>3. PICK m : mailbox'[i] = Append(mailbox[i], m)
      BY <3>2
    <3>4. Len(mailbox'[i]) = Len(mailbox[i]) + 1 /\ mailbox'[i][Len(mailbox[i]) + 1] = m /\ mailbox'[i] \in Seq(Messages)
      BY <1>2, <3>1, <3>3 DEF TypeOK
    <3>5. m \in Messages
      BY <1>2, <3>4
    <3> QED  BY <3>3, <3>5
  <2>3. \A k \in 1 .. Len(mailbox[i]) : k \in 1 .. Len(mailbox'[i]) /\ mailbox'[i][k] = mailbox[i][k]
    BY <1>2, <2>2, AppendProperties
  <2>4. \A k \in Mail(i) : mailbox[i][k].event \in Found(i)'
    BY <1>6, <2>3 DEF Mail
  <2> QED  BY <1>3, <1>5, <1>6, <2>1, <2>4, StaysFound
<1>9. CASE HandleEvent(i)
  <2>1. PICK e : e = Head(mailbox[i]).event
    OBVIOUS
  <2>2. mailbox[i] # << >> /\ mailbox' = [mailbox EXCEPT ![i] = Tail(@)]
    BY <1>9 DEF HandleEvent
  <2>3. \A k \in Mail(i) : k = 1 \/ mailbox[i][k].event \in Found(i)'
    BY <2>2, MailLeft
  <2>4. Head(mailbox[i]) = mailbox[i][1]
    BY <2>2, MailTaken
  <2>5. Head(mailbox[i]) \in Messages /\ Head(mailbox[i]).type = "event"
    BY <1>9, <2>2, MailTaken DEF HandleEvent
  <2>6. e \in Events
    BY <2>1, <2>5 DEF Messages
  <2>7. /\ e \in Found(i)'
        /\ \A k \in 1 .. Len(pending[i]) : pending[i][k] \in Found(i)'
        /\ \A k \in 1 .. Len(channel[i]) : channel[i][k].event \in Found(i)'
    <3>1. CASE buffer_pending_event(i, e) /\ UNCHANGED channel
      <4>1. pending'[i] = Append(pending[i], e)
        BY <1>1, <3>1 DEF buffer_pending_event, TypeOK
      <4>2. /\ \A k \in 1 .. Len(pending[i]) : k \in 1 .. Len(pending'[i]) /\ pending'[i][k] = pending[i][k]
            /\ Len(pending[i]) + 1 \in 1 .. Len(pending'[i]) /\ pending'[i][Len(pending[i]) + 1] = e
        BY <1>2, <2>6, <4>1, AppendProperties
      <4>3. /\ e \in Found(i)'
            /\ \A k \in 1 .. Len(pending[i]) : pending[i][k] \in Found(i)'
        BY <1>6, <4>2
      <4> QED  BY <1>6, <3>1, <4>3
    <3>2. CASE overflow_pending_event(i, e) /\ UNCHANGED channel
      <4>1. e \in reported' /\ UNCHANGED <<pending, channel>>
        BY <3>2 DEF overflow_pending_event
      <4> QED  BY <1>6, <4>1
    <3>3. CASE chain[i] # None /\ seal_and_dispatch(i, chain[i], <<e>>) /\ UNCHANGED pending
      <4>1. PICK es : es = <<e>>
        OBVIOUS
      <4>2. es \in Seq(Events) /\ Len(es) = 1 /\ es[1] = e /\ 1 \in 1 .. Len(es)
        BY <2>6, <4>1
      <4>3. chain[i] \in Chains /\ Len(chain[i].previous_hash) = chain[i].sequence /\ seal_and_dispatch(i, chain[i], es)
        BY <3>3, <4>1 DEF IInv, ChainShape, TypeOK
      <4>4. /\ Len(channel'[i]) = Len(channel[i]) + Len(es)
            /\ \A k \in 1 .. Len(channel[i]) : channel'[i][k] = channel[i][k]
            /\ \A k \in 1 .. Len(es) : channel'[i][Len(channel[i]) + k].event = es[k]
        BY <1>1, <4>2, <4>3, Dispatched
      <4>5. /\ \A k \in 1 .. Len(channel[i]) : k \in 1 .. Len(channel'[i])
            /\ Len(channel[i]) + 1 \in 1 .. Len(channel'[i]) /\ channel'[i][Len(channel[i]) + 1].event = e
        BY <1>2, <4>2, <4>4
      <4>6. e \in Found(i)' /\ \A k \in 1 .. Len(channel[i]) : channel[i][k].event \in Found(i)'
        BY <1>6, <4>4, <4>5
      <4> QED  BY <1>6, <3>3, <4>6
    <3> QED  BY <1>9, <2>1, <3>1, <3>2, <3>3 DEF HandleEvent
  <2>8. \A k \in Mail(i) : mailbox[i][k].event \in Found(i)'
    BY <2>1, <2>3, <2>4, <2>7
  <2> QED  BY <1>3, <1>5, <2>7, <2>8, StaysFound
<1>10. CASE HandleChainLoaded(i)
  <2>1. PICK m, c : m = Head(mailbox[i]) /\ c = [previous_hash |-> m.previous_hash, sequence |-> m.sequence]
    OBVIOUS
  <2>2. /\ mailbox[i] # << >> /\ m.type = "loaded" /\ mailbox' = [mailbox EXCEPT ![i] = Tail(@)]
        /\ seal_and_dispatch(i, c, pending[i])
    BY <1>10, <2>1 DEF HandleChainLoaded
  <2>3. m = mailbox[i][1] /\ 1 \in 1 .. Len(mailbox[i]) /\ m \in Messages
    BY <2>1, <2>2, MailTaken
  <2>4. c \in Chains /\ Len(c.previous_hash) = c.sequence
    <3>1. LoadedShape /\ mailbox[i][1].type = "loaded"
      BY <2>2, <2>3 DEF IInv
    <3>2. Len(m.previous_hash) = m.sequence
      BY <2>3, <3>1 DEF LoadedShape
    <3>3. m.previous_hash \in Hashes /\ m.sequence \in Nat
      BY <2>2, <2>3 DEF Messages
    <3> QED  BY <2>1, <3>2, <3>3 DEF Chains
  <2>5. \A k \in Mail(i) : mailbox[i][k].event \in Found(i)'
    <3>1. 1 \notin Mail(i)
      BY <2>2, <2>3 DEF Mail
    <3> QED  BY <2>2, <3>1, MailLeft
  <2>6. /\ Len(channel'[i]) = Len(channel[i]) + Len(pending[i])
        /\ \A k \in 1 .. Len(channel[i]) : channel'[i][k] = channel[i][k]
        /\ \A k \in 1 .. Len(pending[i]) : channel'[i][Len(channel[i]) + k].event = pending[i][k]
    BY <1>1, <1>2, <2>2, <2>4, Dispatched
  <2>7. /\ \A k \in 1 .. Len(channel[i]) : k \in 1 .. Len(channel'[i])
        /\ \A k \in 1 .. Len(pending[i]) : Len(channel[i]) + k \in 1 .. Len(channel'[i])
    <3>1. PICK n, p : n = Len(channel[i]) /\ p = Len(pending[i])
      OBVIOUS
    <3>2. n \in Nat /\ p \in Nat /\ Len(channel'[i]) = n + p
      BY <1>2, <2>6, <3>1
    <3>3. (\A k \in 1 .. n : k \in 1 .. n + p) /\ (\A k \in 1 .. p : n + k \in 1 .. n + p)
      BY ONLY <3>2
    <3> QED  BY <3>1, <3>2, <3>3
  <2>8. /\ \A k \in 1 .. Len(channel[i]) : channel[i][k].event \in Found(i)'
        /\ \A k \in 1 .. Len(pending[i]) : pending[i][k] \in Found(i)'
    BY <1>6, <2>6, <2>7
  <2> QED  BY <1>3, <1>5, <2>5, <2>8, StaysFound
<1>11. CASE WriterAppend(i)
  <2>1. PICK x : x = Head(channel[i])
    OBVIOUS
  <2>2. channel[i] # << >> /\ channel'[i] = Tail(channel[i]) /\ UNCHANGED <<mailbox, pending>>
    BY <1>1, <1>11 DEF WriterAppend, TypeOK
  <2>3. /\ x = channel[i][1] /\ 1 \in 1 .. Len(channel[i])
        /\ \A k \in 1 .. Len(channel[i]) : k = 1 \/ (k - 1 \in 1 .. Len(channel'[i]) /\ channel'[i][k - 1] = channel[i][k])
    BY <1>2, <2>1, <2>2, TailPlaces
  <2>4. x.event \in Found(i)'
    <3>1. x \in Rows
      BY <1>2, <2>3
    <3>2. AsStored(x).event = x.event
      BY <3>1 DEF AsStored, Rows
    <3>3. AsStored(x) \in db' \/ x.event \in reported'
      BY <1>11, <2>1 DEF WriterAppend
    <3> QED  BY <1>6, <3>2, <3>3
  <2>5. \A k \in 1 .. Len(channel[i]) : channel[i][k].event \in Found(i)'
    BY <1>6, <2>3, <2>4
  <2>6. /\ \A k \in 1 .. Len(pending[i]) : pending[i][k] \in Found(i)'
        /\ \A k \in Mail(i) : mailbox[i][k].event \in Found(i)'
    BY <1>6, <2>2 DEF Mail
  <2> QED  BY <1>3, <1>5, <2>5, <2>6, StaysFound
<1>12. CASE Crash(i)
  <2>1. lost' = lost \cup InMemory(i)
    BY <1>12 DEF Crash
  <2>2. Found(i) \subseteq Found(i)'
    BY <1>3, <2>1 DEF Found
  <2> QED  BY <1>5, <2>2
<1> QED  BY <1>7, <1>8, <1>9, <1>10, <1>11, <1>12

\* No event vanishes: whatever replicas, database and crashes do, an event
\* that was logged is in memory, stored, known to the failure tracker, or was
\* in the memory of a process that ended.
THEOREM EventsAccounted == Spec => []Accounted
<1>1. Init => Accounted
  BY DEF Init, Accounted
<1>2. ASSUME IInv, Accounted, [Next]_vars  PROVE Accounted'
  <2>1. TypeOK /\ \A j \in Instances : \A n \in 1 .. emitted[j] : <<j, n>> \in Found(j)
    BY <1>2 DEF IInv, Accounted, Found
  <2>2. SUFFICES \A j \in Instances : \A n \in 1 .. emitted'[j] : <<j, n>> \in Found(j)'
    BY DEF Accounted, Found
  <2>3. CASE Connectivity \/ UNCHANGED vars
    <3>1. UNCHANGED <<emitted, db, reported, lost, mailbox, pending, channel>>
      BY <2>3 DEF Connectivity, vars, agentVars, historyVars
    <3>2. \A j \in Instances : Found(j) \subseteq Found(j)'
      BY <3>1, OthersFound
    <3> QED  BY <2>1, <3>1, <3>2
  <2>4. ASSUME NEW i \in Instances, Log(i)  PROVE \A j \in Instances : \A n \in 1 .. emitted'[j] : <<j, n>> \in Found(j)'
    <3>1. \A j \in Instances : Found(j) \subseteq Found(j)'
      BY <1>2, <2>4, StepKeepsFound
    <3>2. emitted' = [emitted EXCEPT ![i] = @ + 1] /\ emitted[i] \in Nat /\ emitted[i] < MaxEvents
      BY <2>1, <2>4, ConstantsAssumption DEF Log, TypeOK
    <3>3. PICK m : m = [type |-> "event", event |-> <<i, emitted[i] + 1>>]
      OBVIOUS
    <3>4. m \in Messages
      <4>1. emitted[i] + 1 \in 1 .. MaxEvents
        BY <3>2, ConstantsAssumption
      <4> QED  BY <3>3, <4>1 DEF Messages, Events
    <3>5. mailbox' = [mailbox EXCEPT ![i] = Append(@, m)]
      BY <2>4, <3>3 DEF Log
    <3>6. Len(mailbox[i]) \in Nat /\ Len(mailbox'[i]) = Len(mailbox[i]) + 1 /\ mailbox'[i][Len(mailbox[i]) + 1] = m
      BY <1>2, <3>4, <3>5, MailboxAppend
    <3>7. Len(mailbox[i]) + 1 \in 1 .. Len(mailbox'[i]) /\ m.type = "event" /\ m.event = <<i, emitted[i] + 1>>
      BY <3>3, <3>6
    <3>8. <<i, emitted[i] + 1>> \in InMemory(i)'
      BY <3>6, <3>7 DEF InMemory
    <3>9. <<i, emitted[i] + 1>> \in Found(i)'
      BY <3>8 DEF Found
    <3>10. \A j \in Instances : \A n \in 1 .. emitted'[j] : n \in 1 .. emitted[j] \/ (j = i /\ n = emitted[i] + 1)
      BY <2>1, <3>2 DEF TypeOK
    <3> QED  BY <2>1, <3>1, <3>9, <3>10
  <2>5. ASSUME NEW i \in Instances, wait_for_storage(i) \/ Restart(i) \/ load_chain(i) \/ HandleEvent(i)
                                      \/ HandleChainLoaded(i) \/ WriterAppend(i) \/ Crash(i)
        PROVE  \A j \in Instances : \A n \in 1 .. emitted'[j] : <<j, n>> \in Found(j)'
    <3>1. emitted' = emitted
      BY <2>5 DEF wait_for_storage, Restart, load_chain, HandleEvent, HandleChainLoaded, WriterAppend, Crash, historyVars
    <3>2. \A j \in Instances : Found(j) \subseteq Found(j)'
      BY <1>2, <2>5, StepKeepsFound
    <3> QED  BY <2>1, <3>1, <3>2
  <2> QED  BY <1>2, <2>3, <2>4, <2>5 DEF Next
<1> QED  BY <1>1, <1>2, Invariance, PTL DEF Spec

-----------------------------------------------------------------------------
(* Verification.                                                           *)

\* The column keeps what the clock reads.
KeepsClock == Backend = "turso" \/ FineEvents = {}

\* A row as seal made it.
AsSealed(r) == recompute_hash(r) = r.hash /\ r.timestamp = Timestamp(r.event)

RowsAsSealed ==
    /\ \A r \in db : AsSealed(r)
    /\ \A i \in Instances : \A k \in 1 .. Len(channel[i]) : AsSealed(channel[i][k])

\* One more event sealed adds one input.
LEMMA HashAfterNext ==
    ASSUME NEW c \in Chains, NEW es \in Seq(Events), NEW k \in 1 .. Len(es)
    PROVE  HashAfter(c, es, k) = Append(HashAfter(c, es, k - 1), <<c.sequence + k, es[k], Timestamp(es[k])>>)
<1>1. PICK h, n : h = c.previous_hash /\ n = Len(h)
  OBVIOUS
<1>2. h \in Seq(HashInput) /\ n \in Nat /\ k \in Nat /\ k - 1 \in Nat /\ Len(es) \in Nat
  BY <1>1, LenProperties DEF Chains, Hashes
<1>3. k \in 0 .. Len(es) /\ k - 1 \in 0 .. Len(es)
  BY <1>2
<1>4. PICK old, new, x :
        /\ old = HashAfter(c, es, k - 1) /\ new = HashAfter(c, es, k)
        /\ x = <<c.sequence + k, es[k], Timestamp(es[k])>>
  OBVIOUS
<1>5. /\ old \in Seq(HashInput) /\ Len(old) = n + (k - 1)
      /\ new \in Seq(HashInput) /\ Len(new) = n + k
  BY <1>1, <1>3, <1>4, HashAfterType DEF Hashes
<1>6. x \in HashInput
  <2>1. es[k] \in Events /\ Timestamp(es[k]) \in {0, 1} /\ c.sequence + k \in Nat \ {0}
    BY <1>2 DEF Timestamp, Chains
  <2> QED  BY <1>4, <2>1 DEF HashInput
<1>7. PICK t, u :
        /\ t = [j \in 1 .. k - 1 |-> <<c.sequence + j, es[j], Timestamp(es[j])>>]
        /\ u = [j \in 1 .. k |-> <<c.sequence + j, es[j], Timestamp(es[j])>>]
  OBVIOUS
<1>8. \A j \in 1 .. Len(es) : <<c.sequence + j, es[j], Timestamp(es[j])>> \in HashInput
  <2> TAKE j \in 1 .. Len(es)
  <2>1. es[j] \in Events /\ Timestamp(es[j]) \in {0, 1} /\ c.sequence + j \in Nat \ {0}
    BY <1>2 DEF Timestamp, Chains
  <2> QED  BY <2>1 DEF HashInput
<1>9. t \in Seq(HashInput) /\ Len(t) = k - 1 /\ u \in Seq(HashInput) /\ Len(u) = k
  <2>1. t \in [1 .. k - 1 -> HashInput] /\ u \in [1 .. k -> HashInput]
    BY <1>2, <1>7, <1>8
  <2> QED  BY <1>2, <2>1, SeqDef, LenProperties
<1>10. old = h \o t /\ new = h \o u
  BY <1>1, <1>4, <1>7 DEF HashAfter
<1>11. u[k] = x /\ \A j \in 1 .. k - 1 : u[j] = t[j]
  BY <1>2, <1>4, <1>7
<1>12. /\ \A j \in 1 .. n + (k - 1) : old[j] = IF j <= n THEN h[j] ELSE t[j - n]
       /\ \A j \in 1 .. n + k : new[j] = IF j <= n THEN h[j] ELSE u[j - n]
  <2>1. h \in Seq(HashInput) /\ t \in Seq(HashInput) /\ u \in Seq(HashInput)
    BY <1>2, <1>9
  <2>2. \A j \in 1 .. Len(h) + Len(t) : (h \o t)[j] = IF j <= Len(h) THEN h[j] ELSE t[j - Len(h)]
    BY ONLY <2>1, ConcatProperties
  <2>3. \A j \in 1 .. Len(h) + Len(u) : (h \o u)[j] = IF j <= Len(h) THEN h[j] ELSE u[j - Len(h)]
    BY ONLY <2>1, ConcatProperties
  <2> QED  BY <1>1, <1>9, <1>10, <2>2, <2>3
<1>13. /\ Append(old, x) \in Seq(HashInput) /\ Len(Append(old, x)) = n + k
       /\ \A j \in 1 .. n + (k - 1) : Append(old, x)[j] = old[j]
       /\ Append(old, x)[n + k] = x
  <2>1. /\ Append(old, x) \in Seq(HashInput) /\ Len(Append(old, x)) = Len(old) + 1
        /\ \A j \in 1 .. Len(old) : Append(old, x)[j] = old[j]
        /\ Append(old, x)[Len(old) + 1] = x
    BY <1>5, <1>6, AppendProperties
  <2>2. Len(old) + 1 = n + k
    BY <1>2, <1>5
  <2> QED  BY <1>5, <2>1, <2>2
<1>14. \A j \in 1 .. n + k : new[j] = Append(old, x)[j]
  <2> TAKE j \in 1 .. n + k
  <2>1. CASE j <= n
    <3>1. j \in 1 .. n + (k - 1)
      BY <1>2, <2>1
    <3> QED  BY <1>12, <1>13, <2>1, <3>1
  <2>2. CASE ~(j <= n) /\ j # n + k
    <3>1. j \in 1 .. n + (k - 1) /\ j - n \in 1 .. k - 1
      BY <1>2, <2>2
    <3> QED  BY <1>11, <1>12, <1>13, <2>2, <3>1
  <2>3. CASE ~(j <= n) /\ j = n + k
    <3>1. j - n = k
      BY <1>2, <2>3
    <3> QED  BY <1>11, <1>12, <1>13, <2>3, <3>1
  <2> QED  BY <2>1, <2>2, <2>3
<1>15. new = Append(old, x)
  <2>1. Len(new) = Len(Append(old, x)) /\ \A j \in 1 .. Len(new) : new[j] = Append(old, x)[j]
    BY <1>5, <1>13, <1>14
  <2> QED  BY <1>5, <1>13, <2>1, SeqEqual
<1> QED  BY <1>4, <1>15

\* What seal makes is as sealed.
LEMMA SealedAsSealed ==
    ASSUME NEW c \in Chains, NEW es \in Seq(Events), NEW k \in 1 .. Len(es)
    PROVE  AsSealed(Sealed(c, es)[k])
<1>1. Sealed(c, es)[k] = [event         |-> es[k],
                          timestamp     |-> Timestamp(es[k]),
                          sequence      |-> c.sequence + k,
                          previous_hash |-> HashAfter(c, es, k - 1),
                          hash          |-> HashAfter(c, es, k)]
  BY DEF Sealed
<1> QED  BY <1>1, HashAfterNext DEF AsSealed, recompute_hash

\* A row stays as sealed when the column keeps what the clock reads.
LEMMA StoredAsSealed ==
    ASSUME KeepsClock, NEW r \in Rows, AsSealed(r)
    PROVE  AsStored(r) = r
<1>1. CASE Backend = "turso"
  BY <1>1 DEF AsStored
<1>2. CASE FineEvents = {}
  <2>1. r.timestamp = 0
    BY <1>2 DEF AsSealed, Timestamp
  <2>2. [r EXCEPT !.timestamp = 0] = r
    BY <2>1 DEF Rows
  <2> QED  BY <2>2 DEF AsStored
<1> QED  BY <1>1, <1>2 DEF KeepsClock

\* seal_and_dispatch keeps the channels as sealed.
LEMMA DispatchAsSealed ==
    ASSUME TypeOK, RowsAsSealed, NEW i \in Instances, NEW c \in Chains, Len(c.previous_hash) = c.sequence,
           NEW es \in Seq(Events), seal_and_dispatch(i, c, es), db' = db
    PROVE  RowsAsSealed'
<1>1. PICK rows, n : rows = Sealed(c, es) /\ n = Len(channel[i])
  OBVIOUS
<1>2. rows \in Seq(Rows) /\ Len(rows) = Len(es)
  BY <1>1, SealedRun
<1>3. channel[i] \in Seq(Rows) /\ channel'[i] = channel[i] \o rows /\ \A j \in Instances \ {i} : channel'[j] = channel[j]
  BY <1>1 DEF TypeOK, seal_and_dispatch
<1>4. /\ Len(channel'[i]) = n + Len(rows) /\ n \in Nat /\ Len(rows) \in Nat
      /\ \A k \in 1 .. n + Len(rows) : channel'[i][k] = IF k <= n THEN channel[i][k] ELSE rows[k - n]
  <2>1. channel[i] \in Seq(Rows) /\ rows \in Seq(Rows) /\ n = Len(channel[i]) /\ channel'[i] = channel[i] \o rows
    BY <1>1, <1>2, <1>3
  <2> QED  BY ONLY <2>1, ConcatProperties, LenProperties
<1>5. \A k \in 1 .. Len(rows) : AsSealed(rows[k])
  BY <1>1, <1>2, SealedAsSealed
<1>6. \A k \in 1 .. n : AsSealed(channel[i][k])
  BY <1>1 DEF RowsAsSealed
<1>7. \A k \in 1 .. Len(channel'[i]) : AsSealed(channel'[i][k])
  <2> TAKE k \in 1 .. Len(channel'[i])
  <2>1. CASE k <= n
    <3>1. k \in 1 .. n /\ channel'[i][k] = channel[i][k]
      BY <1>4, <2>1
    <3> QED  BY <1>6, <3>1
  <2>2. CASE ~(k <= n)
    <3>1. k - n \in 1 .. Len(rows) /\ channel'[i][k] = rows[k - n]
      BY <1>4, <2>2
    <3> QED  BY <1>5, <3>1
  <2> QED  BY <2>1, <2>2
<1>8. \A j \in Instances : \A k \in 1 .. Len(channel'[j]) : AsSealed(channel'[j][k])
  BY <1>3, <1>7 DEF RowsAsSealed
<1>9. \A r \in db' : AsSealed(r)
  BY DEF RowsAsSealed
<1> QED  BY <1>8, <1>9 DEF RowsAsSealed, AsSealed, recompute_hash

LEMMA SealInductive ==
    ASSUME KeepsClock
    PROVE  /\ Init => RowsAsSealed
           /\ IInv /\ RowsAsSealed /\ [Next]_vars => RowsAsSealed'
<1>1. Len(<< >>) = 0 /\ 1 .. 0 = {}
  BY EmptySeq
<1>2. Init => RowsAsSealed
  BY <1>1 DEF Init, RowsAsSealed
<1>3. ASSUME IInv, RowsAsSealed, [Next]_vars  PROVE RowsAsSealed'
  <2>1. TypeOK /\ ChainShape /\ LoadedShape
    BY <1>3 DEF IInv
  <2>2. CASE UNCHANGED <<channel, db>>
    BY <1>3, <2>2 DEF RowsAsSealed, AsSealed, recompute_hash
  <2>3. ASSUME NEW i \in Instances, HandleEvent(i)  PROVE RowsAsSealed'
    <3>1. PICK e : e = Head(mailbox[i]).event
      OBVIOUS
    <3>2. mailbox[i] # << >> /\ Head(mailbox[i]).type = "event" /\ mailbox' = [mailbox EXCEPT ![i] = Tail(@)] /\ db' = db
      BY <2>3 DEF HandleEvent
    <3>3. e \in Events
      <4>1. Head(mailbox[i]) \in Messages
        BY <1>3, <3>2, MailTaken
      <4> QED  BY <3>1, <3>2, <4>1 DEF Messages
    <3>4. CASE chain[i] # None /\ seal_and_dispatch(i, chain[i], <<e>>)
      <4>1. <<e>> \in Seq(Events) /\ chain[i] \in Chains /\ Len(chain[i].previous_hash) = chain[i].sequence
        BY <2>1, <3>3, <3>4 DEF TypeOK, ChainShape
      <4> QED  BY <1>3, <2>1, <3>2, <3>4, <4>1, DispatchAsSealed
    <3> QED  BY <2>2, <2>3, <3>1, <3>2, <3>4 DEF HandleEvent
  <2>4. ASSUME NEW i \in Instances, HandleChainLoaded(i)  PROVE RowsAsSealed'
    <3>1. PICK m, c : m = Head(mailbox[i]) /\ c = [previous_hash |-> m.previous_hash, sequence |-> m.sequence]
      OBVIOUS
    <3>2. /\ mailbox[i] # << >> /\ m.type = "loaded" /\ mailbox' = [mailbox EXCEPT ![i] = Tail(@)]
          /\ seal_and_dispatch(i, c, pending[i]) /\ db' = db
      BY <2>4, <3>1 DEF HandleChainLoaded
    <3>3. m = mailbox[i][1] /\ 1 \in 1 .. Len(mailbox[i]) /\ m \in Messages
      BY <1>3, <3>1, <3>2, MailTaken
    <3>4. Len(m.previous_hash) = m.sequence
      <4>1. mailbox[i][1].type = "loaded"
        BY <3>2, <3>3
      <4> QED  BY <2>1, <3>3, <4>1 DEF LoadedShape
    <3>5. c \in Chains /\ Len(c.previous_hash) = c.sequence
      <4>1. m.previous_hash \in Hashes /\ m.sequence \in Nat
        BY <3>2, <3>3 DEF Messages
      <4> QED  BY <3>1, <3>4, <4>1 DEF Chains
    <3>6. pending[i] \in Seq(Events)
      BY <2>1 DEF TypeOK
    <3> QED  BY <1>3, <2>1, <3>2, <3>5, <3>6, DispatchAsSealed
  <2>5. ASSUME NEW i \in Instances, WriterAppend(i)  PROVE RowsAsSealed'
    <3>1. PICK x : x = Head(channel[i])
      OBVIOUS
    <3>2. /\ channel[i] # << >> /\ channel[i] \in Seq(Rows) /\ channel'[i] = Tail(channel[i])
          /\ \A j \in Instances \ {i} : channel'[j] = channel[j]
          /\ db' = db \/ db' = db \cup {AsStored(x)}
      BY <2>1, <2>5, <3>1 DEF WriterAppend, TypeOK
    <3>3. /\ x = channel[i][1] /\ 1 \in 1 .. Len(channel[i])
          /\ \A k \in 1 .. Len(channel'[i]) : k + 1 \in 1 .. Len(channel[i]) /\ channel'[i][k] = channel[i][k + 1]
      <4>1. channel[i] \in Seq(Rows) /\ channel[i] # << >> /\ channel'[i] = Tail(channel[i]) /\ x = Head(channel[i])
        BY <3>1, <3>2
      <4> QED  BY ONLY <4>1, TailPlaces
    <3>4. x \in Rows /\ AsSealed(x)
      BY <1>3, <3>2, <3>3 DEF RowsAsSealed
    <3>5. AsStored(x) = x
      BY <3>4, StoredAsSealed
    <3>6. \A j \in Instances : \A k \in 1 .. Len(channel'[j]) : AsSealed(channel'[j][k])
      BY <1>3, <3>2, <3>3 DEF RowsAsSealed
    <3>7. \A r \in db' : AsSealed(r)
      BY <1>3, <3>2, <3>4, <3>5 DEF RowsAsSealed
    <3> QED  BY <3>6, <3>7 DEF RowsAsSealed, AsSealed, recompute_hash
  <2>6. ASSUME NEW i \in Instances, Crash(i)  PROVE RowsAsSealed'
    <3>1. channel'[i] = << >> /\ db' = db /\ \A j \in Instances \ {i} : channel'[j] = channel[j]
      BY <2>1, <2>6 DEF Crash, TypeOK
    <3>2. \A j \in Instances : \A k \in 1 .. Len(channel'[j]) : AsSealed(channel'[j][k])
      BY <1>1, <1>3, <3>1 DEF RowsAsSealed
    <3> QED  BY <1>3, <3>1, <3>2 DEF RowsAsSealed, AsSealed, recompute_hash
  <2>7. ASSUME NEW i \in Instances, Log(i) \/ wait_for_storage(i) \/ load_chain(i) \/ Restart(i)  PROVE RowsAsSealed'
    BY <2>2, <2>7 DEF Log, wait_for_storage, load_chain, Restart
  <2>8. CASE Connectivity \/ UNCHANGED vars
    BY <2>2, <2>8 DEF Connectivity, vars, agentVars
  <2> QED  BY <1>3, <2>3, <2>4, <2>5, <2>6, <2>7, <2>8 DEF Next
<1> QED  BY <1>2, <1>3

\* Where the column keeps what the clock reads, verify_chain finds a table
\* only this code wrote to intact, unless a failure was reported.
THEOREM TableVerifies ==
    ASSUME KeepsClock
    PROVE  Spec => []UntamperedVerifies
<1>1. IInv /\ RowsAsSealed => UntamperedVerifies
  <2> SUFFICES ASSUME IInv, RowsAsSealed, Backend \in UniqueBackends, reported = {}, NEW r \in db
               PROVE  LinkHolds(r, 1) /\ recompute_hash(r) = r.hash
    BY DEF UntamperedVerifies, BrokenRows
  <2>1. LinkHolds(r, 1)
    BY IInvImpliesLinks DEF BreaksAreReported
  <2> QED  BY <2>1 DEF RowsAsSealed, AsSealed
<1> QED  BY <1>1, Invariance, SealInductive, PTL DEF Spec

=============================================================================
