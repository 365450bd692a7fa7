-------------------------- MODULE MwebPeersProofs ---------------------------
(***************************************************************************)
(* The tip loop over unreliable peers, for every pool of peers, every      *)
(* chain and every batch size, number of requests and of attempts.         *)
(***************************************************************************)
EXTENDS MwebPeers, NatFacts

(* A connection is open. *)
Serving == {"start", "pipeline", "deliver", "sequential"}

Pool == [addrs : Seq(Peer), next : Nat, banned : SUBSET Peer, last_connected : Peer \cup {None}]
(* A reply; one that is not empty and begins where it was asked to. *)
Batch == [start : Int, first : Int \cup {None}, last : Int]
FullBatch == {b \in Batch : b.first = b.start}

Work == [target : 0 .. MaxTip, at : Int, pending : Seq(Int), served : Seq(Batch), window : Int, stalled : Nat,
         size : Nat \ {0}, tries : Nat, throttles : Nat]
Sync == [synced : 0 .. MaxTip, cursor : Int \cup {None}, pending_tip : 0 .. MaxTip \cup {None}]

TypesHold ==
  /\ health \in [Peer -> {"good", "busy", "flaky", "bad", "dead", "partial"}]
  /\ pool \in Pool /\ (Len(pool.addrs) > 0 => pool.next < Len(pool.addrs))
  /\ call \in [attempt : Nat \ {0}, scanned : Nat]
  /\ pc \in Serving \cup {"connect", "idle", "waiting", "stopped", "failed", "aborted"}
  /\ pc \in Serving => pool.last_connected \in Peer
  /\ unread \in Seq(FullBatch) /\ work \in Work /\ sync \in Sync
  /\ loop \in [tip : 1 .. MaxTip, polled : Nat, before : Nat]

(* Replies are left over only on the connection of a flaky peer. *)
BansHold ==
  /\ BansAreDeserved
  /\ pc \in Serving /\ unread # << >> => peer = "flaky"

(* What is handed out of a round; a batch in part is only a partial peer's. *)
DeliveryHolds ==
  pc = "deliver" => /\ work.served # << >>
                    /\ peer # "partial" => work.served \in Seq(FullBatch)

(* The address that connect_next has looked at k addresses ago. *)
Before(p, k) ==
  p.addrs[(IF k <= p.next THEN p.next - k ELSE p.next + Len(p.addrs) - k) + 1]

(* In this call every attempt has looked at one address at least, and none of *)
(* those before the present one serves.                                       *)
FailoverHolds ==
  /\ pc = "connect" =>
       \A k \in 1 .. Len(pool.addrs) :
         k < call.attempt + call.scanned => health[Before(pool, k)] # "good"
  /\ pc \in Serving =>
       /\ Len(pool.addrs) > 0 /\ pool.last_connected = Before(pool, 1)
       /\ \A k \in 2 .. Len(pool.addrs) :
            k <= call.attempt + call.scanned => health[Before(pool, k)] # "good"

PeersInv == TypesHold /\ NoLeafSkipped /\ BansHold /\ DeliveryHolds /\ FailoverHolds

-----------------------------------------------------------------------------
(* Batches and replies. *)

LEMMA LastLeafType ==
  ASSUME TypesHold, NEW x \in Int, NEW size \in Int
  PROVE  LeavesAt[work.target] \in Nat /\ LastLeaf(x, size, work.target) \in Int
<1>1. LeavesAt[work.target] \in Nat BY PeersAssumption DEF TypesHold, Work
<1> QED BY <1>1 DEF LastLeaf

LEMMA InPartType ==
  ASSUME TypesHold, NEW x \in Int
  PROVE  InPart(x) \subseteq Batch /\ \A r \in InPart(x) : r.start = x
<1> DEFINE leaves == x .. LeavesAt[work.target]
<1>1. leaves \subseteq Int BY LastLeafType
<1>2. Empty(x) \in Batch /\ Empty(x).start = x BY DEF Empty, Batch
<1>3. \A r \in [start : {x}, first : leaves, last : leaves] : r \in Batch /\ r.start = x
  BY <1>1 DEF Batch
<1> HIDE DEF leaves
<1> QED BY <1>2, <1>3 DEF InPart, leaves

(* Only a partial peer answers in part. *)
LEMMA RepliesType ==
  ASSUME TypesHold, NEW round \in Seq(Int), NEW size \in Int, NEW sent \in Replies(round, size)
  PROVE  /\ sent \in Seq(Batch)
         /\ peer # "partial" => sent \in Seq(FullBatch)
<1>1. CASE peer = "partial"
  <2>1. /\ sent \in [DOMAIN round -> UNION {InPart(round[i]) : i \in DOMAIN round}]
        /\ \A i \in DOMAIN round : sent[i] \in InPart(round[i])
    BY <1>1 DEF Replies
  <2>2. \A i \in DOMAIN round : sent[i] \in Batch BY <2>1, InPartType
  <2>3. Len(round) \in Nat /\ DOMAIN round = 1 .. Len(round) OBVIOUS
  <2> DEFINE n == Len(round)
  <2> HIDE DEF n
  <2>4. DOMAIN sent = 1 .. n /\ sent = [i \in 1 .. n |-> sent[i]] /\ \A i \in 1 .. n : sent[i] \in Batch
    BY <2>1, <2>2, <2>3 DEF n
  <2>5. sent \in [1 .. n -> Batch] /\ n \in Nat BY <2>3, <2>4 DEF n
  <2>6. sent \in Seq(Batch) BY <2>5
  <2> QED BY <1>1, <2>6
<1>2. CASE peer # "partial"
  <2>1. PICK S \in SUBSET DOMAIN round :
          sent = [i \in DOMAIN Subsequence(round, S) |-> InFull(Subsequence(round, S)[i], size)]
    BY <1>2 DEF Replies
  <2> DEFINE starts == Subsequence(round, S)
  <2>2. starts \in Seq(Int)
    <3>1. Len(round) \in Nat /\ S \in SUBSET (1 .. Len(round)) /\ \A i \in S : round[i] \in Int OBVIOUS
    <3> QED BY <3>1, SubsequenceType
  <2>3. sent = [i \in DOMAIN starts |-> InFull(starts[i], size)] BY <2>1
  <2> HIDE DEF starts
  <2>4. \A x \in Int : InFull(x, size) \in FullBatch
    BY LastLeafType DEF InFull, FullBatch, Batch
  <2>5. \A i \in 1 .. Len(starts) : InFull(starts[i], size) \in FullBatch BY <2>2, <2>4
  <2>6. Len(starts) \in Nat /\ DOMAIN starts = 1 .. Len(starts) BY <2>2
  <2>7. sent \in [1 .. Len(starts) -> FullBatch] BY <2>3, <2>5, <2>6
  <2>8. \A b \in FullBatch : b \in Batch BY DEF FullBatch
  <2>9. sent \in [1 .. Len(starts) -> Batch] BY <2>7, <2>8
  <2> QED BY <2>6, <2>7, <2>9
<1> QED BY <1>1, <1>2

LEMMA IsASequence ==
  ASSUME NEW n \in Nat, NEW X, NEW s \in [1 .. n -> X]
  PROVE  s \in Seq(X)
OBVIOUS

LEMMA TailIsLeft ==
  ASSUME NEW X, NEW s \in Seq(X), Len(s) > 1
  PROVE  Tail(s) # << >>
<1>1. Len(Tail(s)) = Len(s) - 1 /\ Len(s) \in Nat OBVIOUS
<1>2. \A n \in Nat : n > 1 => n - 1 # 0 OBVIOUS
<1>3. Len(Tail(s)) # 0 BY <1>1, <1>2, Zenon
<1>4. Len(<< >>) = 0 OBVIOUS
<1> QED BY <1>3, <1>4, Zenon

LEMMA ServedType ==
  ASSUME NEW round \in Seq(Int), NEW B, NEW replies \in Seq(B)
  PROVE  Served(round, replies) \in Seq(B) /\ Unserved(round, replies) \in Seq(Int)
<1> DEFINE S == {i \in DOMAIN round : round[i] \in Starts(replies)}
           U == {i \in DOMAIN round : round[i] \notin Starts(replies)}
           starts == Subsequence(round, S)
<1>1. /\ Len(round) \in Nat
      /\ S \in SUBSET (1 .. Len(round)) /\ \A i \in S : round[i] \in Starts(replies)
      /\ U \in SUBSET (1 .. Len(round)) /\ \A i \in U : round[i] \in Int
  OBVIOUS
<1>2. Unserved(round, replies) = Subsequence(round, U) BY DEF Unserved
<1>3. Served(round, replies) =
        [k \in DOMAIN starts |-> CHOOSE r \in ToSet(replies) : r.start = starts[k]]
  BY DEF Served
<1> HIDE DEF S, U
<1>4. starts \in Seq(Starts(replies)) BY <1>1, SubsequenceType
<1>5. \A x \in Starts(replies) : (CHOOSE r \in ToSet(replies) : r.start = x) \in B
  <2>1. \A x \in Starts(replies) : \E r \in ToSet(replies) : r.start = x BY DEF Starts, ToSet
  <2>2. \A r \in ToSet(replies) : r \in B BY DEF ToSet
  <2> QED BY <2>1, <2>2
<1> HIDE DEF starts
<1>6. Served(round, replies) \in Seq(B)
  <2>1. \A k \in 1 .. Len(starts) : (CHOOSE r \in ToSet(replies) : r.start = starts[k]) \in B
    <3>1. \A k \in 1 .. Len(starts) : starts[k] \in Starts(replies) BY <1>4
    <3> QED BY <1>5, <3>1
  <2>2. Len(starts) \in Nat /\ DOMAIN starts = 1 .. Len(starts) BY <1>4
  <2>3. Served(round, replies) \in [1 .. Len(starts) -> B] BY <1>3, <2>1, <2>2
  <2> QED BY <2>2, <2>3, IsASequence
<1> QED BY <1>1, <1>2, <1>6, SubsequenceType

(* To one request there is one reply or none, and none only of a busy peer. *)
LEMMA OneReply ==
  ASSUME NEW x \in Int, NEW size, NEW sent \in Replies(<<x>>, size), TypesHold
  PROVE  (Len(sent) = 1 /\ DOMAIN sent = 1 .. 1 /\ sent[1].start = x) \/ (sent = << >> /\ peer = "busy")
<1> DEFINE r == <<x>>
<1>1. r \in Seq(Int) /\ DOMAIN r = 1 .. 1 /\ r[1] = x OBVIOUS
<1>2. CASE peer = "partial"
  <2>1. /\ sent \in [1 .. 1 -> UNION {InPart(r[i]) : i \in 1 .. 1}]
        /\ \A i \in 1 .. 1 : sent[i] \in InPart(r[i])
    BY <1>1, <1>2 DEF Replies
  <2>2. sent[1] \in InPart(x) /\ DOMAIN sent = 1 .. 1 BY <1>1, <2>1
  <2>3. sent[1].start = x BY <2>2, InPartType
  <2>4. sent = [i \in 1 .. 1 |-> sent[i]] BY <2>1
  <2>5. Len(sent) = 1 BY <2>4
  <2> QED BY <2>2, <2>3, <2>5
<1>3. CASE peer # "partial"
  <2>1. PICK S \in SUBSET (1 .. 1) :
          /\ sent = [i \in DOMAIN Subsequence(r, S) |-> InFull(Subsequence(r, S)[i], size)]
          /\ peer # "busy" => S = 1 .. 1
    BY <1>1, <1>3 DEF Replies
  <2> DEFINE starts == Subsequence(r, S)
  <2>2. \A i \in S : r[i] \in {x} BY <1>1, <2>1
  <2>3. starts \in Seq({x}) BY <2>2, SubsequenceType
  <2>4. DOMAIN starts = 1 .. Cardinality(S)
    BY <2>1 DEF Subsequence
  <2>5. sent = [i \in DOMAIN starts |-> InFull(starts[i], size)] BY <2>1
  <2> HIDE DEF starts, r
  <2>6. S = {} \/ S = {1}
    <3>1. \A i : i \in 1 .. 1 <=> i = 1 OBVIOUS
    <3>2. \A i \in S : i = 1 BY <2>1, <3>1
    <3> QED BY <3>2
  <2>7. CASE S = {}
    <3>1. Cardinality(S) = 0 BY <2>7, FS_EmptySet
    <3>2. starts = << >> BY <2>3, <2>4, <3>1
    <3>3. sent = << >> BY <2>5, <3>2
    <3>4. 1 \notin S /\ 1 \in 1 .. 1 BY <2>7
    <3> QED BY <2>1, <3>3, <3>4
  <2>8. CASE S = {1}
    <3>1. Cardinality(S) = 1 BY <2>8, FS_Singleton
    <3>2. DOMAIN starts = 1 .. 1 /\ starts[1] = x BY <2>3, <2>4, <3>1
    <3>3. sent = [i \in 1 .. 1 |-> InFull(starts[i], size)] BY <2>5, <3>2
    <3>4. Len(sent) = 1 /\ DOMAIN sent = 1 .. 1 /\ sent[1] = InFull(x, size) BY <3>2, <3>3
    <3> QED BY <3>4 DEF InFull
  <2> QED BY <2>6, <2>7, <2>8
<1> QED BY <1>2, <1>3

(* What a fresh connection answers to one request is no protocol error. *)
LEMMA FreshIsSound ==
  ASSUME TypesHold, NEW x \in Int, NEW size \in Int, NEW sent \in Replies(<<x>>, size), unread = << >>
  PROVE  /\ ~IsProtocolError(<<x>>, Arrived(sent))
         /\ Arrived(sent) = << >> => peer = "busy"
<1>1. (Len(sent) = 1 /\ DOMAIN sent = 1 .. 1 /\ sent[1].start = x) \/ (sent = << >> /\ peer = "busy")
  BY OneReply
<1>2. Arrived(sent) = sent
  <2>1. <<x>> \in Seq(Int) OBVIOUS
  <2>2. sent \in Seq(Batch) BY <2>1, RepliesType
  <2> QED BY <2>2 DEF Arrived
<1>3. Len(<<x>>) = 1 /\ x \in ToSet(<<x>>) BY DEF ToSet
<1>4. CASE Len(sent) = 1 /\ DOMAIN sent = 1 .. 1 /\ sent[1].start = x
  <2>1. sent # << >> BY <1>4
  <2>2. \A i \in DOMAIN sent : i = 1 BY <1>4
  <2>3. ~IsProtocolError(<<x>>, sent) BY <1>3, <1>4, <2>2 DEF IsProtocolError
  <2> QED BY <1>2, <2>1, <2>3
<1>5. CASE sent = << >> /\ peer = "busy"
  <2>1. ~IsProtocolError(<<x>>, << >>) BY <1>3 DEF IsProtocolError
  <2> QED BY <1>2, <1>5, <2>1
<1> QED BY <1>1, <1>4, <1>5

LEMMA ChunksType ==
  ASSUME NEW from \in Int, NEW to \in Int, from <= to
  PROVE  Chunks(from, to) \in Seq(Int)
<1> DEFINE m == (to - from + BatchSize) \div BatchSize
<1>1. BatchSize \in Nat \ {0} BY PeersAssumption
<1>2. m \in Nat BY <1>1
<1> HIDE DEF m
<1>3. \A i \in 1 .. m : from + (i - 1) * BatchSize \in Int BY <1>1
<1>4. Chunks(from, to) = [i \in 1 .. m |-> from + (i - 1) * BatchSize] BY DEF Chunks, m
<1> QED BY <1>2, <1>3, <1>4

-----------------------------------------------------------------------------
(* The rotation of the pool. *)

LEMMA Remainders ==
  ASSUME NEW n \in Nat \ {0}
  PROVE  /\ \A x \in 0 .. n - 1 : x % n = x
         /\ n % n = 0
OBVIOUS

LEMMA BeforeIsPeer ==
  ASSUME NEW p \in Pool, p.next < Len(p.addrs), NEW k \in 1 .. Len(p.addrs)
  PROVE  Before(p, k) \in Peer
<1>1. p.addrs \in Seq(Peer) /\ p.next \in Nat /\ Len(p.addrs) \in Nat BY DEF Pool
<1>2. (IF k <= p.next THEN p.next - k ELSE p.next + Len(p.addrs) - k) + 1 \in 1 .. Len(p.addrs) BY <1>1
<1> QED BY <1>1, <1>2 DEF Before

(* Going back by the length of the pool at most meets every address. *)
LEMMA EveryAddressIsBefore ==
  ASSUME NEW p \in Pool, p.next < Len(p.addrs), NEW i \in DOMAIN p.addrs
  PROVE  \E k \in 1 .. Len(p.addrs) : Before(p, k) = p.addrs[i]
<1>1. p.addrs \in Seq(Peer) /\ p.next \in Nat /\ Len(p.addrs) \in Nat /\ i \in 1 .. Len(p.addrs) BY DEF Pool
<1> DEFINE k == IF i - 1 < p.next THEN p.next - (i - 1) ELSE p.next + Len(p.addrs) - (i - 1)
<1>2. k \in 1 .. Len(p.addrs) BY <1>1
<1>3. (IF k <= p.next THEN p.next - k ELSE p.next + Len(p.addrs) - k) + 1 = i BY <1>1
<1> HIDE DEF k
<1>4. Before(p, k) = p.addrs[i] BY <1>3 DEF Before
<1> QED BY <1>2, <1>4

(* A turn of the pool puts the address looked at before all the others. *)
LEMMA Rotation ==
  ASSUME NEW p \in Pool, p.next < Len(p.addrs), NEW q,
         q.addrs = p.addrs, q.next = (p.next + 1) % Len(p.addrs)
  PROVE  /\ q.next \in Nat /\ q.next < Len(p.addrs)
         /\ p.addrs[(p.next % Len(p.addrs)) + 1] \in Peer
         /\ Before(q, 1) = p.addrs[(p.next % Len(p.addrs)) + 1]
         /\ \A k \in 2 .. Len(p.addrs) : Before(q, k) = Before(p, k - 1)
<1> DEFINE n == Len(p.addrs)
<1>1. p.addrs \in Seq(Peer) /\ p.next \in Nat /\ n \in Nat \ {0} BY DEF Pool
<1>2. p.next % n = p.next BY <1>1, Remainders
<1>3. q.next = IF p.next + 1 = n THEN 0 ELSE p.next + 1 BY <1>1, Remainders
<1>4. q.next \in Nat /\ q.next < n BY <1>1, <1>3
<1>5. p.next + 1 \in 1 .. n BY <1>1
<1>6. (IF 1 <= q.next THEN q.next - 1 ELSE q.next + n - 1) + 1 = p.next + 1 BY <1>1, <1>3
<1>8. Len(q.addrs) = n OBVIOUS
<1> HIDE DEF n
<1>7. ASSUME NEW k \in 2 .. n
      PROVE  (IF k <= q.next THEN q.next - k ELSE q.next + n - k)
               = (IF k - 1 <= p.next THEN p.next - (k - 1) ELSE p.next + n - (k - 1))
  <2>1. k \in Nat /\ 2 <= k /\ k <= n BY <1>1
  <2>2. CASE p.next + 1 = n
    <3>1. q.next = 0 /\ k - 1 <= p.next /\ ~ (k <= 0) BY <1>1, <1>3, <2>1, <2>2
    <3>2. 0 + n - k = p.next - (k - 1) BY <1>1, <2>1, <2>2
    <3> QED BY <3>1, <3>2
  <2>3. CASE p.next + 1 # n
    <3>1. q.next = p.next + 1 /\ (k <= p.next + 1 <=> k - 1 <= p.next) BY <1>1, <1>3, <2>1, <2>3
    <3>2. /\ (p.next + 1) - k = p.next - (k - 1)
          /\ (p.next + 1) + n - k = p.next + n - (k - 1)
      BY <1>1, <2>1
    <3> QED BY <3>1, <3>2
  <2> QED BY <2>2, <2>3
<1>9. Before(q, 1) = p.addrs[p.next + 1] BY <1>6, <1>8 DEF Before
<1>10. \A k \in 2 .. n : Before(q, k) = Before(p, k - 1) BY <1>7, <1>8 DEF Before, n
<1>11. p.addrs[p.next + 1] \in Peer BY <1>1, <1>5 DEF n
<1>12. (p.next % Len(p.addrs)) + 1 = p.next + 1 BY <1>2 DEF n
<1> QED BY <1>4, <1>9, <1>10, <1>11, <1>12 DEF n

-----------------------------------------------------------------------------
(* The end of an attempt. *)

LEMMA NextAttemptFacts ==
  ASSUME TypesHold, NextAttempt
  PROVE  /\ call' \in [attempt : Nat \ {0}, scanned : Nat]
         /\ pc' \in {"failed", "connect"}
         /\ pc' = "connect" => call'.attempt = call.attempt + 1 /\ call'.scanned = 0
         /\ pc' = "failed" => Len(pool.addrs) = 0 \/ call.attempt = Len(pool.addrs)
<1>1. call \in [attempt : Nat \ {0}, scanned : Nat] BY DEF TypesHold
<1>2. pool.addrs \in Seq(Peer) BY DEF TypesHold, Pool
<1>3. pool.addrs = << >> => Len(pool.addrs) = 0 BY <1>2
<1> QED BY <1>1, <1>2, <1>3 DEF NextAttempt

(* The reasons for which a peer may be given up, with what they say of it. *)
Justified(reason) ==
  /\ reason # "local" => peer # "good"
  /\ IsBanworthy(reason) => peer \in {"flaky", "bad", "dead"}

LEMMA EndAttemptFacts ==
  ASSUME PeersInv, pc \in Serving, NEW reason, Justified(reason), EndAttempt(reason)
  PROVE  /\ call' \in [attempt : Nat \ {0}, scanned : Nat]
         /\ pc' \in {"aborted", "failed", "connect"}
         /\ pool' \in Pool /\ pool'.addrs = pool.addrs /\ pool'.next = pool.next
         /\ \A addr \in pool'.banned : health[addr] \in {"flaky", "bad", "dead"}
         /\ pc' = "connect" => call'.attempt = call.attempt + 1 /\ call'.scanned = 0
         /\ pc' = "failed" => Len(pool.addrs) = 0 \/ call.attempt = Len(pool.addrs)
         /\ pc' \in {"failed", "connect"} => peer # "good"
<1>1. TypesHold BY DEF PeersInv
<1>2. pool \in Pool /\ pool.last_connected \in Peer /\ call \in [attempt : Nat \ {0}, scanned : Nat]
  BY <1>1 DEF TypesHold
<1>3. \A addr \in pool.banned : health[addr] \in {"flaky", "bad", "dead"}
  BY DEF PeersInv, BansHold, BansAreDeserved
<1>4. CASE reason = "local"
  BY <1>2, <1>3, <1>4 DEF EndAttempt
<1>5. CASE reason # "local"
  <2>1. NextAttempt /\ pool' = IF IsBanworthy(reason) THEN Ban(pool, pool.last_connected) ELSE pool
    BY <1>5 DEF EndAttempt
  <2>2. pool' \in Pool /\ pool'.addrs = pool.addrs /\ pool'.next = pool.next
    BY <1>2, <2>1 DEF Ban, Pool
  <2>3. pool'.banned = IF IsBanworthy(reason) THEN pool.banned \cup {pool.last_connected} ELSE pool.banned
    BY <1>2, <2>1 DEF Ban, Pool
  <2>4. \A addr \in pool'.banned : health[addr] \in {"flaky", "bad", "dead"}
    BY <1>3, <2>3 DEF Justified, peer
  <2>5. peer # "good" BY <1>5 DEF Justified
  <2> QED BY <1>1, <2>1, <2>2, <2>4, <2>5, NextAttemptFacts
<1> QED BY <1>4, <1>5

-----------------------------------------------------------------------------
(* The end of an attempt keeps the invariant, whatever the step does besides. *)

LEMMA EndAttemptKeeps ==
  ASSUME PeersInv, pc \in Serving, NEW reason, Justified(reason), EndAttempt(reason),
         UNCHANGED <<health, sync, scanned, withheld, loop>>, work' \in Work, unread' \in Seq(FullBatch)
  PROVE  /\ PeersInv'
         /\ pc' = "failed" => \A i \in DOMAIN pool.addrs : health[pool.addrs[i]] # "good"
<1>1. /\ call' \in [attempt : Nat \ {0}, scanned : Nat]
      /\ pc' \in {"aborted", "failed", "connect"}
      /\ pool' \in Pool /\ pool'.addrs = pool.addrs /\ pool'.next = pool.next
      /\ \A addr \in pool'.banned : health[addr] \in {"flaky", "bad", "dead"}
      /\ pc' = "connect" => call'.attempt = call.attempt + 1 /\ call'.scanned = 0
      /\ pc' = "failed" => Len(pool.addrs) = 0 \/ call.attempt = Len(pool.addrs)
      /\ pc' \in {"failed", "connect"} => peer # "good"
  BY EndAttemptFacts
<1>2. /\ TypesHold /\ Len(pool.addrs) > 0 /\ pool.last_connected = Before(pool, 1)
      /\ \A k \in 2 .. Len(pool.addrs) :
           k <= call.attempt + call.scanned => health[Before(pool, k)] # "good"
  BY DEF PeersInv, FailoverHolds
<1>3. pool \in Pool /\ pool.next < Len(pool.addrs) /\ call \in [attempt : Nat \ {0}, scanned : Nat]
      /\ Len(pool.addrs) \in Nat
  BY <1>2 DEF TypesHold, Pool
<1>4. pc' \notin Serving /\ pc' \notin {"pipeline", "deliver", "sequential"} BY <1>1 DEF Serving
<1>5. TypesHold'
  <2>1. /\ health' \in [Peer -> {"good", "busy", "flaky", "bad", "dead", "partial"}]
        /\ sync' \in Sync /\ loop' \in [tip : 1 .. MaxTip, polled : Nat, before : Nat]
    BY <1>2 DEF TypesHold
  <2> QED BY <1>1, <1>3, <1>4, <2>1 DEF TypesHold
<1>6. NoLeafSkipped' BY <1>4 DEF PeersInv, NoLeafSkipped, Covered
<1>7. BansHold' /\ DeliveryHolds' BY <1>1, <1>4 DEF BansHold, BansAreDeserved, DeliveryHolds
<1>8. \A k : Before(pool', k) = Before(pool, k) BY <1>1 DEF Before
<1>9. ASSUME pc' \in {"failed", "connect"}, NEW k \in 1 .. Len(pool.addrs), k <= call.attempt
      PROVE  health[Before(pool, k)] # "good"
  <2>1. CASE k = 1 BY <1>1, <1>2, <1>9, <2>1 DEF peer
  <2>2. CASE k # 1
    <3>1. k \in 2 .. Len(pool.addrs) /\ k <= call.attempt + call.scanned BY <1>3, <1>9, <2>2
    <3> QED BY <1>2, <3>1
  <2> QED BY <2>1, <2>2
<1>10. FailoverHolds'
  <2>1. ASSUME pc' = "connect", NEW k \in 1 .. Len(pool'.addrs), k < call'.attempt + call'.scanned
        PROVE  health'[Before(pool', k)] # "good"
    <3>1. k \in 1 .. Len(pool.addrs) /\ k <= call.attempt BY <1>1, <1>3, <2>1
    <3> QED BY <1>8, <1>9, <2>1, <3>1
  <2> QED BY <1>4, <2>1 DEF FailoverHolds
<1>11. ASSUME pc' = "failed", NEW i \in DOMAIN pool.addrs
       PROVE  health[pool.addrs[i]] # "good"
  <2>1. PICK k \in 1 .. Len(pool.addrs) : Before(pool, k) = pool.addrs[i] BY <1>3, EveryAddressIsBefore
  <2>2. k <= call.attempt BY <1>1, <1>3, <1>11
  <2> QED BY <1>9, <1>11, <2>1, <2>2
<1> QED BY <1>5, <1>6, <1>7, <1>10, <1>11 DEF PeersInv

(* A step of a connection that goes on: the pool and the call stay as they are. *)
LEMMA ServingKeeps ==
  ASSUME PeersInv, pc \in Serving, pc' \in Serving, UNCHANGED <<health, pool, call, loop>>,
         work' \in Work, sync' \in Sync, unread' \in Seq(FullBatch), NoLeafSkipped', DeliveryHolds',
         unread' # << >> => unread # << >> \/ peer = "flaky"
  PROVE  PeersInv'
<1>1. TypesHold' BY DEF PeersInv, TypesHold
<1>2. BansHold' BY DEF PeersInv, BansHold, BansAreDeserved, peer
<1>3. pc' # "connect" /\ Before(pool', 1) = Before(pool, 1)
      /\ \A k : Before(pool', k) = Before(pool, k) BY DEF Serving, Before
<1>4. FailoverHolds' BY <1>3 DEF PeersInv, FailoverHolds
<1> QED BY <1>1, <1>2, <1>4 DEF PeersInv

-----------------------------------------------------------------------------
(* The tip loop. *)

LEMMA IdleKeeps ==
  ASSUME PeersInv, UNCHANGED <<health, unread>>, pc' \in {"idle", "waiting", "stopped"},
         pool' \in Pool, Len(pool'.addrs) > 0 => pool'.next < Len(pool'.addrs),
         pool'.banned \subseteq pool.banned, call' = call, UNCHANGED <<scanned, withheld>>,
         work' \in Work, sync' \in Sync, loop' \in [tip : 1 .. MaxTip, polled : Nat, before : Nat],
         sync'.cursor # None => sync'.cursor = sync.cursor,
         Covered(LeavesAt[sync'.synced])
  PROVE  PeersInv'
<1>1. pc' \notin Serving \cup {"connect", "pipeline", "deliver", "sequential"} BY DEF Serving
<1>2. TypesHold' BY <1>1 DEF PeersInv, TypesHold
<1>3. NoLeafSkipped' BY <1>1 DEF PeersInv, NoLeafSkipped, Covered
<1>4. BansHold' /\ DeliveryHolds' BY <1>1 DEF PeersInv, BansHold, BansAreDeserved, DeliveryHolds
<1>5. FailoverHolds' BY <1>1 DEF FailoverHolds
<1> QED BY <1>2, <1>3, <1>4, <1>5 DEF PeersInv

LEMMA NoWorkType == NoWork \in Work
BY PeersAssumption DEF NoWork, Work

LEMMA TipLoopKeeps ==
  ASSUME PeersInv, FinishPass \/ Poll \/ Rediscover
  PROVE  PeersInv'
<1>1. TypesHold /\ NoLeafSkipped BY DEF PeersInv
<1>2. pool \in Pool /\ work \in Work /\ sync \in Sync
      /\ loop \in [tip : 1 .. MaxTip, polled : Nat, before : Nat] BY <1>1 DEF TypesHold
<1>3. CASE FinishPass
  <2>1. /\ pc' \in {"waiting", "stopped"} /\ work' = NoWork
        /\ sync' = [synced |-> work.target, cursor |-> None, pending_tip |-> None]
        /\ UNCHANGED <<health, pool, call, unread, scanned, withheld, loop>>
        /\ pc = "sequential" /\ work.at > LeavesAt[work.target]
    BY <1>3 DEF FinishPass
  <2>2. sync' \in Sync BY <1>2, <2>1 DEF Work, Sync
  <2>3. Covered(LeavesAt[sync'.synced])
    <3>1. Covered(Min2(work.at - 1, LeavesAt[work.target])) BY <1>1, <2>1 DEF NoLeafSkipped
    <3>2. LeavesAt[work.target] \in Nat /\ work.at \in Int BY <1>2, PeersAssumption DEF Work
    <3>3. Min2(work.at - 1, LeavesAt[work.target]) = LeavesAt[work.target] BY <2>1, <3>2 DEF Min2
    <3> QED BY <2>1, <3>1, <3>3
  <2> QED BY <1>1, <1>2, <2>1, <2>2, <2>3, NoWorkType, IdleKeeps DEF TypesHold
<1>4. CASE Poll
  <2>1. /\ pc' \in {"idle", "waiting"} /\ loop' = [loop EXCEPT !.polled = loop.tip]
        /\ UNCHANGED <<health, pool, call, unread, work, sync, scanned, withheld>>
    BY <1>4 DEF Poll
  <2>2. loop' \in [tip : 1 .. MaxTip, polled : Nat, before : Nat] BY <1>2, <2>1
  <2> QED BY <1>1, <1>2, <2>1, <2>2, IdleKeeps DEF TypesHold, NoLeafSkipped
<1>5. CASE Rediscover
  <2>1. PICK addrs \in Crawl \cup {pool.addrs} : pool' = NewPool(addrs)
    BY <1>5 DEF Rediscover
  <2>2. pc' = "idle" /\ UNCHANGED <<health, call, unread, work, sync, scanned, withheld, loop>>
    BY <1>5 DEF Rediscover
  <2>3. addrs \in Seq(Peer)
    <3>1. CASE addrs \in Crawl
      <4>1. PICK n \in 0 .. WANT_PEERS : addrs \in [1 .. n -> Peer] BY <3>1 DEF Crawl
      <4> QED BY <4>1, PeersAssumption
    <3> QED BY <1>2, <2>1, <3>1 DEF Pool
  <2>4. pool' \in Pool /\ pool'.banned = {} /\ (Len(pool'.addrs) > 0 => pool'.next < Len(pool'.addrs))
    BY <2>1, <2>3 DEF NewPool, Pool
  <2> QED BY <1>1, <1>2, <2>2, <2>4, IdleKeeps DEF NoLeafSkipped
<1> QED BY <1>3, <1>4, <1>5

LEMMA NewBlockKeeps ==
  ASSUME PeersInv, NewBlock
  PROVE  PeersInv'
<1>1. TypesHold BY DEF PeersInv
<1>2. /\ loop.tip < MaxTip /\ loop' = [loop EXCEPT !.tip = @ + 1]
      /\ UNCHANGED <<health, pool, call, pc, unread, work, sync, scanned, withheld>>
  BY DEF NewBlock
<1>3. loop' \in [tip : 1 .. MaxTip, polled : Nat, before : Nat]
  <2>1. loop \in [tip : 1 .. MaxTip, polled : Nat, before : Nat] BY <1>1 DEF TypesHold
  <2>2. MaxTip \in Nat /\ loop.tip \in 1 .. MaxTip BY <2>1, PeersAssumption
  <2>3. loop.tip + 1 \in 1 .. MaxTip BY <1>2, <2>2
  <2> QED BY <1>2, <2>1, <2>3
<1>4. TypesHold' BY <1>1, <1>2, <1>3 DEF TypesHold
<1>5. NoLeafSkipped' BY <1>2 DEF PeersInv, NoLeafSkipped, Covered
<1>6. BansHold' /\ DeliveryHolds'
  BY <1>2 DEF PeersInv, BansHold, BansAreDeserved, DeliveryHolds, peer
<1>7. FailoverHolds' BY <1>2 DEF PeersInv, FailoverHolds, Before
<1> QED BY <1>4, <1>5, <1>6, <1>7 DEF PeersInv

LEMMA StartPassKeeps ==
  ASSUME PeersInv, StartPass
  PROVE  PeersInv'
<1>1. TypesHold BY DEF PeersInv
<1>2. /\ loop' = [loop EXCEPT !.before = loop.polled]
      /\ call' = [attempt |-> 1, scanned |-> 0] /\ pc' = "connect"
      /\ UNCHANGED <<health, pool, unread, work, sync, scanned, withheld>>
  BY DEF StartPass
<1>3. loop' \in [tip : 1 .. MaxTip, polled : Nat, before : Nat] BY <1>1, <1>2 DEF TypesHold
<1>4. pc' \notin Serving /\ pc' \notin {"pipeline", "deliver", "sequential"} BY <1>2 DEF Serving
<1>5. TypesHold' BY <1>1, <1>2, <1>3, <1>4 DEF TypesHold
<1>6. NoLeafSkipped' BY <1>2, <1>4 DEF PeersInv, NoLeafSkipped, Covered
<1>7. BansHold' /\ DeliveryHolds' BY <1>2, <1>4 DEF PeersInv, BansHold, BansAreDeserved, DeliveryHolds
<1>8. \A k \in 1 .. Len(pool'.addrs) : ~ (k < call'.attempt + call'.scanned)
  <2>1. call'.attempt + call'.scanned = 1 BY <1>2
  <2> QED BY <2>1
<1>9. FailoverHolds' BY <1>4, <1>8 DEF FailoverHolds
<1> QED BY <1>5, <1>6, <1>7, <1>9 DEF PeersInv

-----------------------------------------------------------------------------
(* The choice of a peer. *)

LEMMA BanExpiresKeeps ==
  ASSUME PeersInv, BanExpires
  PROVE  PeersInv'
<1>1. TypesHold /\ pool \in Pool BY DEF PeersInv, TypesHold
<1>2. PICK addr \in pool.banned : pool' = [pool EXCEPT !.banned = @ \ {addr}] BY DEF BanExpires
<1>3. pc = "connect" /\ UNCHANGED <<health, call, pc, unread, work, sync, scanned, withheld, loop>> BY DEF BanExpires
<1>4. /\ pool' \in Pool /\ pool'.addrs = pool.addrs /\ pool'.next = pool.next
      /\ pool'.banned \subseteq pool.banned
  BY <1>1, <1>2 DEF Pool
<1>5. pc' \notin Serving /\ pc' \notin {"pipeline", "deliver", "sequential"} BY <1>3 DEF Serving
<1>6. TypesHold' BY <1>1, <1>3, <1>4, <1>5 DEF TypesHold
<1>7. NoLeafSkipped' BY <1>3, <1>5 DEF PeersInv, NoLeafSkipped, Covered
<1>8. BansHold' /\ DeliveryHolds'
  BY <1>3, <1>4, <1>5 DEF PeersInv, BansHold, BansAreDeserved, DeliveryHolds
<1>9. \A k : Before(pool', k) = Before(pool, k) BY <1>4 DEF Before
<1>10. FailoverHolds' BY <1>3, <1>4, <1>5, <1>9 DEF PeersInv, FailoverHolds
<1> QED BY <1>6, <1>7, <1>8, <1>10 DEF PeersInv

(* Having looked at every address in vain, an attempt has met no sound peer. *)
LEMMA NoPeerLeftKeeps ==
  ASSUME PeersInv, NoPeerLeft
  PROVE  /\ PeersInv'
         /\ pc' = "failed" => \A i \in DOMAIN pool.addrs : health[pool.addrs[i]] # "good"
<1>1. TypesHold BY DEF PeersInv
<1>2. /\ pool \in Pool /\ call \in [attempt : Nat \ {0}, scanned : Nat] /\ Len(pool.addrs) \in Nat
      /\ Len(pool.addrs) > 0 => pool.next < Len(pool.addrs)
  BY <1>1 DEF TypesHold, Pool
<1>3. /\ pc = "connect" /\ call.scanned = Len(pool.addrs) /\ NextAttempt
      /\ UNCHANGED <<health, pool, unread, work, sync, scanned, withheld, loop>>
  BY DEF NoPeerLeft
<1>4. call' \in [attempt : Nat \ {0}, scanned : Nat] /\ pc' \in {"failed", "connect"}
  BY <1>1, <1>3, NextAttemptFacts
<1>5. pc' \notin Serving /\ pc' \notin {"pipeline", "deliver", "sequential"} BY <1>4 DEF Serving
<1>6. \A k \in 1 .. Len(pool.addrs) : health[Before(pool, k)] # "good"
  <2>1. \A k \in 1 .. Len(pool.addrs) : k < call.attempt + call.scanned BY <1>2, <1>3
  <2> QED BY <1>3, <2>1 DEF PeersInv, FailoverHolds
<1>7. TypesHold' BY <1>1, <1>3, <1>4, <1>5 DEF TypesHold
<1>8. NoLeafSkipped' BY <1>3, <1>5 DEF PeersInv, NoLeafSkipped, Covered
<1>9. BansHold' /\ DeliveryHolds' BY <1>3, <1>5 DEF PeersInv, BansHold, BansAreDeserved, DeliveryHolds
<1>10. FailoverHolds'
  <2>1. \A k \in 1 .. Len(pool'.addrs) : health'[Before(pool', k)] # "good" BY <1>3, <1>6 DEF Before
  <2> QED BY <1>5, <2>1 DEF FailoverHolds
<1>11. ASSUME NEW i \in DOMAIN pool.addrs
       PROVE  health[pool.addrs[i]] # "good"
  <2>1. Len(pool.addrs) > 0
    <3>1. i \in 1 .. Len(pool.addrs) BY <1>2 DEF Pool
    <3> QED BY <1>2, <3>1
  <2>2. \E k \in 1 .. Len(pool.addrs) : Before(pool, k) = pool.addrs[i]
    BY <1>2, <2>1, EveryAddressIsBefore
  <2> QED BY <1>6, <2>2
<1> QED BY <1>7, <1>8, <1>9, <1>10, <1>11 DEF PeersInv

LEMMA ConnectFacts ==
  ASSUME TypesHold, Connect
  PROVE  LET addr == pool.addrs[(pool.next % Len(pool.addrs)) + 1]
         IN /\ pc = "connect" /\ Len(pool.addrs) > 0 /\ addr \in Peer
            /\ pool' \in Pool /\ pool'.addrs = pool.addrs
            /\ pool'.next = (pool.next + 1) % Len(pool.addrs)
            /\ UNCHANGED <<health, sync, scanned, withheld, loop>>
            /\ \/ /\ pc' = "connect" /\ UNCHANGED <<unread, work>>
                  /\ call'.attempt = call.attempt /\ call'.scanned = call.scanned + 1
                  /\ call' \in [attempt : Nat \ {0}, scanned : Nat]
                  /\ \/ addr \in pool.banned /\ pool'.banned = pool.banned
                     \/ /\ pool'.banned = pool.banned \cup {addr}
                        /\ health[addr] \in {"dead", "flaky"}
               \/ /\ pc' = "start" /\ unread' = << >> /\ work' = NoWork /\ call' = call
                  /\ pool'.banned = pool.banned /\ pool'.last_connected = addr
<1> DEFINE addr == pool.addrs[(pool.next % Len(pool.addrs)) + 1]
           moved == [pool EXCEPT !.next = (@ + 1) % Len(pool.addrs)]
           skipped == call' = [call EXCEPT !.scanned = @ + 1] /\ UNCHANGED <<pc, unread, work>>
<1>1. /\ pool \in Pool /\ call \in [attempt : Nat \ {0}, scanned : Nat] /\ Len(pool.addrs) \in Nat
      /\ Len(pool.addrs) > 0 => pool.next < Len(pool.addrs)
  BY DEF TypesHold, Pool
<1>2. /\ pc = "connect" /\ call.scanned < Len(pool.addrs)
      /\ UNCHANGED <<health, sync, scanned, withheld, loop>>
      /\ \/ addr \in pool.banned /\ skipped /\ pool' = moved
         \/ /\ addr \notin pool.banned /\ health[addr] \in {"dead", "flaky"}
            /\ skipped /\ pool' = Ban(moved, addr)
         \/ /\ addr \notin pool.banned /\ health[addr] # "dead"
            /\ pool' = [moved EXCEPT !.last_connected = addr]
            /\ pc' = "start" /\ unread' = << >> /\ work' = NoWork /\ UNCHANGED call
  BY DEF Connect
<1>3. Len(pool.addrs) > 0 /\ pool.next < Len(pool.addrs) BY <1>1, <1>2
<1>4. moved.addrs = pool.addrs /\ moved.next = (pool.next + 1) % Len(pool.addrs)
  BY <1>1 DEF Pool
<1>5. addr \in Peer /\ moved.next \in Nat BY <1>1, <1>3, <1>4, Rotation
<1>6. moved \in Pool /\ moved.banned = pool.banned BY <1>1, <1>5 DEF Pool
<1> HIDE DEF addr, moved
<1>7. skipped => /\ pc' = "connect" /\ UNCHANGED <<unread, work>>
                 /\ call'.attempt = call.attempt /\ call'.scanned = call.scanned + 1
                 /\ call' \in [attempt : Nat \ {0}, scanned : Nat]
  BY <1>1, <1>2
<1> HIDE DEF skipped
<1>8. CASE addr \in pool.banned /\ skipped /\ pool' = moved
  BY <1>2, <1>3, <1>4, <1>5, <1>6, <1>7, <1>8 DEF addr
<1>9. CASE /\ addr \notin pool.banned /\ health[addr] \in {"dead", "flaky"}
           /\ skipped /\ pool' = Ban(moved, addr)
  <2>1. /\ pool' \in Pool /\ pool'.addrs = moved.addrs /\ pool'.next = moved.next
        /\ pool'.banned = moved.banned \cup {addr}
    BY <1>5, <1>6, <1>9 DEF Ban, Pool
  <2> QED BY <1>2, <1>3, <1>4, <1>5, <1>6, <1>7, <1>9, <2>1 DEF addr
<1>10. CASE /\ addr \notin pool.banned /\ health[addr] # "dead"
            /\ pool' = [moved EXCEPT !.last_connected = addr]
            /\ pc' = "start" /\ unread' = << >> /\ work' = NoWork /\ UNCHANGED call
  <2>1. /\ pool' \in Pool /\ pool'.addrs = moved.addrs /\ pool'.next = moved.next
        /\ pool'.banned = moved.banned /\ pool'.last_connected = addr
    BY <1>5, <1>6, <1>10 DEF Pool
  <2> QED BY <1>2, <1>3, <1>4, <1>5, <1>6, <1>10, <2>1 DEF addr
<1> QED BY <1>2, <1>8, <1>9, <1>10

LEMMA ConnectKeeps ==
  ASSUME PeersInv, Connect
  PROVE  PeersInv'
<1> DEFINE addr == pool.addrs[(pool.next % Len(pool.addrs)) + 1]
<1>1. TypesHold /\ BansHold /\ FailoverHolds BY DEF PeersInv
<1>2. /\ pc = "connect" /\ Len(pool.addrs) > 0 /\ addr \in Peer
      /\ pool' \in Pool /\ pool'.addrs = pool.addrs
      /\ pool'.next = (pool.next + 1) % Len(pool.addrs)
      /\ UNCHANGED <<health, sync, scanned, withheld, loop>>
      /\ \/ /\ pc' = "connect" /\ UNCHANGED <<unread, work>>
            /\ call'.attempt = call.attempt /\ call'.scanned = call.scanned + 1
            /\ call' \in [attempt : Nat \ {0}, scanned : Nat]
            /\ \/ addr \in pool.banned /\ pool'.banned = pool.banned
               \/ /\ pool'.banned = pool.banned \cup {addr}
                  /\ health[addr] \in {"dead", "flaky"}
         \/ /\ pc' = "start" /\ unread' = << >> /\ work' = NoWork /\ call' = call
            /\ pool'.banned = pool.banned /\ pool'.last_connected = addr
  BY <1>1, ConnectFacts
<1>3. /\ pool \in Pool /\ pool.next < Len(pool.addrs) /\ Len(pool.addrs) \in Nat
      /\ call \in [attempt : Nat \ {0}, scanned : Nat] /\ pc' \in {"connect", "start"}
  BY <1>1, <1>2 DEF TypesHold, Pool
<1>4. /\ pool'.next < Len(pool.addrs) /\ Before(pool', 1) = addr
      /\ \A k \in 2 .. Len(pool.addrs) : Before(pool', k) = Before(pool, k - 1)
  BY <1>2, <1>3, Rotation
<1>5. \A a \in pool.banned : health[a] \in {"flaky", "bad", "dead"}
  BY <1>1 DEF BansHold, BansAreDeserved
<1>6. \A k \in 1 .. Len(pool.addrs) :
        k < call.attempt + call.scanned => health[Before(pool, k)] # "good"
  BY <1>1, <1>2 DEF FailoverHolds
<1> HIDE DEF addr
<1>7. \A k \in 2 .. Len(pool.addrs) :
        k <= call.attempt + call.scanned => health[Before(pool', k)] # "good"
  <2>1. \A k \in 2 .. Len(pool.addrs) : k - 1 \in 1 .. Len(pool.addrs) BY <1>3
  <2>2. \A k \in 2 .. Len(pool.addrs) :
          k <= call.attempt + call.scanned => k - 1 < call.attempt + call.scanned
    BY <1>3
  <2> QED BY <1>4, <1>6, <2>1, <2>2
<1>8. TypesHold'
  <2>1. /\ unread' \in Seq(FullBatch) /\ work' \in Work
        /\ call' \in [attempt : Nat \ {0}, scanned : Nat]
        /\ pc' \in Serving => pool'.last_connected \in Peer
    <3>1. unread \in Seq(FullBatch) /\ work \in Work BY <1>1 DEF TypesHold
    <3>2. CASE pc' = "connect" BY <1>2, <3>1, <3>2 DEF Serving
    <3>3. CASE pc' = "start" BY <1>2, <1>3, <3>3, NoWorkType
    <3> QED BY <1>3, <3>2, <3>3
  <2>2. /\ health' \in [Peer -> {"good", "busy", "flaky", "bad", "dead", "partial"}]
        /\ sync' \in Sync /\ loop' \in [tip : 1 .. MaxTip, polled : Nat, before : Nat]
    BY <1>1, <1>2 DEF TypesHold
  <2> QED BY <1>2, <1>3, <1>4, <2>1, <2>2 DEF TypesHold, Serving
<1>9. NoLeafSkipped' BY <1>2, <1>3 DEF PeersInv, NoLeafSkipped, Covered
<1>10. BansHold' /\ DeliveryHolds'
  <2>1. BansAreDeserved' BY <1>2, <1>5 DEF BansAreDeserved
  <2>2. pc' \in Serving => unread' = << >> BY <1>2 DEF Serving
  <2> QED BY <1>3, <2>1, <2>2 DEF BansHold, DeliveryHolds
<1>11. FailoverHolds'
  <2>1. CASE pc' = "connect"
    <3>1. ASSUME NEW k \in 1 .. Len(pool'.addrs), k < call'.attempt + call'.scanned
          PROVE  health'[Before(pool', k)] # "good"
      <4>1. CASE k = 1
        <5>1. health[addr] # "good" BY <1>2, <1>5, <2>1
        <5> QED BY <1>2, <1>4, <4>1, <5>1
      <4>2. CASE k # 1
        <5>1. k \in 2 .. Len(pool.addrs) BY <1>2, <1>3, <4>2
        <5>2. k <= call.attempt + call.scanned BY <1>2, <1>3, <2>1, <3>1, <5>1
        <5> QED BY <1>2, <1>7, <5>1, <5>2
      <4> QED BY <4>1, <4>2
    <3> QED BY <2>1, <3>1 DEF FailoverHolds, Serving
  <2>2. CASE pc' = "start"
    <3>1. call' = call /\ pool'.last_connected = addr BY <1>2, <2>2
    <3>2. Len(pool'.addrs) > 0 /\ pool'.last_connected = Before(pool', 1) BY <1>2, <1>4, <3>1
    <3>3. \A k \in 2 .. Len(pool'.addrs) :
            k <= call'.attempt + call'.scanned => health'[Before(pool', k)] # "good"
      BY <1>2, <1>7, <3>1
    <3> QED BY <2>2, <3>2, <3>3 DEF FailoverHolds
  <2> QED BY <1>3, <2>1, <2>2
<1> QED BY <1>8, <1>9, <1>10, <1>11 DEF PeersInv

-----------------------------------------------------------------------------
(* run_once *)

LEMMA CoveredBelow ==
  ASSUME NEW m \in Int, NEW n \in Int, Covered(m)
  PROVE  Covered(Min2(m, n))
<1>1. 1 .. Min2(m, n) \subseteq 1 .. m BY DEF Min2
<1> QED BY <1>1 DEF Covered

(* A download is resumed at a leaf below which none was passed over. *)
LEMMA ResumeFacts ==
  ASSUME PeersInv, NEW target \in 0 .. MaxTip
  PROVE  ResumeAt(target) \in Int /\ Covered(ResumeAt(target) - 1)
<1>1. sync \in Sync /\ NoLeafSkipped BY DEF PeersInv, TypesHold
<1>2. LeavesAt[sync.synced] \in Nat BY <1>1, PeersAssumption DEF Sync
<1>3. CASE sync.cursor # None /\ (sync.pending_tip = target \/ sync.synced = 0)
  <2>1. sync.cursor \in Int /\ Covered(sync.cursor)
    BY <1>1, <1>3 DEF Sync, NoLeafSkipped
  <2>2. ResumeAt(target) = sync.cursor + 1 /\ (sync.cursor + 1) - 1 = sync.cursor
    BY <1>3, <2>1 DEF ResumeAt
  <2> QED BY <2>1, <2>2
<1>4. CASE ~ (sync.cursor # None /\ (sync.pending_tip = target \/ sync.synced = 0))
  <2>1. Covered(LeavesAt[sync.synced]) BY <1>1 DEF NoLeafSkipped
  <2>2. /\ ResumeAt(target) = LeavesAt[sync.synced] + 1
        /\ (LeavesAt[sync.synced] + 1) - 1 = LeavesAt[sync.synced]
    BY <1>2, <1>4 DEF ResumeAt
  <2> QED BY <1>2, <2>1, <2>2
<1> QED BY <1>3, <1>4

LEMMA StartKeeps ==
  ASSUME PeersInv, Start
  PROVE  /\ PeersInv'
         /\ pc' = "failed" => \A i \in DOMAIN pool.addrs : health[pool.addrs[i]] # "good"
<1> DEFINE target == loop.tip
           at == ResumeAt(target)
           full == sync.synced = 0 /\ at <= LeavesAt[target]
<1>1. TypesHold /\ NoLeafSkipped BY DEF PeersInv
<1>2. /\ work \in Work /\ sync \in Sync /\ unread \in Seq(FullBatch)
      /\ loop \in [tip : 1 .. MaxTip, polled : Nat, before : Nat]
  BY <1>1 DEF TypesHold
<1>3. pc = "start" /\ pc \in Serving /\ UNCHANGED <<health, unread, scanned, withheld, loop>>
  BY DEF Start, Serving
<1>4. CASE /\ work' = [work EXCEPT !.target = target, !.at = at,
                         !.pending = IF full THEN Chunks(at, LeavesAt[target]) ELSE << >>]
           /\ sync' = [sync EXCEPT !.pending_tip = target]
           /\ pc' = IF full THEN "pipeline" ELSE "sequential"
           /\ UNCHANGED <<call, pool>>
  <2>1. target \in 0 .. MaxTip
    <3>1. loop.tip \in 1 .. MaxTip BY <1>2
    <3> QED BY <3>1, PeersAssumption
  <2>2. at \in Int /\ Covered(at - 1) BY <2>1, ResumeFacts
  <2>3. LeavesAt[target] \in Int BY <2>1, PeersAssumption
  <2> HIDE DEF at, target
  <2>4. full => Chunks(at, LeavesAt[target]) \in Seq(Int) BY <2>2, <2>3, ChunksType
  <2> HIDE DEF full
  <2>5. work' \in Work /\ work'.at = at /\ work'.target = target
    <3>1. (IF full THEN Chunks(at, LeavesAt[target]) ELSE << >>) \in Seq(Int) BY <2>4
    <3> QED BY <1>2, <1>4, <2>1, <2>2, <3>1 DEF Work
  <2>6. sync' \in Sync /\ sync'.cursor = sync.cursor /\ sync'.synced = sync.synced
    BY <1>2, <1>4, <2>1 DEF Sync
  <2>7. NoLeafSkipped'
    <3>1. Covered(Min2(at - 1, LeavesAt[target])) BY <2>2, <2>3, CoveredBelow
    <3> QED BY <1>1, <1>3, <2>5, <2>6, <3>1 DEF NoLeafSkipped, Covered
  <2>8. pc' \in Serving /\ pc' # "failed" /\ DeliveryHolds' BY <1>4 DEF Serving, DeliveryHolds
  <2>9. unread' \in Seq(FullBatch) /\ (unread' # << >> => unread # << >> \/ peer = "flaky") BY <1>2, <1>3
  <2> QED BY <1>3, <1>4, <2>5, <2>6, <2>7, <2>8, <2>9, ServingKeeps
<1>5. CASE /\ peer \in {"busy", "flaky", "bad"}
           /\ EndAttempt([busy |-> "throttled", flaky |-> "transport", bad |-> "proof"][peer])
           /\ UNCHANGED <<work, sync>>
  <2> DEFINE reason == [busy |-> "throttled", flaky |-> "transport", bad |-> "proof"][peer]
  <2>1. Justified(reason) BY <1>5 DEF Justified, IsBanworthy
  <2> HIDE DEF reason
  <2>2. EndAttempt(reason) BY <1>5 DEF reason
  <2> QED BY <1>2, <1>3, <1>5, <2>1, <2>2, EndAttemptKeeps
<1>6. CASE EndAttempt("local") /\ UNCHANGED <<work, sync>>
  <2>1. Justified("local") BY DEF Justified, IsBanworthy
  <2> QED BY <1>2, <1>3, <1>6, <2>1, EndAttemptKeeps
<1> QED BY <1>4, <1>5, <1>6 DEF Start

-----------------------------------------------------------------------------
(* A batch. *)

(* A batch that starts at the next leaf covers every leaf up to its last. *)
LEMMA ScanCovers ==
  ASSUME PeersInv, pc \in {"deliver", "sequential"}, work.at <= LeavesAt[work.target],
         NEW r \in Batch, r.start = work.at, ~IsEmpty(r), peer # "partial" => r \in FullBatch,
         Scan(r), health' = health, work'.at = r.last + 1, work'.target = work.target
  PROVE  NoLeafSkipped' /\ sync' \in Sync
<1>1. TypesHold /\ NoLeafSkipped /\ sync \in Sync BY DEF PeersInv, TypesHold
<1>2. work.at \in Int /\ LeavesAt[work.target] \in Nat BY <1>1, PeersAssumption DEF TypesHold, Work
<1>3. r.start \in Int /\ r.first \in Int /\ r.last \in Int BY DEF Batch, IsEmpty
<1>4. /\ scanned' = scanned \cup (r.first .. r.last)
      /\ withheld' = withheld \cup (r.start .. r.first - 1)
      /\ sync' = [sync EXCEPT !.cursor = r.last]
  BY DEF Scan
<1>5. sync' \in Sync /\ sync'.cursor = r.last /\ sync'.synced = sync.synced BY <1>1, <1>3, <1>4 DEF Sync
<1>6. Covered(work.at - 1) /\ Covered(LeavesAt[sync.synced])
  <2>1. Min2(work.at - 1, LeavesAt[work.target]) = work.at - 1 BY <1>2 DEF Min2
  <2> QED BY <1>1, <2>1 DEF NoLeafSkipped
<1>7. 1 .. r.last \subseteq scanned' \cup withheld'
  <2>1. \A leaf \in 1 .. r.last :
          leaf \in 1 .. work.at - 1 \/ leaf \in r.start .. r.first - 1 \/ leaf \in r.first .. r.last
    BY <1>2, <1>3
  <2> QED BY <1>4, <1>6, <2>1 DEF Covered
<1>8. 1 .. Min2(work'.at - 1, LeavesAt[work'.target]) \subseteq 1 .. r.last
  <2>1. work'.at - 1 = r.last BY <1>3
  <2> QED BY <1>2, <1>3, <2>1 DEF Min2
<1>9. 1 .. LeavesAt[sync'.synced] \subseteq scanned' \cup withheld' BY <1>4, <1>5, <1>6 DEF Covered
<1>10. (\A addr \in Peer : health'[addr] # "partial") => withheld' = {}
  <2>1. SUFFICES ASSUME \A addr \in Peer : health[addr] # "partial" PROVE withheld' = {} OBVIOUS
  <2>2. withheld = {} BY <1>1, <2>1 DEF NoLeafSkipped
  <2>3. pool.last_connected \in Peer BY <1>1 DEF TypesHold, Serving
  <2>4. r.first = r.start BY <2>1, <2>3 DEF peer, FullBatch
  <2>5. r.start .. r.first - 1 = {} BY <1>3, <2>4
  <2> QED BY <1>4, <2>2, <2>5
<1> QED BY <1>5, <1>7, <1>8, <1>9, <1>10 DEF NoLeafSkipped, Covered

(* An empty batch passes over one leaf, and only a partial peer sends it. *)
LEMMA PassOverCovers ==
  ASSUME PeersInv, pc \in {"deliver", "sequential"},
         NEW r \in Batch, IsEmpty(r), peer # "partial" => r \in FullBatch,
         PassOver, health' = health, work'.at = work.at + 1, work'.target = work.target
  PROVE  NoLeafSkipped' /\ sync' \in Sync
<1>1. TypesHold /\ NoLeafSkipped /\ sync \in Sync BY DEF PeersInv, TypesHold
<1>2. work.at \in Int /\ LeavesAt[work.target] \in Nat BY <1>1, PeersAssumption DEF TypesHold, Work
<1>3. /\ withheld' = withheld \cup ({work.at} \cap 1 .. LeavesAt[work.target])
      /\ UNCHANGED <<sync, scanned>>
  BY DEF PassOver
<1>4. 1 .. Min2(work'.at - 1, LeavesAt[work'.target]) \subseteq scanned' \cup withheld'
  <2>1. Covered(Min2(work.at - 1, LeavesAt[work.target])) BY <1>1 DEF NoLeafSkipped
  <2>2. work'.at - 1 = work.at BY <1>2
  <2>3. \A leaf \in 1 .. Min2(work.at, LeavesAt[work.target]) :
          \/ leaf \in 1 .. Min2(work.at - 1, LeavesAt[work.target])
          \/ leaf = work.at /\ leaf \in 1 .. LeavesAt[work.target]
    BY <1>2 DEF Min2
  <2> QED BY <1>3, <2>1, <2>2, <2>3 DEF Covered
<1>5. (\A addr \in Peer : health'[addr] # "partial") => withheld' = {}
  <2>1. SUFFICES ASSUME \A addr \in Peer : health[addr] # "partial" PROVE FALSE BY <1>3
  <2>2. pool.last_connected \in Peer BY <1>1 DEF TypesHold, Serving
  <2>3. r.first \in Int BY <2>1, <2>2 DEF peer, FullBatch, Batch
  <2> QED BY <2>3, PeersAssumption DEF IsEmpty
<1>6. sync'.cursor # None => 1 .. sync'.cursor \subseteq scanned' \cup withheld'
  BY <1>1, <1>3 DEF NoLeafSkipped, Covered
<1>7. 1 .. LeavesAt[sync'.synced] \subseteq scanned' \cup withheld' BY <1>1, <1>3 DEF NoLeafSkipped, Covered
<1>8. sync' \in Sync BY <1>1, <1>3
<1> QED BY <1>4, <1>5, <1>6, <1>7, <1>8 DEF NoLeafSkipped, Covered

-----------------------------------------------------------------------------
(* One request of the sequential download. *)

LEMMA ReceiveReasons ==
  ASSUME PeersInv, pc \in Serving, NEW x \in Int, NEW size \in Int, NEW sent \in Replies(<<x>>, size)
  PROVE  /\ IsProtocolError(<<x>>, Arrived(sent)) => Justified("protocol")
         /\ Arrived(sent) = << >> => Justified("throttled")
<1>1. TypesHold /\ (unread # << >> => peer = "flaky") BY DEF PeersInv, BansHold
<1>2. CASE unread = << >>
  <2>1. ~IsProtocolError(<<x>>, Arrived(sent)) /\ (Arrived(sent) = << >> => peer = "busy")
    BY <1>1, <1>2, FreshIsSound
  <2> QED BY <2>1 DEF Justified, IsBanworthy
<1>3. CASE unread # << >> BY <1>1, <1>3 DEF Justified, IsBanworthy
<1> QED BY <1>2, <1>3

(* The reply taken is the one to the request, and in part only of a partial  *)
(* peer.                                                                     *)
LEMMA ReplyFacts ==
  ASSUME TypesHold, NEW x \in Int, NEW size \in Int, NEW sent \in Replies(<<x>>, size),
         Arrived(sent) # << >>, ~IsProtocolError(<<x>>, Arrived(sent))
  PROVE  LET r == Head(Arrived(sent))
         IN r \in Batch /\ r.start = x /\ (peer # "partial" => r \in FullBatch)
<1> DEFINE replies == Arrived(sent)
<1>1. sent \in Seq(Batch) /\ (peer # "partial" => sent \in Seq(FullBatch))
  <2>1. <<x>> \in Seq(Int) OBVIOUS
  <2> QED BY <2>1, RepliesType
<1>2. unread \in Seq(FullBatch) /\ unread \in Seq(Batch)
  <2>1. unread \in Seq(FullBatch) BY DEF TypesHold
  <2>2. \A b \in FullBatch : b \in Batch BY DEF FullBatch
  <2>3. \A i \in 1 .. Len(unread) : unread[i] \in Batch BY <2>1, <2>2
  <2> QED BY <2>1, <2>3
<1>3. replies \in Seq(Batch) /\ (peer # "partial" => replies \in Seq(FullBatch)) BY <1>1, <1>2 DEF Arrived
<1>4. replies # << >> /\ ~IsProtocolError(<<x>>, replies) OBVIOUS
<1> HIDE DEF replies
<1>5. 1 \in DOMAIN replies /\ Head(replies) = replies[1] BY <1>3, <1>4
<1>6. replies[1].start \in ToSet(<<x>>) BY <1>4, <1>5 DEF IsProtocolError
<1>7. replies[1].start = x BY <1>6 DEF ToSet
<1> QED BY <1>3, <1>5, <1>7 DEF replies

LEMMA TakeBatchKeeps ==
  ASSUME PeersInv, InRequest, UNCHANGED <<health, loop>>, unread' = << >>,
         NEW r \in Batch, r.start = work.at, peer # "partial" => r \in FullBatch,
         \/ IsEmpty(r) /\ TakeNothing
         \/ ~IsEmpty(r) /\ TakeBatch(r)
  PROVE  PeersInv' /\ pc' # "failed"
<1>1. work \in Work BY DEF PeersInv, TypesHold
<1>2. work.at \in Int /\ work.size \in Nat \ {0} BY <1>1 DEF Work
<1>3. pc = "sequential" /\ work.at <= LeavesAt[work.target] BY DEF InRequest
<1>4. pc' = pc /\ UNCHANGED <<pool, call>> BY DEF TakeNothing, TakeBatch
<1>5. CASE IsEmpty(r) /\ TakeNothing
  <2>1. PassOver /\ work' = [work EXCEPT !.at = @ + 1, !.tries = 0, !.throttles = 0]
    BY <1>5 DEF TakeNothing
  <2>2. work' \in Work /\ work'.at = work.at + 1 /\ work'.target = work.target
    <3>1. work.at + 1 \in Int BY <1>2
    <3> QED BY <1>1, <2>1, <3>1 DEF Work
  <2>3. NoLeafSkipped' /\ sync' \in Sync BY <1>3, <1>5, <2>1, <2>2, PassOverCovers
  <2> QED BY <1>3, <1>4, <2>2, <2>3, ServingKeeps DEF Serving, DeliveryHolds
<1>6. CASE ~IsEmpty(r) /\ TakeBatch(r)
  <2>1. /\ Scan(r)
        /\ work' = [work EXCEPT !.at = r.last + 1, !.tries = 0, !.throttles = 0,
                      !.size = Max1(Min2(2 * @, BatchSize))]
    BY <1>6 DEF TakeBatch
  <2>2. Max1(Min2(2 * work.size, BatchSize)) \in Nat \ {0} BY <1>2, PeersAssumption DEF Max1, Min2
  <2>3. work' \in Work /\ work'.at = r.last + 1 /\ work'.target = work.target
    <3>1. r.last + 1 \in Int BY DEF Batch
    <3> QED BY <1>1, <2>1, <2>2, <3>1 DEF Work
  <2>4. NoLeafSkipped' /\ sync' \in Sync BY <1>3, <1>6, <2>1, <2>3, ScanCovers
  <2> QED BY <1>3, <1>4, <2>3, <2>4, ServingKeeps DEF Serving, DeliveryHolds
<1> QED BY <1>5, <1>6

(* The position, the cursor and what was scanned stay as they are. *)
LEMMA StandingKeeps ==
  ASSUME PeersInv, pc = "sequential", UNCHANGED <<health, pool, call, pc, sync, scanned, withheld, loop>>,
         work' \in Work, work'.at = work.at, work'.target = work.target,
         unread' = << >> \/ unread' = unread
  PROVE  PeersInv' /\ pc' # "failed"
<1>1. TypesHold /\ NoLeafSkipped BY DEF PeersInv
<1>2. sync' \in Sync /\ unread' \in Seq(FullBatch)
  <2>1. sync \in Sync /\ unread \in Seq(FullBatch) BY <1>1 DEF TypesHold
  <2>2. CASE unread' = << >> BY <2>1, <2>2
  <2>3. CASE unread' = unread BY <2>1, <2>3
  <2> QED BY <2>2, <2>3
<1>3. NoLeafSkipped' /\ DeliveryHolds' BY <1>1 DEF NoLeafSkipped, Covered, DeliveryHolds
<1>4. pc \in Serving /\ pc' \in Serving /\ pc' # "failed" BY DEF Serving
<1> QED BY <1>2, <1>3, <1>4, ServingKeeps

LEMMA ReceiveKeeps ==
  ASSUME PeersInv, Receive
  PROVE  /\ PeersInv'
         /\ pc' = "failed" => \A i \in DOMAIN pool.addrs : health[pool.addrs[i]] # "good"
<1>1. TypesHold /\ work \in Work /\ work.at \in Int /\ work.size \in Int BY DEF PeersInv, TypesHold, Work
<1>2. PICK sent \in Replies(<<work.at>>, work.size) :
        LET r == Head(Arrived(sent))
        IN CASE IsProtocolError(<<work.at>>, Arrived(sent)) ->
                 EndAttempt("protocol") /\ UNCHANGED <<work, sync, scanned, withheld>>
            [] Arrived(sent) = << >> ->
                 IF work.throttles + 1 = MAX_CONSECUTIVE_THROTTLED_ROUNDS
                 THEN EndAttempt("throttled") /\ UNCHANGED <<work, sync, scanned, withheld>>
                 ELSE /\ work' = [work EXCEPT !.throttles = @ + 1]
                      /\ UNCHANGED <<pool, call, pc, sync, scanned, withheld>>
            [] OTHER ->
                 \/ IsEmpty(r) /\ TakeNothing
                 \/ ~IsEmpty(r) /\ peer # "bad" /\ TakeBatch(r)
                 \/ ~IsEmpty(r) /\ work.size > 1 /\ Shrink
                 \/ /\ ~IsEmpty(r) /\ peer = "bad" /\ work.size = 1
                    /\ EndAttempt("proof") /\ UNCHANGED <<work, sync, scanned, withheld>>
  BY DEF Receive
<1>3. InRequest /\ unread' = << >> /\ UNCHANGED <<health, loop>> BY DEF Receive
<1>4. pc = "sequential" /\ pc \in Serving /\ unread' \in Seq(FullBatch) BY <1>3 DEF InRequest, Serving
<1>5. /\ IsProtocolError(<<work.at>>, Arrived(sent)) => Justified("protocol")
      /\ Arrived(sent) = << >> => Justified("throttled")
  BY <1>1, <1>2, <1>4, ReceiveReasons
<1> DEFINE r == Head(Arrived(sent))
           isReply == Arrived(sent) # << >> /\ ~IsProtocolError(<<work.at>>, Arrived(sent))
<1>6. \/ /\ IsProtocolError(<<work.at>>, Arrived(sent))
         /\ EndAttempt("protocol") /\ UNCHANGED <<work, sync, scanned, withheld>>
      \/ /\ Arrived(sent) = << >>
         /\ EndAttempt("throttled") /\ UNCHANGED <<work, sync, scanned, withheld>>
      \/ /\ work' = [work EXCEPT !.throttles = @ + 1]
         /\ UNCHANGED <<pool, call, pc, sync, scanned, withheld>>
      \/ isReply /\ ((IsEmpty(r) /\ TakeNothing) \/ (~IsEmpty(r) /\ TakeBatch(r)))
      \/ Shrink
      \/ peer = "bad" /\ EndAttempt("proof") /\ UNCHANGED <<work, sync, scanned, withheld>>
  BY <1>2
<1>7. CASE /\ IsProtocolError(<<work.at>>, Arrived(sent))
           /\ EndAttempt("protocol") /\ UNCHANGED <<work, sync, scanned, withheld>>
  BY <1>1, <1>3, <1>4, <1>5, <1>7, EndAttemptKeeps
<1>8. CASE /\ Arrived(sent) = << >>
           /\ EndAttempt("throttled") /\ UNCHANGED <<work, sync, scanned, withheld>>
  BY <1>1, <1>3, <1>4, <1>5, <1>8, EndAttemptKeeps
<1>9. CASE /\ work' = [work EXCEPT !.throttles = @ + 1]
           /\ UNCHANGED <<pool, call, pc, sync, scanned, withheld>>
  <2>0. work.throttles + 1 \in Nat BY <1>1 DEF Work
  <2>1. work' \in Work /\ work'.at = work.at /\ work'.target = work.target BY <1>1, <1>9, <2>0 DEF Work
  <2> QED BY <1>3, <1>4, <1>9, <2>1, StandingKeeps
<1>10. CASE isReply /\ ((IsEmpty(r) /\ TakeNothing) \/ (~IsEmpty(r) /\ TakeBatch(r)))
  <2>1. r \in Batch /\ r.start = work.at /\ (peer # "partial" => r \in FullBatch)
    BY <1>1, <1>2, <1>10, ReplyFacts
  <2> HIDE DEF r
  <2> QED BY <1>3, <1>10, <2>1, TakeBatchKeeps
<1>11. CASE Shrink
  <2>1. Max1(work.size \div 2) \in Nat \ {0}
    <3>1. work.size \in Nat BY <1>1 DEF Work
    <3>2. work.size \div 2 \in Nat BY <3>1
    <3> QED BY <3>2 DEF Max1
  <2>2. work' \in Work /\ work'.at = work.at /\ work'.target = work.target BY <1>1, <1>11, <2>1 DEF Shrink, Work
  <2>3. UNCHANGED <<pool, call, pc, sync, scanned, withheld>> BY <1>11 DEF Shrink
  <2> QED BY <1>3, <1>4, <2>2, <2>3, StandingKeeps
<1>12. CASE peer = "bad" /\ EndAttempt("proof") /\ UNCHANGED <<work, sync, scanned, withheld>>
  <2>1. Justified("proof") BY <1>12 DEF Justified, IsBanworthy
  <2> QED BY <1>1, <1>3, <1>4, <1>12, <2>1, EndAttemptKeeps
<1> QED BY <1>6, <1>7, <1>8, <1>9, <1>10, <1>11, <1>12

LEMMA BreakKeeps ==
  ASSUME PeersInv, Break
  PROVE  /\ PeersInv'
         /\ pc' = "failed" => \A i \in DOMAIN pool.addrs : health[pool.addrs[i]] # "good"
<1>1. TypesHold /\ work \in Work BY DEF PeersInv, TypesHold
<1>2. InRequest /\ peer = "flaky" /\ UNCHANGED <<health, sync, scanned, withheld, loop>> BY DEF Break
<1>3. pc = "sequential" /\ pc \in Serving BY <1>2 DEF InRequest, Serving
<1>4. CASE /\ work' = [work EXCEPT !.tries = @ + 1, !.throttles = 0]
           /\ \E kept \in {<< >>, unread} : unread' = kept
           /\ UNCHANGED <<call, pool, pc>>
  <2>0. work.tries + 1 \in Nat BY <1>1 DEF Work
  <2>1. work' \in Work /\ work'.at = work.at /\ work'.target = work.target BY <1>1, <1>4, <2>0 DEF Work
  <2> QED BY <1>2, <1>3, <1>4, <2>1, StandingKeeps
<1>5. CASE EndAttempt("transport") /\ unread' = << >> /\ UNCHANGED work
  <2>1. Justified("transport") BY <1>2 DEF Justified, IsBanworthy
  <2>2. unread' \in Seq(FullBatch) BY <1>5
  <2> QED BY <1>1, <1>2, <1>3, <1>5, <2>1, <2>2, EndAttemptKeeps
<1> QED BY <1>4, <1>5 DEF Break

-----------------------------------------------------------------------------
(* The pipelined download. *)

LEMMA CutType ==
  ASSUME NEW X, NEW s \in Seq(X), NEW m \in Nat \ {0}, NEW n \in Nat, n <= Len(s)
  PROVE  SubSeq(s, m, n) \in Seq(X)
OBVIOUS

LEMMA LeavePipelineFacts ==
  ASSUME work \in Work, NEW left \in Seq(FullBatch), LeavePipeline(left)
  PROVE  /\ work' \in Work /\ work'.at = work.at /\ work'.target = work.target /\ pc' = "sequential"
         /\ unread' \in Seq(FullBatch) /\ (unread' # << >> => peer = "flaky")
<1>1. work' = [work EXCEPT !.pending = << >>, !.served = << >>] /\ pc' = "sequential" BY DEF LeavePipeline
<1>2. << >> \in Seq(Int) /\ << >> \in Seq(Batch) /\ << >> \in Seq(FullBatch) OBVIOUS
<1>3. work' \in Work /\ work'.at = work.at /\ work'.target = work.target BY <1>1, <1>2 DEF Work
<1>4. unread' = << >> \/ (peer = "flaky" /\ unread' = left) BY DEF LeavePipeline
<1>5. unread' \in Seq(FullBatch) /\ (unread' # << >> => peer = "flaky") BY <1>2, <1>4
<1> QED BY <1>1, <1>3, <1>5

(* The position stays, whatever a round brings. *)
Rounded ==
  /\ work' \in Work /\ work'.at = work.at /\ work'.target = work.target
  /\ pc' \in {"pipeline", "deliver", "sequential"}
  /\ pc' = "deliver" => /\ work'.served # << >>
                        /\ peer # "partial" => work'.served \in Seq(FullBatch)
  /\ unread' \in Seq(FullBatch) /\ (unread' # << >> => peer = "flaky")

LEMMA RoundFacts ==
  ASSUME TypesHold, NEW round \in Seq(Int), NEW rest \in Seq(Int), pc = "pipeline",
         NEW sent \in Replies(round, BatchSize),
         LET replies == unread \o sent
             served == Served(round, replies)
             unserved == Unserved(round, replies)
         IN \/ IF IsProtocolError(round, replies) THEN LeavePipeline(<< >>)
               ELSE IF served # << >>
               THEN /\ work' = [work EXCEPT !.served = served, !.pending = unserved \o rest, !.stalled = 0,
                                  !.window = IF unserved = << >> THEN Max1(Min2(2 * @, MWEB_SERVE_BURST))
                                             ELSE Len(served)]
                    /\ pc' = "deliver" /\ unread' = << >>
               ELSE IF work.stalled + 1 = MAX_CONSECUTIVE_THROTTLED_ROUNDS THEN LeavePipeline(<< >>)
               ELSE /\ work' = [work EXCEPT !.stalled = @ + 1, !.window = 1]
                    /\ unread' = << >> /\ UNCHANGED pc
            \/ /\ peer = "flaky"
               /\ \E n \in 0 .. Len(sent) : LeavePipeline(SubSeq(sent, 1, n))
  PROVE  Rounded
<1> DEFINE replies == unread \o sent
           served == Served(round, replies)
           unserved == Unserved(round, replies)
<1>1. work \in Work /\ unread \in Seq(FullBatch) /\ BatchSize \in Int /\ MWEB_SERVE_BURST \in Int
      /\ work.window \in Int /\ work.stalled \in Nat
  BY PeersAssumption DEF TypesHold, Work
<1>2. sent \in Seq(Batch) /\ (peer # "partial" => sent \in Seq(FullBatch)) BY <1>1, RepliesType
<1>3. replies \in Seq(Batch) /\ (peer # "partial" => replies \in Seq(FullBatch))
  <2>1. unread \in Seq(Batch)
    <3>1. unread \in Seq(FullBatch) BY <1>1
    <3>2. \A b \in FullBatch : b \in Batch BY DEF FullBatch
    <3>3. \A i \in 1 .. Len(unread) : unread[i] \in Batch BY <3>1, <3>2
    <3> QED BY <3>1, <3>3
  <2> QED BY <1>1, <1>2, <2>1
<1> HIDE DEF replies
<1>4. /\ served \in Seq(Batch) /\ unserved \in Seq(Int)
      /\ peer # "partial" => served \in Seq(FullBatch)
  BY <1>3, ServedType
<1> HIDE DEF served, unserved
<1>5. << >> \in Seq(FullBatch) OBVIOUS
<1>6. CASE LeavePipeline(<< >>) BY <1>1, <1>5, <1>6, LeavePipelineFacts DEF Rounded
<1>7. CASE /\ served # << >>
           /\ work' = [work EXCEPT !.served = served, !.pending = unserved \o rest, !.stalled = 0,
                         !.window = IF unserved = << >> THEN Max1(Min2(2 * @, MWEB_SERVE_BURST))
                                    ELSE Len(served)]
           /\ pc' = "deliver" /\ unread' = << >>
  <2>1. Max1(Min2(2 * work.window, MWEB_SERVE_BURST)) \in Int /\ Len(served) \in Int
    BY <1>1, <1>4 DEF Max1, Min2
  <2>2. unserved \o rest \in Seq(Int) BY <1>4
  <2>3. /\ work' \in Work /\ work'.at = work.at /\ work'.target = work.target
        /\ work'.served = served
    BY <1>1, <1>4, <1>7, <2>1, <2>2 DEF Work
  <2> QED BY <1>4, <1>5, <1>7, <2>3 DEF Rounded
<1>8. CASE /\ work' = [work EXCEPT !.stalled = @ + 1, !.window = 1]
           /\ unread' = << >> /\ UNCHANGED pc
  <2>1. work.stalled + 1 \in Nat /\ 1 \in Int BY <1>1
  <2>2. work' \in Work /\ work'.at = work.at /\ work'.target = work.target BY <1>1, <1>8, <2>1 DEF Work
  <2> QED BY <1>5, <1>8, <2>2 DEF Rounded
<1>9. ASSUME peer = "flaky", NEW n \in 0 .. Len(sent), LeavePipeline(SubSeq(sent, 1, n))
      PROVE  Rounded
  <2>1. sent \in Seq(FullBatch) BY <1>2, <1>9
  <2>2. SubSeq(sent, 1, n) \in Seq(FullBatch)
    <3>1. n \in Nat /\ n <= Len(sent) BY <1>9, <2>1
    <3> QED BY <2>1, <3>1, CutType
  <2> QED BY <1>1, <1>9, <2>2, LeavePipelineFacts DEF Rounded
<1> QED BY <1>6, <1>7, <1>8, <1>9 DEF served, unserved, replies

LEMMA PipelineKeeps ==
  ASSUME PeersInv, PipelineRound
  PROVE  PeersInv' /\ pc' # "failed"
<1> DEFINE width == Min2(Max1(Min2(work.window, MWEB_SERVE_BURST)), Len(work.pending))
           round == SubSeq(work.pending, 1, width)
           rest == SubSeq(work.pending, width + 1, Len(work.pending))
<1>1. TypesHold /\ NoLeafSkipped BY DEF PeersInv
<1>2. /\ work.pending \in Seq(Int) /\ Len(work.pending) \in Nat
      /\ work.window \in Int /\ MWEB_SERVE_BURST \in Nat /\ sync \in Sync
  BY <1>1, PeersAssumption DEF TypesHold, Work
<1>3. width \in Nat /\ width <= Len(work.pending) BY <1>2 DEF Min2, Max1
<1>4. pc = "pipeline" /\ pc \in Serving
      /\ UNCHANGED <<health, pool, call, sync, scanned, withheld, loop>>
  BY DEF PipelineRound, Serving
<1>5. Rounded
  <2> HIDE DEF width
  <2>1. round \in Seq(Int) BY <1>2, <1>3, CutType
  <2>2. rest \in Seq(Int)
    <3>1. width + 1 \in Nat \ {0} BY <1>3
    <3> QED BY <1>2, <3>1, CutType
  <2> HIDE DEF round, rest
  <2> QED BY <1>1, <1>4, <2>1, <2>2, RoundFacts DEF PipelineRound, round, rest, width
<1>6. NoLeafSkipped' BY <1>1, <1>4, <1>5 DEF NoLeafSkipped, Covered, Rounded
<1>7. DeliveryHolds'
  <2>1. ASSUME pc' = "deliver" PROVE work'.served # << >> BY <1>5, <2>1 DEF Rounded
  <2>2. ASSUME pc' = "deliver", peer' # "partial" PROVE work'.served \in Seq(FullBatch)
    <3>1. peer # "partial" BY <1>4, <2>2 DEF peer
    <3> QED BY <1>5, <2>2, <3>1 DEF Rounded
  <2> QED BY <2>1, <2>2 DEF DeliveryHolds
<1>8. pc' \in Serving /\ pc' # "failed" BY <1>5 DEF Rounded, Serving
<1> QED BY <1>2, <1>4, <1>5, <1>6, <1>7, <1>8, ServingKeeps DEF Rounded

LEMMA DeliveredFacts ==
  ASSUME TypesHold, work.served # << >>, peer # "partial" => work.served \in Seq(FullBatch),
         NEW at \in Int, Delivered(at)
  PROVE  /\ work' \in Work /\ work'.at = at /\ work'.target = work.target /\ unread' = unread
         /\ pc' \in {"pipeline", "deliver", "sequential"}
         /\ pc' = "deliver" => /\ work'.served # << >>
                               /\ peer # "partial" => work'.served \in Seq(FullBatch)
<1>1. work \in Work /\ work.served \in Seq(Batch) BY DEF TypesHold, Work
<1>2. /\ work' = [work EXCEPT !.at = at, !.served = Tail(@)] /\ unread' = unread
      /\ pc' = IF Len(work.served) > 1 THEN "deliver"
               ELSE IF work.pending = << >> THEN "sequential" ELSE "pipeline"
  BY DEF Delivered
<1>3. /\ Tail(work.served) \in Seq(Batch) /\ Len(Tail(work.served)) = Len(work.served) - 1
      /\ peer # "partial" => Tail(work.served) \in Seq(FullBatch)
  BY <1>1
<1>4. Len(work.served) > 1 => Tail(work.served) # << >> BY <1>1, TailIsLeft
<1>5. work' \in Work /\ work'.at = at /\ work'.target = work.target /\ work'.served = Tail(work.served)
  BY <1>1, <1>2, <1>3 DEF Work
<1> QED BY <1>2, <1>3, <1>4, <1>5

LEMMA OnBatchKeeps ==
  ASSUME PeersInv, OnBatch
  PROVE  PeersInv' /\ pc' # "failed"
<1> DEFINE r == Head(work.served)
<1>1. TypesHold /\ NoLeafSkipped BY DEF PeersInv
<1>2. pc = "deliver" /\ pc \in Serving /\ UNCHANGED <<health, pool, call, loop>> BY DEF OnBatch, Serving
<1>3. work.served # << >> /\ (peer # "partial" => work.served \in Seq(FullBatch))
  BY <1>2 DEF PeersInv, DeliveryHolds
<1>4. /\ work \in Work /\ work.at \in Int /\ sync \in Sync /\ unread \in Seq(FullBatch)
      /\ work.served \in Seq(Batch)
  BY <1>1 DEF TypesHold, Work
<1>5. r \in Batch /\ (peer # "partial" => r \in FullBatch) BY <1>3, <1>4
<1>6. /\ work' \in Work /\ pc' \in {"pipeline", "deliver", "sequential"}
      /\ unread' \in Seq(FullBatch) /\ (unread' # << >> => unread # << >> \/ peer = "flaky")
      /\ pc' = "deliver" => /\ work'.served # << >>
                            /\ peer # "partial" => work'.served \in Seq(FullBatch)
      /\ NoLeafSkipped' /\ sync' \in Sync
  <2> HIDE DEF r
  <2>1. CASE IsEmpty(r) /\ PassOver /\ Delivered(work.at + 1)
    <3>1. work.at + 1 \in Int BY <1>4
    <3>2. /\ work' \in Work /\ work'.at = work.at + 1 /\ work'.target = work.target /\ unread' = unread
          /\ pc' \in {"pipeline", "deliver", "sequential"}
          /\ pc' = "deliver" => /\ work'.served # << >>
                                /\ peer # "partial" => work'.served \in Seq(FullBatch)
      BY <1>1, <1>3, <2>1, <3>1, DeliveredFacts
    <3>3. NoLeafSkipped' /\ sync' \in Sync BY <1>2, <1>5, <2>1, <3>2, PassOverCovers
    <3> QED BY <1>4, <3>2, <3>3
  <2>2. CASE ~IsEmpty(r) /\ peer # "bad" /\ IsNext(r) /\ Scan(r) /\ Delivered(r.last + 1)
    <3>1. r.last + 1 \in Int BY <1>5 DEF Batch
    <3>2. /\ work' \in Work /\ work'.at = r.last + 1 /\ work'.target = work.target /\ unread' = unread
          /\ pc' \in {"pipeline", "deliver", "sequential"}
          /\ pc' = "deliver" => /\ work'.served # << >>
                                /\ peer # "partial" => work'.served \in Seq(FullBatch)
      BY <1>1, <1>3, <2>2, <3>1, DeliveredFacts
    <3>3. work.at <= LeavesAt[work.target] /\ r.start = work.at BY <2>2 DEF IsNext
    <3>4. NoLeafSkipped' /\ sync' \in Sync BY <1>2, <1>5, <2>2, <3>2, <3>3, ScanCovers
    <3> QED BY <1>4, <3>2, <3>4
  <2>3. CASE ~IsEmpty(r) /\ LeavePipeline(<< >>) /\ UNCHANGED <<sync, scanned, withheld>>
    <3>1. << >> \in Seq(FullBatch) OBVIOUS
    <3>2. /\ work' \in Work /\ work'.at = work.at /\ work'.target = work.target /\ pc' = "sequential"
          /\ unread' \in Seq(FullBatch) /\ (unread' # << >> => peer = "flaky")
      BY <1>4, <2>3, <3>1, LeavePipelineFacts
    <3>3. NoLeafSkipped' BY <1>1, <1>2, <2>3, <3>2 DEF NoLeafSkipped, Covered
    <3> QED BY <1>4, <2>3, <3>2, <3>3
  <2> QED BY <2>1, <2>2, <2>3 DEF OnBatch, r
<1>7. DeliveryHolds'
  <2>1. ASSUME pc' = "deliver" PROVE work'.served # << >> BY <1>6, <2>1
  <2>2. ASSUME pc' = "deliver", peer' # "partial" PROVE work'.served \in Seq(FullBatch)
    <3>1. peer # "partial" BY <1>2, <2>2 DEF peer
    <3> QED BY <1>6, <2>2, <3>1
  <2> QED BY <2>1, <2>2 DEF DeliveryHolds
<1>8. pc' \in Serving /\ pc' # "failed" BY <1>6 DEF Serving
<1> QED BY <1>2, <1>6, <1>7, <1>8, ServingKeeps

-----------------------------------------------------------------------------
LEMMA PeersInit == Init => PeersInv
<1> SUFFICES ASSUME Init PROVE PeersInv OBVIOUS
<1>1. /\ health \in Healths /\ pool = NewPool(Addresses)
      /\ call = [attempt |-> 1, scanned |-> 0]
      /\ pc = "idle" /\ unread = << >> /\ work = NoWork
      /\ sync = [synced |-> 0, cursor |-> None, pending_tip |-> None]
      /\ scanned = {} /\ withheld = {} /\ loop = [tip |-> 1, polled |-> 1, before |-> 0]
  BY DEF Init
<1>2. pc \notin Serving \cup {"connect", "pipeline", "deliver", "sequential"} BY <1>1 DEF Serving
<1>3. TypesHold
  <2>1. pool \in Pool /\ (Len(pool.addrs) > 0 => pool.next < Len(pool.addrs))
    BY <1>1, PeersAssumption DEF NewPool, Pool
  <2>2. sync \in Sync /\ loop \in [tip : 1 .. MaxTip, polled : Nat, before : Nat]
    <3>1. MaxTip \in Nat \ {0} BY PeersAssumption
    <3>2. 0 \in 0 .. MaxTip /\ 1 \in 1 .. MaxTip BY <3>1
    <3> QED BY <1>1, <3>2 DEF Sync
  <2>3. health \in [Peer -> {"good", "busy", "flaky", "bad", "dead", "partial"}]
    BY <1>1, PeersAssumption
  <2>4. call \in [attempt : Nat \ {0}, scanned : Nat] /\ unread \in Seq(FullBatch) BY <1>1
  <2> QED BY <1>1, <1>2, <2>1, <2>2, <2>3, <2>4, NoWorkType DEF TypesHold
<1>4. NoLeafSkipped
  <2>1. LeavesAt[0] = 0 /\ 1 .. 0 = {} BY PeersAssumption
  <2> QED BY <1>1, <1>2, <2>1 DEF NoLeafSkipped, Covered
<1>5. BansHold /\ DeliveryHolds BY <1>1, <1>2 DEF BansHold, BansAreDeserved, DeliveryHolds, NewPool
<1>6. FailoverHolds BY <1>2 DEF FailoverHolds
<1> QED BY <1>3, <1>4, <1>5, <1>6 DEF PeersInv

LEMMA PeersStutter ==
  ASSUME PeersInv, UNCHANGED vars
  PROVE  PeersInv'
<1>1. UNCHANGED <<health, pool, call, pc, unread, work, sync, scanned, withheld, loop>> BY DEF vars
<1>2. TypesHold' BY <1>1 DEF PeersInv, TypesHold
<1>3. NoLeafSkipped' BY <1>1 DEF PeersInv, NoLeafSkipped, Covered
<1>4. BansHold' /\ DeliveryHolds' BY <1>1 DEF PeersInv, BansHold, BansAreDeserved, DeliveryHolds, peer
<1>5. FailoverHolds' BY <1>1 DEF PeersInv, FailoverHolds, Before
<1> QED BY <1>2, <1>3, <1>4, <1>5 DEF PeersInv

(* A step keeps the invariant, and fails only when no peer of the pool serves. *)
LEMMA PeersStep ==
  ASSUME PeersInv, Next
  PROVE  /\ PeersInv'
         /\ pc # "failed" /\ pc' = "failed" =>
              \A i \in DOMAIN pool.addrs : health[pool.addrs[i]] # "good"
<1>1. CASE NewBlock
  <2>1. pc' = pc BY <1>1 DEF NewBlock
  <2> QED BY <1>1, <2>1, NewBlockKeeps
<1>2. CASE FinishPass \/ Poll \/ Rediscover
  <2>1. pc' # "failed" BY <1>2 DEF FinishPass, Poll, Rediscover
  <2> QED BY <1>2, <2>1, TipLoopKeeps
<1>3. CASE StartPass
  <2>1. pc' # "failed" BY <1>3 DEF StartPass
  <2> QED BY <1>3, <2>1, StartPassKeeps
<1>4. CASE BanExpires
  <2>1. pc' = pc BY <1>4 DEF BanExpires
  <2> QED BY <1>4, <2>1, BanExpiresKeeps
<1>5. CASE NoPeerLeft BY <1>5, NoPeerLeftKeeps
<1>6. CASE Connect
  <2>1. pc' # "failed" BY <1>6, ConnectFacts DEF PeersInv
  <2> QED BY <1>6, <2>1, ConnectKeeps
<1>7. CASE Start BY <1>7, StartKeeps
<1>8. CASE PipelineRound BY <1>8, PipelineKeeps
<1>9. CASE Receive BY <1>9, ReceiveKeeps
<1>10. CASE Break BY <1>10, BreakKeeps
<1>11. CASE OnBatch BY <1>11, OnBatchKeeps
<1> QED BY <1>1, <1>2, <1>3, <1>4, <1>5, <1>6, <1>7, <1>8, <1>9, <1>10, <1>11 DEF Next, Step

(* The types, the leaves, the bans and the addresses looked at of the tip loop *)
(* (mweb_sync.rs, lip0006_tcp.rs) are as PeersInv says at every moment.        *)
THEOREM AlwaysPeersInv == Spec => []PeersInv
<1>1. PeersInv /\ [Next]_vars => PeersInv' BY PeersStep, PeersStutter
<1> QED BY PeersInit, <1>1, PTL DEF Spec

(* NoLeafSkipped: whatever peers drop, break off or leave on the socket, and  *)
(* wherever a pass resumes, run_once passes over no leaf but for an empty     *)
(* batch or one that begins late, and over none at all among peers that       *)
(* answer in full.                                                            *)
THEOREM AlwaysNoLeafSkipped == Spec => []NoLeafSkipped
<1>1. PeersInv => NoLeafSkipped BY DEF PeersInv
<1> QED BY AlwaysPeersInv, <1>1, PTL

(* BansAreDeserved: PeerPool bans no peer that serves or only limits its rate. *)
THEOREM AlwaysBansAreDeserved == Spec => []BansAreDeserved
<1>1. PeersInv => BansAreDeserved BY DEF PeersInv, BansHold
<1> QED BY AlwaysPeersInv, <1>1, PTL

(* FailoverFindsGoodPeer: with_failover gives up only if no peer of the pool  *)
(* always serves, for every pool, rotation and set of bans.                   *)
THEOREM FailoverIsExhaustive == Spec => FailoverFindsGoodPeer
<1>1. PeersInv /\ [Next]_vars =>
        [pc # "failed" /\ pc' = "failed"
           => \A i \in DOMAIN pool.addrs : health[pool.addrs[i]] # "good"]_vars
  BY PeersStep
<1> QED BY AlwaysPeersInv, <1>1, PTL DEF Spec, FailoverFindsGoodPeer
=============================================================================
