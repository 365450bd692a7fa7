----------------------------- MODULE MwebPeers -----------------------------
(***************************************************************************)
(* Following the tip over unreliable peers (crates/mweb): the crawl that   *)
(* finds peers (discovery.rs), the pool that rotates and bans them and the *)
(* tip loop around it (mweb_sync.rs), and below them the requests of one   *)
(* connection (lip0006_tcp.rs): a pipelined download in rounds of several  *)
(* requests, and after it the sequential one.  The chain only grows and no *)
(* output is spent, so the leaves to fetch are 1 .. LeavesAt[tip]; which   *)
(* coins they hold is the matter of MwebSync.  A round is one step: the    *)
(* requests, the ping behind them, and what arrives before the pong; every *)
(* batch of it is then one call of on_batch.  A reply names the start it   *)
(* was asked for and the leaves it holds, which nothing obliges to begin   *)
(* there or to be as many as were asked for; first is None in an empty one. *)
(***************************************************************************)
EXTENDS Integers, Sequences, FiniteSets, SequencesExt, Subsequences

CONSTANTS
  Addresses,         \* the addresses the pool starts with
  Healths,           \* functions that give each peer its behaviour
  WANT_PEERS,        \* peers a crawl keeps
  MWEB_SERVE_BURST,  \* requests of one round at most
  MAX_CONSECUTIVE_THROTTLED_ROUNDS,
  MAX_ATTEMPTS,      \* tries of a request over reconnections
  BatchSize,         \* effective_batch_size
  LeavesAt,          \* leaves of the output set at each height
  MaxTip,            \* bound on the heights
  None

VARIABLES
  health,   \* "good", "busy" (drops requests), "flaky" (connections break),
            \* "bad" (answers fail verification), "dead", or "partial" (answers
            \* verify, and are empty, begin late, or end early or late)
  pool,     \* PeerPool: [addrs, next, banned, last_connected]
  call,     \* with_failover: [attempt, scanned], the addresses connect_next looked at
  pc,       \* where the tip loop stands
  unread,   \* replies left on the socket by a round that broke off
  work,     \* locals of run_once and of the request under way
  sync,     \* SyncState: [synced, cursor, pending_tip]
  scanned,  \* leaves whose outputs were verified and scanned
  withheld, \* history: leaves passed over, as a batch was empty or began late
  loop      \* [tip, polled, before]: the chain, the notifier, and tip_before

vars == <<health, pool, call, pc, unread, work, sync, scanned, withheld, loop>>

Running == {"connect", "start", "pipeline", "deliver", "sequential"}

Peer == ToSet(Addresses)

ASSUME PeersAssumption ==
  /\ Addresses \in Seq(Peer) /\ None \notin Int
  /\ Healths \subseteq [Peer -> {"good", "busy", "flaky", "bad", "dead", "partial"}]
  /\ WANT_PEERS \in Nat /\ MWEB_SERVE_BURST \in Nat /\ BatchSize \in Nat \ {0}
  /\ MaxTip \in Nat \ {0} /\ LeavesAt \in [0 .. MaxTip -> Nat] /\ LeavesAt[0] = 0

NoWork == [target |-> 0, at |-> 1, pending |-> << >>, served |-> << >>, window |-> MWEB_SERVE_BURST,
           stalled |-> 0, size |-> BatchSize, tries |-> 0, throttles |-> 0]

(* crawl: the probes answer in any order; a peer that does not complete the  *)
(* handshake is left out.                                                    *)
Crawl == {s \in UNION {[1 .. n -> Peer] : n \in 0 .. WANT_PEERS} :
            IsInjective(s) /\ \A i \in DOMAIN s : health[s[i]] # "dead"}

NewPool(addrs) == [addrs |-> addrs, next |-> 0, banned |-> {}, last_connected |-> None]

Init ==
  /\ health \in Healths
  /\ pool = NewPool(Addresses)
  /\ call = [attempt |-> 1, scanned |-> 0]
  /\ pc = "idle" /\ unread = << >> /\ work = NoWork
  /\ sync = [synced |-> 0, cursor |-> None, pending_tip |-> None]
  /\ scanned = {} /\ withheld = {}
  /\ loop = [tip |-> 1, polled |-> 1, before |-> 0]

-----------------------------------------------------------------------------
(* The tip loop. *)

NewBlock ==
  /\ loop.tip < MaxTip
  /\ loop' = [loop EXCEPT !.tip = @ + 1]
  /\ UNCHANGED <<health, pool, call, pc, unread, work, sync, scanned, withheld>>

(* run_loop_with_pool: the notifier's height is read before the pass. *)
StartPass ==
  /\ pc = "idle"
  /\ loop' = [loop EXCEPT !.before = loop.polled]
  /\ call' = [attempt |-> 1, scanned |-> 0]
  /\ pc' = "connect"
  /\ UNCHANGED <<health, pool, unread, work, sync, scanned, withheld>>

(* Faulty variant: the pass waits for a tip above the one it finds at its end. *)
FinishPassLate ==
  /\ pc = "sequential" /\ work.at > LeavesAt[work.target]
  /\ sync' = [synced |-> work.target, cursor |-> None, pending_tip |-> None]
  /\ \E stop \in BOOLEAN : pc' = IF stop THEN "stopped" ELSE "waiting"
  /\ loop' = [loop EXCEPT !.before = loop.tip]
  /\ work' = NoWork
  /\ UNCHANGED <<health, pool, call, unread, scanned, withheld>>

FinishPass ==
  /\ pc = "sequential" /\ work.at > LeavesAt[work.target]
  /\ sync' = [synced |-> work.target, cursor |-> None, pending_tip |-> None]
  /\ \E stop \in BOOLEAN : pc' = IF stop THEN "stopped" ELSE "waiting"
  /\ work' = NoWork
  /\ UNCHANGED <<health, pool, call, unread, scanned, withheld, loop>>

(* PollingTipNotifier::wait_tip_changed, one poll. *)
Poll ==
  /\ pc = "waiting"
  /\ loop' = [loop EXCEPT !.polled = loop.tip]
  /\ pc' = IF loop.tip > loop.before THEN "idle" ELSE "waiting"
  /\ UNCHANGED <<health, pool, call, unread, work, sync, scanned, withheld>>

(* The loop returned an error: the application may discover peers again, out *)
(* of the cache or by another crawl, and run it anew.                        *)
Rediscover ==
  /\ pc \in {"failed", "aborted"}
  /\ \E addrs \in Crawl \cup {pool.addrs} : pool' = NewPool(addrs)
  /\ pc' = "idle"
  /\ UNCHANGED <<health, call, unread, work, sync, scanned, withheld, loop>>

-----------------------------------------------------------------------------
(* PeerPool *)

Ban(p, addr) == [p EXCEPT !.banned = @ \cup {addr}]

(* The end of an attempt of with_failover. *)
NextAttempt ==
  LET attempts == IF pool.addrs = << >> THEN 1 ELSE Len(pool.addrs)
  IN IF call.attempt = attempts THEN pc' = "failed" /\ UNCHANGED call
     ELSE pc' = "connect" /\ call' = [attempt |-> call.attempt + 1, scanned |-> 0]

(* A ban ends after ban_for, at any moment as far as the model can tell; it  *)
(* matters only when an address is chosen.                                   *)
BanExpires ==
  /\ pc = "connect"
  /\ \E addr \in pool.banned : pool' = [pool EXCEPT !.banned = @ \ {addr}]
  /\ UNCHANGED <<health, call, pc, unread, work, sync, scanned, withheld, loop>>

(* connect_next gives up: no address, or all of them skipped or unreachable. *)
NoPeerLeft ==
  /\ pc = "connect" /\ call.scanned = Len(pool.addrs)
  /\ NextAttempt
  /\ UNCHANGED <<health, pool, unread, work, sync, scanned, withheld, loop>>

(* Faulty variant: the next call looks at the same address first. *)
ConnectSame ==
  /\ pc = "connect" /\ call.scanned < Len(pool.addrs)
  /\ LET addr == pool.addrs[((pool.next + call.scanned) % Len(pool.addrs)) + 1]
         skipped == call' = [call EXCEPT !.scanned = @ + 1] /\ UNCHANGED <<pc, unread, work>>
     IN \/ addr \in pool.banned /\ skipped /\ UNCHANGED pool
        \/ /\ addr \notin pool.banned /\ health[addr] \in {"dead", "flaky"}
           /\ skipped /\ pool' = Ban(pool, addr)
        \/ /\ addr \notin pool.banned /\ health[addr] # "dead"
           /\ pool' = [pool EXCEPT !.last_connected = addr]
           /\ pc' = "start" /\ unread' = << >> /\ work' = NoWork /\ UNCHANGED call
  /\ UNCHANGED <<health, sync, scanned, withheld, loop>>

(* connect_next looks at one address; a handshake that fails bans it. *)
Connect ==
  /\ pc = "connect" /\ call.scanned < Len(pool.addrs)
  /\ LET addr == pool.addrs[(pool.next % Len(pool.addrs)) + 1]
         moved == [pool EXCEPT !.next = (@ + 1) % Len(pool.addrs)]
         skipped == call' = [call EXCEPT !.scanned = @ + 1] /\ UNCHANGED <<pc, unread, work>>
     IN \/ addr \in pool.banned /\ skipped /\ pool' = moved
        \/ /\ addr \notin pool.banned /\ health[addr] \in {"dead", "flaky"}
           /\ skipped /\ pool' = Ban(moved, addr)
        \/ /\ addr \notin pool.banned /\ health[addr] # "dead"
           /\ pool' = [moved EXCEPT !.last_connected = addr]
           /\ pc' = "start" /\ unread' = << >> /\ work' = NoWork /\ UNCHANGED call
  /\ UNCHANGED <<health, sync, scanned, withheld, loop>>

(* Faulty variant: a peer that limits its rate is banned like any other. *)
IsBanworthyThrottled(reason) == reason # "local"

IsBanworthy(reason) == reason \notin {"throttled", "local"}

(* What with_failover does with an error of run_once. *)
EndAttempt(reason) ==
  IF reason = "local" THEN pc' = "aborted" /\ UNCHANGED <<call, pool>>
  ELSE /\ NextAttempt
       /\ pool' = IF IsBanworthy(reason) THEN Ban(pool, pool.last_connected) ELSE pool

peer == health[pool.last_connected]

-----------------------------------------------------------------------------
(* run_once *)

(* The leaves after the cursor, if it belongs to this tip or to a first sync. *)
ResumeAt(target) ==
  IF sync.cursor # None /\ (sync.pending_tip = target \/ sync.synced = 0)
  THEN sync.cursor + 1 ELSE LeavesAt[sync.synced] + 1

Chunks(from, to) == [i \in 1 .. (to - from + BatchSize) \div BatchSize |-> from + (i - 1) * BatchSize]

(* Header, leafset and their verification; the first sync is pipelined. *)
Start ==
  /\ pc = "start"
  /\ \/ LET target == loop.tip
            at == ResumeAt(target)
            full == sync.synced = 0 /\ at <= LeavesAt[target]
        IN /\ work' = [work EXCEPT !.target = target, !.at = at,
                         !.pending = IF full THEN Chunks(at, LeavesAt[target]) ELSE << >>]
           /\ sync' = [sync EXCEPT !.pending_tip = target]
           /\ pc' = IF full THEN "pipeline" ELSE "sequential"
           /\ UNCHANGED <<call, pool>>
     \/ /\ peer \in {"busy", "flaky", "bad"}
        /\ EndAttempt([busy |-> "throttled", flaky |-> "transport", bad |-> "proof"][peer])
        /\ UNCHANGED <<work, sync>>
     \/ EndAttempt("local") /\ UNCHANGED <<work, sync>>
  /\ UNCHANGED <<health, unread, scanned, withheld, loop>>

LastLeaf(start, size, target) == IF start + size - 1 < LeavesAt[target] THEN start + size - 1 ELSE LeavesAt[target]

InFull(start, size) == [start |-> start, first |-> start, last |-> LastLeaf(start, size, work.target)]
Empty(start) == [start |-> start, first |-> None, last |-> start]
IsEmpty(r) == r.first = None

(* Whatever a request at start can be answered with that verifies.           *)
InPart(start) ==
  LET leaves == start .. LeavesAt[work.target]
  IN {Empty(start)} \cup {r \in [start : {start}, first : leaves, last : leaves] : r.first <= r.last}

(* What a peer sends of a round before the pong: the replies, in order. *)
Replies(round, size) ==
  IF peer = "partial"
  THEN {sent \in [DOMAIN round -> UNION {InPart(round[i]) : i \in DOMAIN round}] :
          \A i \in DOMAIN round : sent[i] \in InPart(round[i])}
  ELSE LET inFull(starts) == [i \in DOMAIN starts |-> InFull(starts[i], size)]
       IN {inFull(Subsequence(round, S)) :
             S \in IF peer = "busy" THEN SUBSET DOMAIN round ELSE {DOMAIN round}}

(* partition_round, and the bound of collect_until_pong: replies are matched *)
(* with requests by their start index.                                       *)
Starts(replies) == {replies[i].start : i \in DOMAIN replies}

IsProtocolError(round, replies) ==
  \/ Len(replies) > Len(round)
  \/ \E i \in DOMAIN replies : replies[i].start \notin ToSet(round)
  \/ \E i, j \in DOMAIN replies : i # j /\ replies[i].start = replies[j].start
Served(round, replies) ==
  LET starts == Subsequence(round, {i \in DOMAIN round : round[i] \in Starts(replies)})
  IN [k \in DOMAIN starts |-> CHOOSE r \in ToSet(replies) : r.start = starts[k]]
Unserved(round, replies) == Subsequence(round, {i \in DOMAIN round : round[i] \notin Starts(replies)})

Max1(n) == IF n < 1 THEN 1 ELSE n
Min2(m, n) == IF m < n THEN m ELSE n

(* An error ends the pipeline; the connection is renewed if that works, and  *)
(* the sequential download goes on with the same peer.                       *)
LeavePipeline(left) ==
  /\ work' = [work EXCEPT !.pending = << >>, !.served = << >>]
  /\ pc' = "sequential"
  /\ unread' \in IF peer = "flaky" THEN {<< >>, left} ELSE {<< >>}

(* One turn of drive_serve_rounds, up to the first batch it hands out. *)
PipelineRound ==
  /\ pc = "pipeline" /\ work.pending # << >>
  /\ LET width == Min2(Max1(Min2(work.window, MWEB_SERVE_BURST)), Len(work.pending))
         round == SubSeq(work.pending, 1, width)
         rest == SubSeq(work.pending, width + 1, Len(work.pending))
     IN \E sent \in Replies(round, BatchSize) :
          LET replies == unread \o sent
              served == Served(round, replies)
              unserved == Unserved(round, replies)
          IN \/ IF IsProtocolError(round, replies) THEN LeavePipeline(<< >>)
                ELSE IF served # << >>
                THEN /\ work' = [work EXCEPT !.served = served, !.pending = unserved \o rest, !.stalled = 0,
                                   !.window = IF unserved = << >> THEN Max1(Min2(2 * @, MWEB_SERVE_BURST))
                                              ELSE Len(served)]
                     /\ pc' = "deliver" /\ unread' = << >>
                ELSE IF work.stalled + 1 = MAX_CONSECUTIVE_THROTTLED_ROUNDS THEN LeavePipeline(<< >>)
                ELSE /\ work' = [work EXCEPT !.stalled = @ + 1, !.window = 1]
                     /\ unread' = << >> /\ UNCHANGED pc
             \/ /\ peer = "flaky"
                /\ \E n \in 0 .. Len(sent) : LeavePipeline(SubSeq(sent, 1, n))
  /\ UNCHANGED <<health, pool, call, sync, scanned, withheld, loop>>

(* The outputs of a batch are scanned; leaves before its first are not asked *)
(* for again.                                                                *)
Scan(r) ==
  /\ scanned' = scanned \cup (r.first .. r.last)
  /\ withheld' = withheld \cup (r.start .. r.first - 1)
  /\ sync' = [sync EXCEPT !.cursor = r.last]

(* An empty batch: the next leaf is passed over, the stored cursor stays. *)
PassOver ==
  /\ withheld' = withheld \cup ({work.at} \cap 1 .. LeavesAt[work.target])
  /\ UNCHANGED <<sync, scanned>>

(* Faulty variant: a batch is taken wherever it starts. *)
IsInPlace(r) == work.at <= LeavesAt[work.target]

IsNext(r) == work.at <= LeavesAt[work.target] /\ r.start = work.at

(* The pipeline goes on behind a batch, at leaf at. *)
Delivered(at) ==
  /\ work' = [work EXCEPT !.at = at, !.served = Tail(@)]
  /\ pc' = IF Len(work.served) > 1 THEN "deliver"
           ELSE IF work.pending = << >> THEN "sequential" ELSE "pipeline"
  /\ UNCHANGED unread

(* on_batch.  One that does not start at the next leaf, or that fails to     *)
(* verify, ends the pipeline; whether an empty one does is not looked at.    *)
OnBatch ==
  /\ pc = "deliver"
  /\ LET r == Head(work.served)
     IN \/ IsEmpty(r) /\ PassOver /\ Delivered(work.at + 1)
        \/ ~IsEmpty(r) /\ peer # "bad" /\ IsNext(r) /\ Scan(r) /\ Delivered(r.last + 1)
        \/ ~IsEmpty(r) /\ LeavePipeline(<< >>) /\ UNCHANGED <<sync, scanned, withheld>>
  /\ UNCHANGED <<health, pool, call, loop>>

(* One turn of the sequential download: a round of one request. *)
InRequest == pc = "sequential" /\ work.at <= LeavesAt[work.target]

Arrived(sent) == unread \o sent

TakeBatch(r) ==
  /\ Scan(r)
  /\ work' = [work EXCEPT !.at = r.last + 1, !.tries = 0, !.throttles = 0,
                !.size = Max1(Min2(2 * @, BatchSize))]
  /\ UNCHANGED <<pool, call, pc>>

TakeNothing ==
  /\ PassOver
  /\ work' = [work EXCEPT !.at = @ + 1, !.tries = 0, !.throttles = 0]
  /\ UNCHANGED <<pool, call, pc>>

(* A segment that fails to verify is asked for again with half the width. *)
Shrink ==
  /\ work' = [work EXCEPT !.size = Max1(@ \div 2), !.tries = 0, !.throttles = 0]
  /\ UNCHANGED <<pool, call, pc, sync, scanned, withheld>>

Receive ==
  /\ InRequest
  /\ \E sent \in Replies(<<work.at>>, work.size) :
       LET replies == Arrived(sent)
           r == Head(replies)
       IN CASE IsProtocolError(<<work.at>>, replies) ->
                 EndAttempt("protocol") /\ UNCHANGED <<work, sync, scanned, withheld>>
            [] replies = << >> ->
                 IF work.throttles + 1 = MAX_CONSECUTIVE_THROTTLED_ROUNDS
                 THEN EndAttempt("throttled") /\ UNCHANGED <<work, sync, scanned, withheld>>
                 ELSE /\ work' = [work EXCEPT !.throttles = @ + 1]
                      /\ UNCHANGED <<pool, call, pc, sync, scanned, withheld>>
            [] OTHER ->
                 \/ IsEmpty(r) /\ TakeNothing
                 \/ ~IsEmpty(r) /\ peer # "bad" /\ TakeBatch(r)
                 \/ ~IsEmpty(r) /\ work.size > 1 /\ Shrink
                 \/ /\ ~IsEmpty(r) /\ peer = "bad" /\ work.size = 1
                    /\ EndAttempt("proof") /\ UNCHANGED <<work, sync, scanned, withheld>>
  /\ unread' = << >>
  /\ UNCHANGED <<health, loop>>

(* with_reconnect: the request is repeated over a new connection, or, if that *)
(* fails, over what is left of the old one.                                   *)
Break ==
  /\ InRequest /\ peer = "flaky"
  /\ IF work.tries + 1 < MAX_ATTEMPTS
     THEN /\ work' = [work EXCEPT !.tries = @ + 1, !.throttles = 0]
          /\ \E kept \in {<< >>, unread} : unread' = kept
          /\ UNCHANGED <<call, pool, pc>>
     ELSE EndAttempt("transport") /\ unread' = << >> /\ UNCHANGED work
  /\ UNCHANGED <<health, sync, scanned, withheld, loop>>

-----------------------------------------------------------------------------
Step ==
  \/ StartPass \/ FinishPass \/ Poll
  \/ NoPeerLeft \/ Connect
  \/ Start \/ PipelineRound \/ OnBatch \/ Receive \/ Break

Next == NewBlock \/ Rediscover \/ BanExpires \/ Step

(* The loop is one thread that always goes on; blocks, the application and   *)
(* the clock need not.                                                       *)
Spec == Init /\ [][Next]_vars /\ WF_vars(Step)

-----------------------------------------------------------------------------
Covered(n) == 1 .. n \subseteq scanned \cup withheld

(* No leaf below the position of a download, below the stored cursor or of a *)
(* synced tip was passed over, although peers drop requests in the middle of *)
(* a round, connections break and passes resume with another peer; except    *)
(* that one leaf is for each empty batch, and those before the first leaf of *)
(* a batch that begins later than it was asked to.  If no peer sends either, *)
(* there is no exception.                                                    *)
NoLeafSkipped ==
  /\ pc \in {"pipeline", "deliver", "sequential"} =>
       Covered(Min2(work.at - 1, LeavesAt[work.target]))
  /\ sync.cursor # None => Covered(sync.cursor)
  /\ Covered(LeavesAt[sync.synced])
  /\ (\A addr \in Peer : health[addr] # "partial") => withheld = {}

(* A pass reports a peer failure only after every sound peer of the pool has *)
(* been tried: with one that always serves it cannot fail for that reason.   *)
FailoverFindsGoodPeer ==
  [][pc # "failed" /\ pc' = "failed"
       => \A i \in DOMAIN pool.addrs : health[pool.addrs[i]] # "good"]_vars

(* A peer that serves, or that only limits its rate, is never banned. *)
BansAreDeserved == \A addr \in pool.banned : health[addr] \in {"flaky", "bad", "dead"}

(* Every block that arrives while the loop runs is synced, also one that     *)
(* arrives in the middle of a pass, unless the loop ends.                    *)
NewTipIsSynced ==
  \A h \in 1 .. MaxTip :
    (loop.tip >= h /\ pc \in Running \cup {"idle", "waiting"})
      ~> (sync.synced >= h \/ pc \in {"stopped", "failed", "aborted"})

=============================================================================
