------------------------------ MODULE SkipList ------------------------------
(***************************************************************************)
(* The skip pointers of CheckPoint (crates/core, checkpoint.rs).  Node i   *)
(* is the i-th checkpoint counted from the first; hts gives its height,    *)
(* skip the node its skip pointer leads to.  The two walks, by index       *)
(* (ancestor_by_index, used by push and by CheckPointIter::nth and last)   *)
(* and by height (walk_to_floor, used by get, range and floor_at), are     *)
(* modelled step by step.                                                  *)
(***************************************************************************)
EXTENDS Naturals

CONSTANTS
  MaxIndex,    \* bound on the number of pushes
  FirstHeights, \* heights of the first checkpoint
  Gaps,        \* for each node, the height differences to the next one
  NoNode       \* Option::None

ASSUME SkipListAssumption ==
  /\ MaxIndex \in Nat
  /\ FirstHeights \subseteq Nat
  /\ \A i \in 0..MaxIndex : Gaps[i] \subseteq Nat \ {0}
  /\ NoNode \notin Nat

VARIABLES
  tip,      \* index of the last checkpoint
  hts,      \* the height of each node
  skip,     \* the skip pointer of each node but the first
  job,      \* what runs: "idle", "push", "ancestor", "floor" or "answered"
  target,   \* the index or the height it walks to
  cur,      \* where it is
  newHeight, \* the height being pushed
  answer,   \* the node found
  steps     \* hops taken by the walk so far

nodes == <<tip, hts, skip>>
walkVars == <<nodes, job, target, cur, newHeight, answer, steps>>

-----------------------------------------------------------------------------
(* skip_index. *)

Divides(d, n) == n % d = 0
IsPowerOfTwo(d) == \A e \in 2..d : Divides(e, d) => Divides(2, e)

(* The lowest set bit of n > 0: the greatest power of two that divides it. *)
LowestBit(n) ==
  CHOOSE d \in 1..n :
    /\ Divides(d, n) /\ IsPowerOfTwo(d)
    /\ \A e \in 1..n : (Divides(e, n) /\ IsPowerOfTwo(e)) => e <= d

(* invert_lowest_one: n & (n - 1), 0 for 0. *)
InvertLowestOne(n) == IF n = 0 THEN 0 ELSE n - LowestBit(n)

SkipIndex(i) ==
  IF i < 2 THEN 0
  ELSE IF i % 2 = 0 THEN InvertLowestOne(i)
  ELSE InvertLowestOne(InvertLowestOne(i - 1)) + 1

-----------------------------------------------------------------------------

SkipInit ==
  /\ tip = 0
  /\ hts \in [{0} -> FirstHeights]
  /\ skip = [i \in {} |-> 0]
  /\ job = "idle"
  /\ target = 0 /\ cur = 0 /\ newHeight = 0 /\ answer = NoNode /\ steps = 0

Start(kind, t) ==
  /\ job' = kind
  /\ target' = t
  /\ cur' = tip
  /\ answer' = NoNode
  /\ steps' = 0
  /\ UNCHANGED nodes

(* CheckPoint::push: find the node for the new skip pointer. *)
StartPush(g) ==
  /\ job = "idle"
  /\ tip < MaxIndex
  /\ newHeight' = hts[tip] + g
  /\ Start("push", SkipIndex(tip + 1))

(* CheckPointIter::nth and last. *)
StartAncestor(i) ==
  /\ job = "idle"
  /\ i <= tip
  /\ Start("ancestor", i)
  /\ UNCHANGED newHeight

(* CheckPoint::get, range and floor_at. *)
StartFloor(h) ==
  /\ job = "idle"
  /\ Start("floor", h)
  /\ UNCHANGED newHeight

Hop(i) ==
  /\ cur' = i
  /\ steps' = steps + 1
  /\ UNCHANGED <<nodes, job, target, newHeight, answer>>

(* u32::saturating_sub. *)
Minus(a, b) == IF a > b THEN a - b ELSE 0

(* One iteration of ancestor_by_index. *)
PrevSkipBetter ==
  /\ SkipIndex(cur) > SkipIndex(Minus(cur, 1)) + 2
  /\ SkipIndex(Minus(cur, 1)) >= target

(* Faulty variant: the skip pointer is taken past the index. *)
UseSkipAlways == cur > 0

UseSkip ==
  /\ cur > 0
  /\ \/ SkipIndex(cur) = target
     \/ SkipIndex(cur) > target /\ ~PrevSkipBetter

AncestorStep ==
  /\ job \in {"push", "ancestor"}
  /\ cur > target
  /\ Hop(IF UseSkip THEN skip[cur] ELSE cur - 1)

(* The rest of push: the new node with its skip pointer. *)
Link ==
  /\ job = "push"
  /\ cur <= target
  /\ tip' = tip + 1
  /\ hts' = [i \in 0..(tip + 1) |-> IF i <= tip THEN hts[i] ELSE newHeight]
  /\ skip' = [i \in 1..(tip + 1) |-> IF i <= tip THEN skip[i] ELSE cur]
  /\ job' = "idle"
  /\ UNCHANGED <<target, cur, newHeight, answer, steps>>

Answer(a) ==
  /\ job' = "answered"
  /\ answer' = a
  /\ UNCHANGED <<nodes, target, cur, newHeight, steps>>

AncestorFound ==
  /\ job = "ancestor"
  /\ cur <= target
  /\ Answer(cur)

(* One iteration of walk_to_floor. *)
SkipGap == Minus(hts[skip[cur]], hts[skip[cur - 1]])

(* Faulty variant: the skip pointer is taken below the height. *)
TakeSkipAlways == cur > 0

(* Faulty variant: the skip pointers are not used. *)
TakeSkipNever == FALSE

TakeSkip ==
  /\ cur > 0
  /\ hts[skip[cur]] >= target
  /\ \/ hts[skip[cur]] = target
     \/ cur = 1
     \/ ~(SkipGap > 2 /\ hts[skip[cur - 1]] >= target)

FloorStep ==
  /\ job = "floor"
  /\ hts[cur] > target
  /\ cur > 0
  /\ Hop(IF TakeSkip THEN skip[cur] ELSE cur - 1)

(* The first checkpoint is itself above the target: prev()? returns None. *)
NoFloor ==
  /\ job = "floor"
  /\ hts[cur] > target
  /\ cur = 0
  /\ Answer(NoNode)

FloorFound ==
  /\ job = "floor"
  /\ hts[cur] <= target
  /\ Answer(cur)

ReturnAnswer ==
  /\ job = "answered"
  /\ job' = "idle"
  /\ UNCHANGED <<nodes, target, cur, newHeight, answer, steps>>

SkipNext ==
  \/ \E g \in Gaps[tip] : StartPush(g)
  \/ \E i \in 0..tip : StartAncestor(i)
  \/ \E h \in 0..(hts[tip] + 1) : StartFloor(h)
  \/ AncestorStep \/ Link \/ AncestorFound
  \/ FloorStep \/ NoFloor \/ FloorFound
  \/ ReturnAnswer

(* The walks are function calls: once started they run on. *)
Walk == AncestorStep \/ Link \/ AncestorFound \/ FloorStep \/ NoFloor \/ FloorFound
SkipSpec == SkipInit /\ [][SkipNext]_walkVars /\ WF_walkVars(Walk)

-----------------------------------------------------------------------------
(* Properties. *)

SkipTypeOK ==
  /\ tip \in Nat
  /\ hts \in [0..tip -> Nat]
  /\ skip \in [1..tip -> 0..tip]
  /\ job \in {"idle", "push", "ancestor", "floor", "answered"}
  /\ target \in Nat /\ cur \in 0..tip /\ newHeight \in Nat /\ steps \in Nat
  /\ answer \in 0..tip \cup {NoNode}

(* push wires node i to the ancestor at skip_index(i), although it finds that  *)
(* node by riding the pointers wired before.                                   *)
SkipsWired == \A i \in 1..tip : skip[i] = SkipIndex(i)

(* No walk ever jumps past what it looks for: ancestor_by_index stays at or    *)
(* above its index, and walk_to_floor leaves only nodes above its height.      *)
NeverOvershoots ==
  /\ job \in {"push", "ancestor"} => cur >= target
  /\ job = "floor" => \A i \in 0..tip : i > cur => hts[i] > target

(* floor_at, by linear scan. *)
IsFloor(i, h) == i \in 0..tip /\ hts[i] <= h /\ \A j \in 0..tip : hts[j] <= h => j <= i

(* A height query answers what a linear scan of the list answers, None exactly *)
(* when the first checkpoint is above it.                                      *)
FloorIsLinearScan ==
  [][FloorFound \/ NoFloor =>
       IF answer' = NoNode THEN \A i \in 0..tip : hts[i] > target
                         ELSE IsFloor(answer', target)]_walkVars

(* "O(log n) traversal": on lists of the checked sizes a walk takes at most     *)
(* three hops per bit of the index it starts at.                                *)
BitLength(n) == CHOOSE k \in 0..n : n < 2^k /\ (k = 0 \/ n >= 2^(k-1))
StepsAreFew == steps <= 3 * BitLength(tip)

=============================================================================
