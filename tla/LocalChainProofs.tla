-------------------------- MODULE LocalChainProofs --------------------------
(***************************************************************************)
(* The invariants of LocalChain, and of the checkpoint lists that sources  *)
(* build, for every block tree, every kind of block data and every chain   *)
(* length.  The facts about changesets and merges that open the module     *)
(* also serve the loop of merge_chains; the skip list comes last.          *)
(***************************************************************************)
EXTENDS LocalChain, MergeLoop, CheckPointList, SkipList, NatFacts

(* Changesets and merges. *)

(* The data of a link is a block or nothing, and so is every entry. *)
LEMMA EntryType ==
  ASSUME NEW c \in SparseChain, NEW h \in Height
  PROVE  EntryHash(c, h) \in Block \cup {None}
BY HeightAssumption, BlockAssumption
   DEF SparseChain, EntryHash, Placeholder, PrevBlockhash, Height

(* An occupied height has its own block as entry. *)
LEMMA OccupiedEntry ==
  ASSUME NEW c \in SparseChain, NEW h \in Height, c[h] # None
  PROVE  EntryHash(c, h) = c[h]
BY DEF EntryHash, Placeholder

(* Without header data there are no placeholders. *)
LEMMA EntryWithoutHeaders ==
  ASSUME NEW c \in SparseChain, NEW h \in Height, Linked = {}
  PROVE  EntryHash(c, h) = c[h]
BY DEF EntryHash, Placeholder, PrevBlockhash

LEMMA ChangesetTypes ==
  ASSUME NEW c \in SparseChain, NEW cs \in ChangeSet, NEW other \in ChangeSet
  PROVE  /\ ApplyChangeset(c, cs) \in SparseChain
         /\ MergeChangeSets(cs, other) \in ChangeSet
BY DEF ApplyChangeset, MergeChangeSets, SparseChain, ChangeSet

LEMMA MergeChangesetType ==
  ASSUME NEW o \in SparseChain, NEW u \in SparseChain
  PROVE  MergeChangeset(o, u) \in ChangeSet
BY DEF MergeChangeset, SparseChain, ChangeSet

(* merge_chains never touches the genesis block of the original. *)
LEMMA MergeKeepsGenesis ==
  ASSUME NEW o \in SparseChain, NEW u \in SparseChain,
         o[0] # None, ~CannotConnect(o, u)
  PROVE  MergeChangeset(o, u)[0] = Keep
<1>1. 0 \in Height BY HeightAssumption DEF Height
<1>2. ~Conflicts(o, u, 0) BY DEF CannotConnect, ReplacesGenesis
<1>3. \A i \in Height : ~(i < 0) BY HeightAssumption DEF Height
<1> QED BY <1>1, <1>2, <1>3 DEF MergeChangeset, Introduces, Purges

(* The short cut that returns the update's tip gives the same list as the    *)
(* changeset when the data carries no prev_blockhash.                        *)
LEMMA ShortCutWithoutHeaders ==
  ASSUME NEW o \in SparseChain, NEW u \in SparseChain, NEW s \in Height,
         Linked = {}, SharesNodes(o, u, s), CoversOriginal(o, u, s)
  PROVE  u = ApplyChangeset(o, MergeChangeset(o, u))
<1>1. ASSUME NEW h \in Height
      PROVE  u[h] = ApplyChangeset(o, MergeChangeset(o, u))[h]
  <2>1. /\ EntryHash(o, h) = o[h] /\ EntryHash(u, h) = u[h]
    BY EntryWithoutHeaders
  <2>2. CASE u[h] # None
    <3>1. u[h] # Keep BY <2>2, GenesisAssumption DEF SparseChain
    <3>2. MergeChangeset(o, u)[h] =
            IF Conflicts(o, u, h) \/ o[h] = None THEN u[h] ELSE Keep
      BY <2>1, <2>2 DEF MergeChangeset, Introduces, Purges
    <3>3. CASE Conflicts(o, u, h) \/ o[h] = None
      BY <3>1, <3>2, <3>3, <2>2 DEF ApplyChangeset
    <3>4. CASE ~Conflicts(o, u, h) /\ o[h] # None
      BY <3>2, <3>4, <2>1, <2>2 DEF ApplyChangeset, Conflicts, InBoth
    <3> QED BY <3>3, <3>4
  <2>3. CASE u[h] = None
    <3>1. o[h] = None
      <4>1. CASE h > s BY <4>1, <2>1, <2>3 DEF CoversOriginal
      <4>2. CASE h <= s BY <4>2, <2>3 DEF SharesNodes
      <4> QED BY <4>1, <4>2, HeightAssumption DEF Height
    <3>2. MergeChangeset(o, u)[h] = Keep
      BY <3>1, <2>1, <2>3 DEF MergeChangeset, Introduces, Purges, Conflicts, InBoth
    <3> QED BY <3>1, <3>2, <2>3 DEF ApplyChangeset
  <2> QED BY <2>2, <2>3
<1> QED BY <1>1 DEF ApplyChangeset, SparseChain

-----------------------------------------------------------------------------
LEMMA GreatestHeight ==
  ASSUME NEW T, T \subseteq Height, T # {}
  PROVE  \E m \in T : \A k \in T : k <= m
BY HeightAssumption, GreatestNatural DEF Height

-----------------------------------------------------------------------------
(* Lists of one branch. *)

LEMMA BranchType ==
  ASSUME NEW b \in Branches
  PROVE  b \in SparseChain
BY BranchAssumption DEF SparseChain

(* An entry of a list of one branch, placeholders included, is the branch's. *)
LEMMA EntryOnBranch ==
  ASSUME NEW c \in SparseChain, NEW b \in Branches, OnBranch(c, b),
         NEW h \in Height, EntryHash(c, h) # None
  PROVE  EntryHash(c, h) = b[h]
<1>1. CASE Placeholder(c, h)
  <2>1. h + 1 \in Height /\ c[h+1] # None /\ c[h+1] \in Linked
    BY <1>1 DEF Placeholder, PrevBlockhash
  <2>2. b[h+1] = c[h+1] BY <2>1 DEF OnBranch
  <2>3. h + 1 > 0 /\ (h + 1) - 1 = h BY HeightAssumption DEF Height
  <2>4. Parent[b[h+1]] = b[h] BY <2>1, <2>2, <2>3, BranchAssumption
  <2> QED BY <1>1, <2>1, <2>2, <2>4 DEF EntryHash, PrevBlockhash
<1>2. CASE ~Placeholder(c, h)
  BY <1>2 DEF EntryHash, OnBranch
<1> QED BY <1>1, <1>2

LEMMA HonestUpdateFacts ==
  ASSUME NEW u \in HonestUpdates
  PROVE  /\ u \in SparseChain
         /\ \E b \in Branches : OnBranch(u, b)
<1>1. PICK b \in Branches, hs \in SUBSET Height : u = Sample(b, hs)
  BY DEF HonestUpdates
<1>2. u \in SparseChain BY <1>1, BranchType DEF Sample, SparseChain
<1>3. OnBranch(u, b) BY <1>1 DEF Sample, OnBranch
<1> QED BY <1>2, <1>3

(* A merge that is not refused has found a point of agreement. *)
LEMMA AgreementExists ==
  ASSUME NEW o \in SparseChain, NEW u \in SparseChain,
         o[0] # None, ~CannotConnect(o, u)
  PROVE  \E h \in Height : IsAgreementPoint(o, u, h)
<1> DEFINE A == {h \in Height : Agrees(o, u, h)}
<1>1. CASE A # {}
  <2>1. PICK m \in A : \A k \in A : k <= m BY <1>1, GreatestHeight
  <2>2. \A i \in Height : i > m => ~Agrees(o, u, i)
    BY <2>1, HeightAssumption DEF Height
  <2> QED BY <2>1, <2>2 DEF IsAgreementPoint
<1>2. CASE A = {}
  <2> DEFINE P == {p \in Height : /\ EntryHash(o, p) # None
                                  /\ \A h \in Height : EntryHash(u, h) # None => h > p}
  <2>1. 0 \in Height BY HeightAssumption DEF Height
  <2>2. EntryHash(o, 0) # None BY <2>1, OccupiedEntry
  <2>3. EntryHash(u, 0) = None
    BY <1>2, <2>1, <2>2 DEF CannotConnect, ReplacesGenesis, Agrees, Conflicts, InBoth
  <2>4. 0 \in P BY <2>1, <2>2, <2>3, HeightAssumption DEF Height
  <2>5. PICK p \in P : \A k \in P : k <= p BY <2>4, GreatestHeight
  <2>6. ASSUME NEW h \in Height, h > p, EntryHash(o, h) # None
        PROVE  \E i \in Height : i <= h /\ EntryHash(u, i) # None
    <3>1. h \notin P BY <2>5, <2>6, HeightAssumption DEF Height
    <3> QED BY <3>1, <2>6, HeightAssumption DEF Height
  <2>7. DisjointAt(o, u, p) BY <1>2, <2>5, <2>6 DEF DisjointAt
  <2> QED BY <2>5, <2>7 DEF CannotConnect
<1> QED BY <1>1, <1>2

-----------------------------------------------------------------------------
(* What the merged list holds at a height. *)

LEMMA MergedAt ==
  ASSUME NEW o \in SparseChain, NEW u \in SparseChain, NEW h \in Height
  PROVE  ApplyChangeset(o, MergeChangeset(o, u))[h] =
           IF Introduces(o, u, h) THEN u[h]
           ELSE IF Purges(o, u, h) THEN None ELSE o[h]
<1>1. u[h] # Keep BY GenesisAssumption DEF SparseChain
<1>2. None # Keep BY GenesisAssumption
<1> QED BY <1>1, <1>2 DEF ApplyChangeset, MergeChangeset

LEMMA MergedHoldsUpdate ==
  ASSUME NEW o \in SparseChain, NEW u \in SparseChain, NEW h \in Height,
         u[h] # None
  PROVE  ApplyChangeset(o, MergeChangeset(o, u))[h] = u[h]
<1>1. EntryHash(u, h) = u[h] BY OccupiedEntry
<1>2. CASE Introduces(o, u, h) BY <1>2, MergedAt
<1>3. CASE ~Introduces(o, u, h)
  <2>1. o[h] # None BY <1>3 DEF Introduces
  <2>2. EntryHash(o, h) = o[h] BY <2>1, OccupiedEntry
  <2>3. o[h] = u[h] BY <1>1, <1>3, <2>1, <2>2 DEF Introduces, Conflicts, InBoth
  <2>4. ~Purges(o, u, h) BY <1>1 DEF Purges
  <2> QED BY <1>3, <2>3, <2>4, MergedAt
<1> QED BY <1>2, <1>3

(* Above the point of agreement h the original keeps no block that the update *)
(* does not have too, unless the update ends at h.                            *)
LEMMA NothingKeptAbove ==
  ASSUME NEW o \in SparseChain, NEW u \in SparseChain, ~CannotConnect(o, u),
         NEW h \in Height, IsAgreementPoint(o, u, h),
         \E i \in Height : i > h /\ EntryHash(u, i) # None,
         NEW k \in Height, k > h, o[k] # None, EntryHash(u, k) = None
  PROVE  Purges(o, u, k)
<1> DEFINE E == {p \in Height : p > h /\ EntryHash(o, p) # None}
<1>1. k \in E BY OccupiedEntry
<1>2. E \subseteq Nat BY HeightAssumption DEF Height
<1>3. PICK p \in E : \A q \in E : p <= q BY <1>1, <1>2, LeastNatural
<1>4. IsEntryAbove(o, h, p)
  BY <1>3, HeightAssumption DEF IsEntryAbove, Height
<1>5. ~AmbiguousAt(o, u, p) BY <1>3 DEF CannotConnect
<1>6. Conflicts(o, u, p) BY <1>4, <1>5 DEF AmbiguousAt
<1>7. p # k BY <1>6 DEF Conflicts, InBoth
<1>8. p < k BY <1>1, <1>3, <1>7, HeightAssumption DEF Height
<1> QED BY <1>3, <1>6, <1>8 DEF Purges

(* Blocks of the original that survive are the update's branch's blocks. *)
LEMMA MergedOneBranch ==
  ASSUME NEW o \in SparseChain, NEW u \in SparseChain,
         o[0] # None, ~CannotConnect(o, u),
         NEW bo \in Branches, OnBranch(o, bo),
         NEW bu \in Branches, OnBranch(u, bu)
  PROVE  OneBranch(ApplyChangeset(o, MergeChangeset(o, u)))
<1> DEFINE m == ApplyChangeset(o, MergeChangeset(o, u))
<1>1. PICK h \in Height : IsAgreementPoint(o, u, h) BY AgreementExists
<1>2. EntryHash(o, h) # None /\ EntryHash(o, h) = EntryHash(u, h)
  BY <1>1 DEF IsAgreementPoint, Agrees, InBoth
<1>3. bo[h] = bu[h] /\ bo[h] # None BY <1>2, EntryOnBranch
<1>4. \A i \in Height : i <= h => bo[i] = bu[i] BY <1>3, BranchAssumption
<1>5. CASE \A i \in Height : EntryHash(u, i) # None => i <= h
  <2>1. ASSUME NEW k \in Height, m[k] # None PROVE m[k] = bo[k]
    <3>1. CASE Introduces(o, u, k)
      <4>1. m[k] = u[k] BY <3>1, MergedAt
      <4>2. k <= h BY <1>5, <2>1, <4>1, OccupiedEntry
      <4> QED BY <4>1, <4>2, <1>4, <2>1 DEF OnBranch
    <3>2. CASE ~Introduces(o, u, k)
      <4>1. m[k] = o[k] BY <2>1, <3>2, MergedAt
      <4> QED BY <4>1, <2>1 DEF OnBranch
    <3> QED BY <3>1, <3>2
  <2> QED BY <2>1 DEF OneBranch, OnBranch
<1>6. CASE \E i \in Height : i > h /\ EntryHash(u, i) # None
  <2>1. ASSUME NEW k \in Height, m[k] # None PROVE m[k] = bu[k]
    <3>1. CASE Introduces(o, u, k)
      <4>1. m[k] = u[k] BY <3>1, MergedAt
      <4> QED BY <4>1, <2>1 DEF OnBranch
    <3>2. CASE ~Introduces(o, u, k)
      <4>1. m[k] = o[k] /\ ~Purges(o, u, k) BY <2>1, <3>2, MergedAt
      <4>2. EntryHash(o, k) = o[k] BY <2>1, <4>1, OccupiedEntry
      <4>3. CASE EntryHash(u, k) # None
        <5>1. EntryHash(u, k) = o[k]
          BY <3>2, <4>1, <4>2, <4>3, <2>1 DEF Introduces, Conflicts, InBoth
        <5> QED BY <4>1, <4>3, <5>1, EntryOnBranch
      <4>4. CASE EntryHash(u, k) = None
        <5>1. ~(k > h) BY <4>1, <4>4, <1>1, <1>6, <2>1, NothingKeptAbove
        <5>2. k <= h BY <5>1, HeightAssumption DEF Height
        <5> QED BY <5>2, <4>1, <2>1, <1>4 DEF OnBranch
      <4> QED BY <4>3, <4>4
    <3> QED BY <3>1, <3>2
  <2> QED BY <2>1 DEF OneBranch, OnBranch
<1> QED BY <1>5, <1>6, HeightAssumption DEF Height

(* Two lists of the same branch have no conflict to resolve. *)
LEMMA SameBranchKeepsAll ==
  ASSUME NEW o \in SparseChain, NEW u \in SparseChain,
         NEW b \in Branches, OnBranch(o, b), OnBranch(u, b),
         NEW h \in Height, o[h] # None
  PROVE  ApplyChangeset(o, MergeChangeset(o, u))[h] = o[h]
<1>1. \A i \in Height : ~Conflicts(o, u, i)
  BY EntryOnBranch DEF Conflicts, InBoth
<1>2. ~Introduces(o, u, h) /\ ~Purges(o, u, h) BY <1>1 DEF Introduces, Purges
<1> QED BY <1>2, MergedAt

(* merge_chains on an update of an honest source: everything TakenOver asks. *)
LEMMA HonestUpdateTakenOver ==
  ASSUME NEW o \in SparseChain, NEW u \in HonestUpdates,
         o[0] # None, ~CannotConnect(o, u)
  PROVE  TakenOver(o, u, ApplyChangeset(o, MergeChangeset(o, u)))
<1>1. u \in SparseChain BY HonestUpdateFacts
<1>2. \A h \in Height : u[h] # None => ApplyChangeset(o, MergeChangeset(o, u))[h] = u[h]
  BY <1>1, MergedHoldsUpdate
<1>3. OneBranch(o) => OneBranch(ApplyChangeset(o, MergeChangeset(o, u)))
  BY <1>1, HonestUpdateFacts, MergedOneBranch DEF OneBranch
<1>4. (\E b \in Branches : OnBranch(o, b) /\ OnBranch(u, b)) =>
        \A h \in Height : o[h] # None => ApplyChangeset(o, MergeChangeset(o, u))[h] = o[h]
  BY <1>1, SameBranchKeepsAll
<1> QED BY <1>2, <1>3, <1>4 DEF TakenOver

(* The hint of a refusal is a height the update lacks. *)
LEMMA HonestUpdateHint ==
  ASSUME NEW o \in SparseChain, NEW u \in HonestUpdates,
         o[0] = Genesis, CannotConnect(o, u)
  PROVE  HintIsNew(o, u, TryIncludeHeight(o, u))
<1>1. PICK b \in Branches : u \in SparseChain /\ OnBranch(u, b)
  BY HonestUpdateFacts
<1>2. 0 \in Height BY HeightAssumption DEF Height
<1>3. ~ReplacesGenesis(o, u)
  <2>1. o[0] # None BY GenesisAssumption, BlockAssumption
  <2>2. EntryHash(o, 0) = Genesis BY <1>2, <2>1, OccupiedEntry
  <2>3. EntryHash(u, 0) # None => EntryHash(u, 0) = Genesis
    BY <1>1, <1>2, EntryOnBranch, GenesisAssumption
  <2> QED BY <2>2, <2>3 DEF ReplacesGenesis, Conflicts, InBoth
<1>4. ASSUME NEW p \in Height, AmbiguousAt(o, u, p) PROVE HintIsNew(o, u, p)
  <2>1. PICK h \in Height : /\ IsEntryAbove(o, h, p)
                            /\ ~Conflicts(o, u, p)
                            /\ IsAgreementPoint(o, u, h)
    BY <1>4 DEF AmbiguousAt
  <2>2. ~Agrees(o, u, p) BY <2>1 DEF IsAgreementPoint, IsEntryAbove
  <2> QED BY <2>1, <2>2 DEF HintIsNew, IsEntryAbove, Agrees, Conflicts, InBoth
<1>5. ASSUME NEW p \in Height, DisjointAt(o, u, p) PROVE HintIsNew(o, u, p)
  BY <1>5, HeightAssumption DEF DisjointAt, HintIsNew, Height
<1>6. CASE \E p \in Height : AmbiguousAt(o, u, p)
  BY <1>4, <1>6 DEF TryIncludeHeight
<1>7. CASE ~\E p \in Height : AmbiguousAt(o, u, p)
  <2>1. \E p \in Height : DisjointAt(o, u, p) BY <1>3, <1>7 DEF CannotConnect
  <2> QED BY <1>3, <1>5, <1>7, <2>1 DEF TryIncludeHeight
<1> QED BY <1>6, <1>7

(* A known link of a list leads to the entry below, whichever list it is. *)
LEMMA LinkIsEntry ==
  ASSUME NEW c \in SparseChain, IsLinked(c),
         NEW h \in Height, h + 1 \in Height, c[h+1] # None,
         PrevBlockhash(c[h+1]) # None
  PROVE  EntryHash(c, h) = PrevBlockhash(c[h+1])
<1>1. CASE c[h] = None BY <1>1 DEF EntryHash, Placeholder
<1>2. CASE c[h] # None
  BY <1>2 DEF IsLinked, BrokenLink, EntryHash, Placeholder
<1> QED BY <1>1, <1>2

LEMMA BranchIsLinked ==
  ASSUME NEW c \in SparseChain, NEW b \in Branches, OnBranch(c, b)
  PROVE  IsLinked(c)
<1>1. ASSUME NEW h \in Height, BrokenLink(c, h) PROVE FALSE
  <2>1. h + 1 > 0 /\ (h + 1) - 1 = h BY HeightAssumption DEF Height
  <2>2. /\ h + 1 \in Height /\ c[h] = b[h]
        /\ c[h+1] = b[h+1] /\ b[h+1] # None
    BY <1>1 DEF BrokenLink, OnBranch
  <2>3. Parent[b[h+1]] = b[h] BY <2>1, <2>2, BranchAssumption
  <2> QED BY <1>1, <2>2, <2>3 DEF BrokenLink, PrevBlockhash
<1> QED BY <1>1 DEF IsLinked

(* Merging an update of an honest source into a linked list never leaves a    *)
(* prev_blockhash mismatch behind.                                            *)
LEMMA HonestUpdateResolved ==
  ASSUME NEW o \in SparseChain, NEW u \in HonestUpdates,
         o[0] # None, IsLinked(o)
  PROVE  Resolved(o, u)
<1> SUFFICES ASSUME ~CannotConnect(o, u)
             PROVE  CanApply(o, MergeChangeset(o, u))
  BY DEF Resolved
<1> DEFINE m == ApplyChangeset(o, MergeChangeset(o, u))
<1>1. PICK b \in Branches : u \in SparseChain /\ OnBranch(u, b)
  BY HonestUpdateFacts
<1>2. IsLinked(u) BY <1>1, BranchIsLinked
<1>3. m[0] # None
  <2>1. 0 \in Height BY HeightAssumption DEF Height
  <2>2. MergeChangeset(o, u)[0] = Keep BY <1>1, MergeKeepsGenesis
  <2> QED BY <2>1, <2>2 DEF ApplyChangeset
<1>4. ASSUME NEW h \in Height, BrokenLink(m, h) PROVE FALSE
  <2>1. /\ h + 1 \in Height /\ m[h] # None /\ m[h+1] # None
        /\ PrevBlockhash(m[h+1]) # None /\ PrevBlockhash(m[h+1]) # m[h]
    BY <1>4 DEF BrokenLink
  <2>2. CASE u[h+1] # None
    <3>1. m[h+1] = u[h+1] BY <1>1, <2>1, <2>2, MergedHoldsUpdate
    <3>2. EntryHash(u, h) = PrevBlockhash(u[h+1])
      BY <1>1, <1>2, <2>1, <2>2, <3>1, LinkIsEntry
    <3>3. CASE u[h] # None
      BY <1>1, <2>1, <3>1, <3>2, <3>3, MergedHoldsUpdate, OccupiedEntry
    <3>4. CASE u[h] = None
      <4>1. m[h] = o[h] /\ ~Introduces(o, u, h) BY <1>1, <2>1, <3>4, MergedAt
      <4>2. EntryHash(o, h) = o[h] BY <2>1, <4>1, OccupiedEntry
      <4> QED BY <2>1, <3>1, <3>2, <4>1, <4>2 DEF Introduces, Conflicts, InBoth
    <3> QED BY <3>3, <3>4
  <2>3. CASE u[h+1] = None
    <3>1. /\ m[h+1] = o[h+1]
          /\ ~Introduces(o, u, h+1) /\ ~Purges(o, u, h+1)
      BY <1>1, <2>1, <2>3, MergedAt
    <3>2. EntryHash(o, h) = PrevBlockhash(o[h+1])
      BY <2>1, <3>1, LinkIsEntry
    <3>3. CASE ~Introduces(o, u, h)
      <4>1. m[h] = o[h] BY <1>1, <2>1, <3>3, MergedAt
      <4> QED BY <2>1, <3>1, <3>2, <4>1, OccupiedEntry
    <3>4. CASE Introduces(o, u, h)
      <4>1. m[h] = u[h] /\ u[h] # None BY <1>1, <2>1, <3>4, MergedAt
      <4>2. EntryHash(u, h) = u[h] BY <1>1, <4>1, OccupiedEntry
      <4>3. Conflicts(o, u, h) BY <2>1, <3>1, <3>2, <4>1, <4>2 DEF Conflicts, InBoth
      <4>4. h < h + 1 BY HeightAssumption DEF Height
      <4>5. EntryHash(u, h+1) # None BY <2>1, <3>1, <4>3, <4>4 DEF Purges
      <4>6. EntryHash(u, h+1) = b[h+1] BY <1>1, <2>1, <4>5, EntryOnBranch
      <4>7. EntryHash(o, h+1) = o[h+1] BY <2>1, <3>1, OccupiedEntry
      <4>8. o[h+1] = b[h+1]
        BY <2>1, <3>1, <4>5, <4>6, <4>7 DEF Introduces, Conflicts, InBoth
      <4>9. h + 1 > 0 /\ (h + 1) - 1 = h BY HeightAssumption DEF Height
      <4>10. Parent[b[h+1]] = b[h] BY <2>1, <3>1, <4>8, <4>9, BranchAssumption
      <4>11. u[h] = b[h] BY <1>1, <4>1 DEF OnBranch
      <4> QED BY <2>1, <3>1, <4>1, <4>8, <4>10, <4>11 DEF PrevBlockhash
    <3> QED BY <3>3, <3>4
  <2> QED BY <2>2, <2>3
<1> QED BY <1>3, <1>4 DEF CanApply, IsLinked

-----------------------------------------------------------------------------
(* The chain and its changesets. *)

(* Updates built on the chain's own nodes occur only with data that carries  *)
(* no prev_blockhash.  With header data the short cut of merge_chains breaks *)
(* ReplayMatches (README, observations).                                     *)
NoSharedHeaders == MayShare => Linked = {}

Recorded == MergeChangeSets(persisted, stage)

(* ReplayMatches, written height by height, with the genesis block recorded. *)
RecordedIsChain ==
  /\ Recorded[0] = Genesis
  /\ \A h \in Height : chain[h] = (IF Recorded[h] = Keep THEN None ELSE Recorded[h])

(* Either nothing was ever written or what was written loads. *)
WrittenLoads ==
  persisted = EmptyChangeSet \/ (persisted[0] = Genesis /\ CanLoad(persisted))

(* The inductive invariant. *)
IInv == TypeOK /\ ChainWellFormed /\ RecordedIsChain /\ WrittenLoads

LEMMA Zero == 0 \in Height
BY HeightAssumption DEF Height

LEMMA Distinct == Genesis \in Block /\ Genesis # None /\ Genesis # Keep /\ None # Keep
BY GenesisAssumption, BlockAssumption

(* Replaying a changeset that records the genesis block. *)
LEMMA FromChangesetAt ==
  ASSUME NEW cs \in ChangeSet, cs[0] = Genesis
  PROVE  /\ FromChangeset(cs) \in SparseChain
         /\ FromChangeset(cs)[0] = Genesis
         /\ \A h \in Height :
              FromChangeset(cs)[h] = (IF cs[h] = Keep THEN None ELSE cs[h])
<1>1. ASSUME NEW h \in Height
      PROVE  FromChangeset(cs)[h] = (IF cs[h] = Keep THEN None ELSE cs[h])
  BY Zero, Distinct DEF FromChangeset, ApplyChangeset, OnlyGenesis
<1>2. OnlyGenesis(cs[0]) \in SparseChain BY Distinct DEF OnlyGenesis, SparseChain
<1>3. FromChangeset(cs) \in SparseChain BY <1>2, ChangesetTypes DEF FromChangeset
<1>4. FromChangeset(cs)[0] = Genesis BY <1>1, Zero, Distinct
<1> QED BY <1>1, <1>3, <1>4

LEMMA RecordedReplays ==
  ASSUME IInv
  PROVE  FromChangeset(Recorded) = chain /\ CanLoad(Recorded)
<1>1. Recorded \in ChangeSet BY ChangesetTypes DEF IInv, TypeOK, Recorded, MergeChangeSets, ChangeSet
<1>2. Recorded[0] = Genesis BY DEF IInv, RecordedIsChain
<1>3. \A h \in Height : FromChangeset(Recorded)[h] = chain[h]
  BY <1>1, <1>2, FromChangesetAt DEF IInv, RecordedIsChain
<1>4. FromChangeset(Recorded) = chain
  BY <1>1, <1>2, <1>3, FromChangesetAt DEF IInv, TypeOK, SparseChain
<1>5. CanLoad(Recorded)
  BY <1>2, <1>4, Distinct DEF CanLoad, CanApply, FromChangeset, IInv, ChainWellFormed
<1> QED BY <1>4, <1>5

(* A step that applies a changeset to the chain and stages it. *)
LEMMA RecordedStep ==
  ASSUME IInv, NEW cs \in ChangeSet, cs[0] = Keep,
         chain' = ApplyChangeset(chain, cs), Record(cs), IsLinked(chain')
  PROVE  IInv'
<1>1. TypeOK'
  BY ChangesetTypes DEF IInv, TypeOK, Record
<1>2. ChainWellFormed'
  BY Zero DEF IInv, ChainWellFormed, ApplyChangeset
<1>3. ASSUME NEW h \in Height
      PROVE  Recorded'[h] = (IF cs[h] = Keep THEN Recorded[h] ELSE cs[h])
  BY Distinct DEF Record, Recorded, MergeChangeSets
<1>4. RecordedIsChain'
  BY <1>3, Zero, Distinct DEF IInv, RecordedIsChain, ApplyChangeset
<1>5. WrittenLoads' BY DEF IInv, WrittenLoads, Record
<1> QED BY <1>1, <1>2, <1>4, <1>5 DEF IInv

LEMMA InitIInv == Init => IInv
<1> SUFFICES ASSUME Init PROVE IInv OBVIOUS
<1>1. TypeOK
  BY Distinct DEF Init, TypeOK, OnlyGenesis, SparseChain, ChangeSet, EmptyChangeSet
<1>2. ChainWellFormed
  <2>1. chain[0] = Genesis BY Zero DEF Init, OnlyGenesis
  <2>2. ASSUME NEW h \in Height, h + 1 \in Height PROVE chain[h+1] = None
    BY <2>2, HeightAssumption DEF Init, OnlyGenesis, Height
  <2>3. IsLinked(chain) BY <2>2 DEF IsLinked, BrokenLink
  <2> QED BY <2>1, <2>3 DEF ChainWellFormed
<1>3. RecordedIsChain
  BY Zero, Distinct DEF Init, RecordedIsChain, Recorded, MergeChangeSets,
     EmptyChangeSet, OnlyGenesis
<1>4. WrittenLoads BY DEF Init, WrittenLoads
<1> QED BY <1>1, <1>2, <1>3, <1>4 DEF IInv

(* apply_update, on any update at all. *)
LEMMA ApplyUpdateStep ==
  ASSUME NoSharedHeaders, IInv, NEW u \in SparseChain, NEW s \in Height \cup {None},
         ApplyUpdate(u, s)
  PROVE  IInv'
<1> DEFINE cs == MergeChangeset(chain, u)
<1>1. chain \in SparseChain /\ chain[0] = Genesis BY DEF IInv, TypeOK, ChainWellFormed
<1>2. cs \in ChangeSet BY <1>1, MergeChangesetType
<1>3. cs[0] = Keep BY <1>1, Distinct, MergeKeepsGenesis DEF ApplyUpdate
<1>4. chain' = ApplyChangeset(chain, cs) /\ IsLinked(chain')
  <2>1. CASE TakesUpdateTip(chain, u, s)
    <3>1. s \in Height /\ SharesNodes(chain, u, s) /\ CoversOriginal(chain, u, s)
      BY <2>1 DEF TakesUpdateTip, ApplyUpdate
    <3>2. Linked = {} BY <2>1 DEF TakesUpdateTip, ApplyUpdate, NoSharedHeaders
    <3>3. chain' = ApplyChangeset(chain, cs)
      BY <1>1, <2>1, <3>1, <3>2, ShortCutWithoutHeaders DEF ApplyUpdate, MergedChain
    <3> QED BY <3>2, <3>3 DEF IsLinked, BrokenLink, PrevBlockhash
  <2>2. CASE ~TakesUpdateTip(chain, u, s)
    BY <2>2 DEF ApplyUpdate, MergedChain, CanApply
  <2> QED BY <2>1, <2>2
<1>5. Record(cs) BY DEF ApplyUpdate
<1> HIDE DEF cs
<1> QED BY <1>2, <1>3, <1>4, <1>5, RecordedStep

LEMMA NextIInv == NoSharedHeaders /\ IInv /\ [Next]_vars => IInv'
<1> SUFFICES ASSUME NoSharedHeaders, IInv, [Next]_vars PROVE IInv'
  OBVIOUS
<1>1. chain \in SparseChain /\ chain[0] = Genesis /\ IsLinked(chain)
  BY DEF IInv, TypeOK, ChainWellFormed
<1>2. ASSUME NEW u \in Updates, NEW s \in Height \cup {None}, ApplyUpdate(u, s)
      PROVE  IInv'
  BY <1>2, ApplyUpdateStep DEF Updates
<1>3. ASSUME NEW id \in BlockIds, InsertBlock(id[1], id[2])
      PROVE  IInv'
  <2> DEFINE cs == [EmptyChangeSet EXCEPT ![id[1]] = id[2]]
  <2>1. id[1] \in Height /\ id[2] \in Block BY DEF BlockIds
  <2>2. chain[id[1]] = None /\ chain' = ApplyChangeset(chain, cs) /\ Record(cs)
        /\ IsLinked(chain')
    BY <1>3 DEF InsertBlock, CanApply
  <2>3. id[1] # 0 BY <1>1, <2>2, Distinct
  <2>4. cs \in ChangeSet /\ cs[0] = Keep
    BY <2>1, <2>3, Zero DEF ChangeSet, EmptyChangeSet
  <2> HIDE DEF cs
  <2> QED BY <2>2, <2>4, RecordedStep
<1>4. ASSUME NEW id \in BlockIds, DisconnectFrom(id[1], id[2])
      PROVE  IInv'
  <2> DEFINE h == id[1]
  <2> DEFINE cs == [i \in Height |-> IF i >= h /\ chain[i] # None THEN None ELSE Keep]
  <2>1. h \in Height /\ h > 0 BY <1>4 DEF BlockIds, DisconnectFrom
  <2>2. Record(cs) /\ chain' = [i \in Height |-> IF i >= h THEN None ELSE chain[i]]
    BY <1>4 DEF DisconnectFrom
  <2> HIDE DEF h
  <2>3. cs \in ChangeSet BY DEF ChangeSet
  <2>4. cs[0] = Keep BY <2>1, Zero, HeightAssumption DEF Height
  <2>5. chain' = ApplyChangeset(chain, cs)
    BY <2>2, <1>1, Distinct DEF ApplyChangeset
  <2>6. IsLinked(chain')
    BY <2>1, <2>2, <1>1, HeightAssumption DEF IsLinked, BrokenLink, Height
  <2> HIDE DEF cs
  <2> QED BY <2>2, <2>3, <2>4, <2>5, <2>6, RecordedStep
<1>5. ASSUME NEW id \in BlockIds, NEW conn \in BlockIds,
             ApplyHeaderConnectedTo(id[1], id[2], conn[1], conn[2])
      PROVE  IInv'
  <2> DEFINE u == HeaderUpdate(id[1], id[2], conn[1], conn[2])
  <2>1. id[2] \in Block /\ conn[2] \in Block BY DEF BlockIds
  <2>2. u \in SparseChain
    BY <2>1, BlockAssumption DEF HeaderUpdate, SparseChain
  <2> DEFINE cs == MergeChangeset(chain, u)
  <2>3. /\ ~CannotConnect(chain, u) /\ CanApply(chain, cs)
        /\ chain' = MergedChain(chain, u, None) /\ Record(cs)
    BY <1>5 DEF ApplyHeaderConnectedTo
  <2>4. chain' = ApplyChangeset(chain, cs) /\ IsLinked(chain')
    BY <2>3 DEF MergedChain, TakesUpdateTip, CanApply
  <2> HIDE DEF u
  <2>5. cs \in ChangeSet /\ cs[0] = Keep
    BY <1>1, <2>2, <2>3, Distinct, MergeChangesetType, MergeKeepsGenesis
  <2> HIDE DEF cs
  <2> QED BY <2>3, <2>4, <2>5, RecordedStep
<1>6. CASE Persist
  <2>1. persisted' = Recorded /\ stage' = EmptyChangeSet /\ chain' = chain
    BY <1>6 DEF Persist, Recorded
  <2>2. Recorded \in ChangeSet /\ Recorded[0] = Genesis /\ CanLoad(Recorded)
    BY RecordedReplays, ChangesetTypes
       DEF IInv, TypeOK, RecordedIsChain, Recorded, MergeChangeSets, ChangeSet
  <2>3. Recorded' = Recorded
    BY <2>1, <2>2 DEF Recorded, MergeChangeSets, EmptyChangeSet, ChangeSet
  <2>4. TypeOK'
    BY <2>1, <2>2 DEF IInv, TypeOK, EmptyChangeSet, ChangeSet
  <2>5. ChainWellFormed' BY <2>1 DEF IInv, ChainWellFormed
  <2>6. RecordedIsChain' BY <2>1, <2>3 DEF IInv, RecordedIsChain
  <2>7. WrittenLoads' BY <2>1, <2>2 DEF WrittenLoads
  <2> QED BY <2>4, <2>5, <2>6, <2>7 DEF IInv
<1>7. CASE Restart
  <2>1. /\ chain' = FromChangeset(persisted) /\ stage' = EmptyChangeSet
        /\ persisted' = persisted /\ CanLoad(persisted)
    BY <1>7 DEF Restart
  <2>2. persisted \in ChangeSet BY DEF IInv, TypeOK
  <2>3. persisted[0] = Genesis
    BY <2>1, Zero DEF IInv, WrittenLoads, CanLoad, EmptyChangeSet
  <2>4. Recorded' = persisted
    BY <2>1, <2>2 DEF Recorded, MergeChangeSets, EmptyChangeSet, ChangeSet
  <2>5. TypeOK'
    BY <2>1, <2>2, <2>3, FromChangesetAt DEF TypeOK, EmptyChangeSet, ChangeSet
  <2>6. ChainWellFormed'
    BY <2>1, <2>2, <2>3, FromChangesetAt
       DEF ChainWellFormed, CanLoad, CanApply, FromChangeset
  <2>7. RecordedIsChain'
    BY <2>1, <2>2, <2>3, <2>4, FromChangesetAt DEF RecordedIsChain
  <2>8. WrittenLoads' BY <2>1 DEF IInv, WrittenLoads
  <2> QED BY <2>5, <2>6, <2>7, <2>8 DEF IInv
<1>8. CASE UNCHANGED vars
  BY <1>8 DEF vars, IInv, TypeOK, ChainWellFormed, RecordedIsChain, Recorded, WrittenLoads
<1> QED BY <1>2, <1>3, <1>4, <1>5, <1>6, <1>7, <1>8 DEF Next

(* The inductive invariant holds throughout. *)
THEOREM AlwaysIInv == ASSUME NoSharedHeaders PROVE Spec => []IInv
<1>1. Init => IInv BY InitIInv
<1>2. IInv /\ [Next]_vars => IInv' BY NextIInv
<1> QED BY <1>1, <1>2, PTL DEF Spec

-----------------------------------------------------------------------------
(* The theorems. *)

(* The state of a LocalChain and of its changesets keeps its type. *)
THEOREM TypeCorrect == ASSUME NoSharedHeaders PROVE Spec => []TypeOK
<1>1. IInv => TypeOK BY DEF IInv
<1> QED BY <1>1, AlwaysIInv, PTL

(* Replaying the changesets an application was handed rebuilds the chain it   *)
(* sees, after any sequence of updates, reorgs, disconnections and restarts.  *)
THEOREM ReplayAlwaysMatches == ASSUME NoSharedHeaders PROVE Spec => []ReplayMatches
<1>1. IInv => ReplayMatches BY RecordedReplays DEF ReplayMatches, Recorded
<1> QED BY <1>1, AlwaysIInv, PTL

(* An application that stops at any time after its first write can load what  *)
(* it wrote.                                                                  *)
THEOREM RestartAlwaysLoads == ASSUME NoSharedHeaders PROVE Spec => []RestartLoads
<1>1. IInv => RestartLoads
  BY FromChangesetAt DEF IInv, TypeOK, WrittenLoads, RestartLoads
<1> QED BY <1>1, AlwaysIInv, PTL

(* The genesis block stays and no known prev_blockhash link is ever broken.   *)
THEOREM AlwaysWellFormed == ASSUME NoSharedHeaders PROVE Spec => []ChainWellFormed
<1>1. IInv => ChainWellFormed BY DEF IInv
<1> QED BY <1>1, AlwaysIInv, PTL

(* finish in merge_chains never meets a mismatch on an honest update.         *)
THEOREM NeverUnresolved == ASSUME NoSharedHeaders PROVE Spec => []NoUnresolvedMismatch
<1>1. IInv => NoUnresolvedMismatch
  BY HonestUpdateResolved, Distinct
     DEF IInv, TypeOK, ChainWellFormed, NoUnresolvedMismatch
<1> QED BY <1>1, AlwaysIInv, PTL

(* An honest update that connects is taken over whole, leaves no orphan of    *)
(* another branch and costs a chain of its own branch nothing.                *)
THEOREM MergeAlwaysSound == ASSUME NoSharedHeaders PROVE Spec => []MergeSound
<1>1. IInv => MergeSound
  BY HonestUpdateTakenOver, Distinct DEF IInv, TypeOK, ChainWellFormed, MergeSound
<1> QED BY <1>1, AlwaysIInv, PTL

(* The height suggested by a refusal is one the update did not have.          *)
THEOREM SuggestionAlwaysNew == ASSUME NoSharedHeaders PROVE Spec => []SuggestionIsNew
<1>1. IInv => SuggestionIsNew
  BY HonestUpdateHint DEF IInv, TypeOK, ChainWellFormed, SuggestionIsNew
<1> QED BY <1>1, AlwaysIInv, PTL

-----------------------------------------------------------------------------
(***************************************************************************)
(* The promises of CheckPoint::push and CheckPoint::insert, for lists of   *)
(* any length over any block tree, with or without header data.            *)
(***************************************************************************)

(* The list is a list of blocks in which every known link holds. *)
ListInv == list \in SparseChain /\ LinksHold

LEMMA BlockIdType ==
  ASSUME NEW id \in BlockIds
  PROVE  id[1] \in Height /\ id[2] \in Block /\ id[2] # None
BY BlockAssumption DEF BlockIds

(* extend drops everything above the first broken link, so none is left. *)
LEMMA ExtendIsLinked ==
  ASSUME NEW c \in SparseChain
  PROVE  ExtendUpTo(c) \in SparseChain /\ IsLinked(ExtendUpTo(c))
<1> DEFINE e == ExtendUpTo(c)
<1>1. e \in SparseChain BY DEF ExtendUpTo, SparseChain
<1>2. ASSUME NEW h \in Height, BrokenLink(e, h) PROVE FALSE
  <2>1. /\ h + 1 \in Height /\ e[h] # None /\ e[h+1] # None
        /\ PrevBlockhash(e[h+1]) # None /\ PrevBlockhash(e[h+1]) # e[h]
    BY <1>2 DEF BrokenLink
  <2>2. e[h] = c[h] /\ e[h+1] = c[h+1] BY <2>1 DEF ExtendUpTo
  <2>3. BrokenLink(c, h) BY <2>1, <2>2 DEF BrokenLink
  <2>4. h < h + 1 BY HeightAssumption DEF Height
  <2>5. e[h+1] = None BY <2>1, <2>3, <2>4 DEF ExtendUpTo
  <2> QED BY <2>1, <2>5
<1> QED BY <1>1, <1>2 DEF IsLinked

(* What insert builds before it extends is again a list of blocks. *)
LEMMA InsertIsLinked ==
  ASSUME NEW c \in SparseChain, IsLinked(c), NEW h \in Height, NEW b \in Block
  PROVE  Insert(c, h, b) \in SparseChain /\ IsLinked(Insert(c, h, b))
<1>1. CASE c[h] = b BY <1>1 DEF Insert
<1>2. CASE c[h] # b
  <2> DEFINE clear == (c[h] # None) \/ Displaces(c, h, b)
             spliced == [i \in Height |->
                           CASE i = h -> b
                             [] i > h -> IF clear THEN None ELSE c[i]
                             [] i < h -> IF i = h - 1 /\ Displaces(c, h, b) THEN None ELSE c[i]]
  <2>1. spliced \in SparseChain
    <3>1. ASSUME NEW i \in Height PROVE spliced[i] \in Block \cup {None}
      <4>1. i = h \/ i > h \/ i < h BY HeightAssumption DEF Height
      <4>2. c[i] \in Block \cup {None} BY DEF SparseChain
      <4> QED BY <4>1, <4>2
    <3> QED BY <3>1 DEF SparseChain
  <2>2. Insert(c, h, b) = ExtendUpTo(spliced) BY <1>2 DEF Insert
  <2> QED BY <2>1, <2>2, ExtendIsLinked
<1> QED BY <1>1, <1>2

LEMMA PushIsLinked ==
  ASSUME NEW c \in SparseChain, IsLinked(c), NEW h \in Height, NEW b \in Block, CanPush(c, h, b)
  PROVE  [c EXCEPT ![h] = b] \in SparseChain /\ IsLinked([c EXCEPT ![h] = b])
<1> DEFINE p == [c EXCEPT ![h] = b]
<1>1. p \in SparseChain BY DEF SparseChain
<1>2. ASSUME NEW i \in Height, BrokenLink(p, i) PROVE FALSE
  <2>1. /\ i + 1 \in Height /\ p[i] # None /\ p[i+1] # None
        /\ PrevBlockhash(p[i+1]) # None /\ PrevBlockhash(p[i+1]) # p[i]
    BY <1>2 DEF BrokenLink
  <2>2. i + 1 = h \/ i = h \/ (i # h /\ i + 1 # h) OBVIOUS
  <2>3. CASE i + 1 = h
    <3>1. h > 0 /\ h - 1 = i /\ i # h BY <2>3, HeightAssumption DEF Height
    <3>2. p[i+1] = b /\ p[i] = c[i] BY <2>3, <3>1 DEF SparseChain
    <3> QED BY <2>1, <3>1, <3>2 DEF CanPush
  <2>4. CASE i = h
    <3>1. i + 1 # h /\ i + 1 >= h BY <2>4, HeightAssumption DEF Height
    <3>2. p[i+1] = c[i+1] BY <2>1, <3>1 DEF SparseChain
    <3> QED BY <2>1, <3>1, <3>2 DEF CanPush
  <2>5. CASE i # h /\ i + 1 # h
    <3>1. p[i] = c[i] /\ p[i+1] = c[i+1] BY <2>1, <2>5 DEF SparseChain
    <3> QED BY <2>1, <3>1 DEF IsLinked, BrokenLink
  <2> QED BY <2>2, <2>3, <2>4, <2>5
<1> QED BY <1>1, <1>2 DEF IsLinked

(* The genesis block of a list that has one survives a push and an insert. *)
LEMMA GenesisKept ==
  ASSUME ListInv, list[0] # None, ListNext
  PROVE  list'[0] = list[0]
<1>0. 0 \in Height BY HeightAssumption DEF Height
<1>1. PICK id \in BlockIds : Push(id[1], id[2]) \/ DoInsert(id[1], id[2]) BY DEF ListNext
<1> DEFINE h == id[1]
           b == id[2]
<1>2. h \in Height /\ b \in Block /\ b # None BY BlockIdType
<1>3. CASE Push(h, b)
  <2>1. h # 0 BY <1>0, <1>2, <1>3, HeightAssumption DEF Push, CanPush, Height
  <2> QED BY <1>0, <1>3, <2>1 DEF Push, ListInv, SparseChain
<1>4. CASE DoInsert(h, b)
  <2>1. list' = Insert(list, h, b) /\ ~InsertPanics(list, h, b) BY <1>4 DEF DoInsert
  <2>2. CASE list[h] = b BY <2>1, <2>2 DEF Insert
  <2>3. CASE list[h] # b
    <3>1. h # 0 /\ ~(h = 1 /\ Displaces(list, h, b)) BY <2>1, <2>3 DEF InsertPanics
    <3>2. 0 < h /\ ~(0 > h) /\ (0 = h - 1 <=> h = 1) BY <1>2, <3>1, HeightAssumption DEF Height
    <3> DEFINE clear == (list[h] # None) \/ Displaces(list, h, b)
               spliced == [i \in Height |->
                             CASE i = h -> b
                               [] i > h -> IF clear THEN None ELSE list[i]
                               [] i < h -> IF i = h - 1 /\ Displaces(list, h, b) THEN None ELSE list[i]]
    <3>3. spliced[0] = list[0] BY <1>0, <3>1, <3>2
    <3>4. list' = ExtendUpTo(spliced) BY <2>1, <2>3 DEF Insert
    <3>5. \A i \in Height : ~(i < 0) BY HeightAssumption DEF Height
    <3>6. ExtendUpTo(spliced)[0] = spliced[0] BY <1>0, <3>5 DEF ExtendUpTo
    <3> QED BY <3>3, <3>4, <3>6
  <2> QED BY <2>2, <2>3
<1> QED BY <1>1, <1>3, <1>4

(* A list that holds blocks of one branch only has no broken link. *)
LEMMA BranchIsUnbroken ==
  ASSUME NEW c \in SparseChain, NEW b \in Branches, OnBranch(c, b), NEW h \in Height
  PROVE  ~BrokenLink(c, h)
<1>1. SUFFICES ASSUME BrokenLink(c, h) PROVE FALSE OBVIOUS
<1>2. /\ h + 1 \in Height /\ c[h] # None /\ c[h+1] # None
      /\ PrevBlockhash(c[h+1]) # None /\ PrevBlockhash(c[h+1]) # c[h]
  BY <1>1 DEF BrokenLink
<1>3. c[h] = b[h] /\ c[h+1] = b[h+1] BY <1>2 DEF OnBranch
<1>4. h + 1 > 0 /\ (h + 1) - 1 = h BY HeightAssumption DEF Height
<1>5. Parent[b[h+1]] = b[h] BY <1>2, <1>3, <1>4, BranchAssumption
<1> QED BY <1>2, <1>3, <1>5 DEF PrevBlockhash

(* Inserting a block of the list's own branch removes nothing. *)
LEMMA InsertOnBranch ==
  ASSUME NEW c \in SparseChain, NEW b \in Branches, OnBranch(c, b),
         NEW h \in Height, b[h] # None, NEW k \in Height, c[k] # None
  PROVE  Insert(c, h, b[h])[k] = c[k]
<1>1. CASE c[h] = b[h] BY <1>1 DEF Insert
<1>2. CASE c[h] # b[h]
  <2>1. c[h] = None BY <1>2 DEF OnBranch
  <2>2. ~Displaces(c, h, b[h])
    <3>1. SUFFICES ASSUME Displaces(c, h, b[h]) PROVE FALSE OBVIOUS
    <3>2. h > 0 /\ h - 1 \in Height /\ c[h-1] # None
      BY <3>1, HeightAssumption DEF Displaces, Height
    <3>3. c[h-1] = b[h-1] /\ Parent[b[h]] = b[h-1]
      BY <3>2, BranchAssumption DEF OnBranch
    <3> QED BY <3>1, <3>3 DEF Displaces, PrevBlockhash
  <2> DEFINE clear == (c[h] # None) \/ Displaces(c, h, b[h])
             spliced == [i \in Height |->
                           CASE i = h -> b[h]
                             [] i > h -> IF clear THEN None ELSE c[i]
                             [] i < h -> IF i = h - 1 /\ Displaces(c, h, b[h]) THEN None ELSE c[i]]
  <2>3. \A i \in Height : spliced[i] = IF i = h THEN b[h] ELSE c[i]
    BY <2>1, <2>2, HeightAssumption DEF Height
  <2>4. spliced \in SparseChain
    BY <2>3, BranchAssumption DEF SparseChain
  <2>5. OnBranch(spliced, b) BY <2>3 DEF OnBranch
  <2>6. \A i \in Height : ~BrokenLink(spliced, i) BY <2>4, <2>5, BranchIsUnbroken
  <2>7. Insert(c, h, b[h]) = ExtendUpTo(spliced) BY <1>2 DEF Insert
  <2>8. ExtendUpTo(spliced)[k] = spliced[k] BY <2>6 DEF ExtendUpTo
  <2>9. k # h BY <2>1
  <2> QED BY <2>3, <2>7, <2>8, <2>9
<1> QED BY <1>1, <1>2

-----------------------------------------------------------------------------

(* CheckPoint::push and insert: the list stays a list of blocks whose known   *)
(* links hold, whatever blocks of however many branches are offered to it.    *)
THEOREM ListStaysLinked == ListSpec => [](list \in SparseChain /\ LinksHold)
<1>1. ListInit => ListInv
  <2> SUFFICES ASSUME ListInit PROVE ListInv OBVIOUS
  <2>1. PICK id \in BlockIds : list = [h \in Height |-> IF h = id[1] THEN id[2] ELSE None]
    BY DEF ListInit
  <2>2. list \in SparseChain BY <2>1, BlockIdType DEF SparseChain
  <2>3. ASSUME NEW h \in Height, BrokenLink(list, h) PROVE FALSE
    <3>1. h + 1 \in Height /\ list[h] # None /\ list[h+1] # None BY <2>3 DEF BrokenLink
    <3>2. h = id[1] /\ h + 1 = id[1] BY <2>1, <3>1
    <3> QED BY <3>2, HeightAssumption DEF Height
  <2> QED BY <2>2, <2>3 DEF ListInv, LinksHold, IsLinked
<1>2. ListInv /\ [ListNext]_list => ListInv'
  <2> SUFFICES ASSUME ListInv, [ListNext]_list PROVE ListInv' OBVIOUS
  <2>1. CASE UNCHANGED list BY <2>1 DEF ListInv, LinksHold, IsLinked, BrokenLink
  <2>2. CASE ListNext
    <3>1. PICK id \in BlockIds : Push(id[1], id[2]) \/ DoInsert(id[1], id[2]) BY <2>2 DEF ListNext
    <3>2. list \in SparseChain /\ IsLinked(list) BY DEF ListInv, LinksHold
    <3>3. CASE Push(id[1], id[2])
      <4>1. list' \in SparseChain /\ IsLinked(list')
        BY <3>2, <3>3, BlockIdType, PushIsLinked DEF Push
      <4> QED BY <4>1 DEF ListInv, LinksHold
    <3>4. CASE DoInsert(id[1], id[2])
      <4>1. list' \in SparseChain /\ IsLinked(list')
        BY <3>2, <3>4, BlockIdType, InsertIsLinked DEF DoInsert
      <4> QED BY <4>1 DEF ListInv, LinksHold
    <3> QED BY <3>1, <3>3, <3>4
  <2> QED BY <2>1, <2>2
<1>3. ListInv => list \in SparseChain /\ LinksHold BY DEF ListInv
<1> QED BY <1>1, <1>2, <1>3, PTL DEF ListSpec

(* CheckPoint::insert: the genesis block of a list that has one "stays        *)
(* immutable and can't be replaced".                                          *)
THEOREM GenesisAlwaysStays == ListSpec => GenesisStays
<1>1. ListInv /\ [ListNext]_list => [list[0] # None => list'[0] = list[0]]_list
  BY GenesisKept
<1>2. (list \in SparseChain /\ LinksHold) => ListInv BY DEF ListInv
<1> QED BY <1>1, <1>2, ListStaysLinked, PTL DEF ListSpec, GenesisStays

(* CheckPoint::insert: a block of the branch that the list is on costs the    *)
(* list none of its blocks, wherever it is inserted.                          *)
THEOREM InsertAlwaysKeepsBranch == ListSpec => InsertKeepsBranch
<1> DEFINE Kept ==
      \A id \in BlockIds : DoInsert(id[1], id[2]) =>
        \A b \in Branches : (OnBranch(list, b) /\ b[id[1]] = id[2]) =>
          \A h \in Height : list[h] # None => list'[h] = list[h]
<1>1. ListInv /\ [ListNext]_list => [Kept]_list
  <2> SUFFICES ASSUME ListInv, NEW id \in BlockIds, DoInsert(id[1], id[2]),
                      NEW b \in Branches, OnBranch(list, b), b[id[1]] = id[2],
                      NEW h \in Height, list[h] # None
               PROVE  list'[h] = list[h]
    OBVIOUS
  <2>1. id[1] \in Height /\ b[id[1]] # None BY BlockIdType
  <2>2. list' = Insert(list, id[1], b[id[1]]) BY DEF DoInsert
  <2> QED BY <2>1, <2>2, InsertOnBranch DEF ListInv
<1>2. (list \in SparseChain /\ LinksHold) => ListInv BY DEF ListInv
<1> QED BY <1>1, <1>2, ListStaysLinked, PTL DEF ListSpec, InsertKeepsBranch

-----------------------------------------------------------------------------
(***************************************************************************)
(* The loop of merge_chains computes the function of ChainMerge, for every *)
(* block tree and every chain length.  A height is passed when both        *)
(* cursors are below it; the invariant says that the flags, the pending    *)
(* heights and the changeset are those of the heights passed so far.       *)
(***************************************************************************)

Passed(h) == Above(h, currO) /\ Above(h, currU)

InputHolds ==
  /\ orig \in SparseChain /\ orig[0] = Genesis /\ IsLinked(orig)
  /\ upd \in SparseChain
  /\ shared \in Height \cup {None}
  /\ shared # None => SharesNodes(orig, upd, shared)
  /\ pc \in {"loop", "check", "done"}

(* A cursor is at an entry, the entries above it were met together with those *)
(* of the other list, and the one before it is the lowest met so far.         *)
CursorsHold ==
  /\ currO \in Height \cup {None} /\ currU \in Height \cup {None}
  /\ prevO \in Height \cup {None}
  /\ currO # None => IsEntry(orig, currO)
  /\ currU # None => IsEntry(upd, currU)
  /\ \A h \in Height : IsEntry(orig, h) /\ Above(h, currO) => Above(h, currU)
  /\ \A h \in Height : IsEntry(upd, h) /\ Above(h, currU) => Above(h, currO)
  /\ prevO # None => IsEntry(orig, prevO) /\ Above(prevO, currO)
  /\ \A h \in Height : IsEntry(orig, h) /\ Above(h, currO) => prevO # None /\ h >= prevO
  /\ prevU # None <=> \E h \in Height : IsEntry(upd, h) /\ Above(h, currU)

FlagsHold ==
  /\ agreed <=> \E h \in Height : Passed(h) /\ Agrees(orig, upd, h)
  /\ agreed => \A p \in Height : ~AmbiguousAt(orig, upd, p)
  /\ invalidated <=> prevO # None /\ Conflicts(orig, upd, prevO)
  /\ superset <=> \A h \in Height : IsEntry(orig, h) /\ Above(h, currO) => IsEntry(upd, h)
  /\ ~(Above(0, currO) /\ Conflicts(orig, upd, 0))

(* A block of the original that the update lacks was met above a conflict. *)
PurgedSoFar(h) ==
  /\ orig[h] # None /\ ~IsEntry(upd, h)
  /\ \E i \in Height : i < h /\ Above(i, currO) /\ Conflicts(orig, upd, i)

PendingHolds ==
  pending = {h \in Height : /\ orig[h] # None /\ Above(h, currO) /\ ~IsEntry(upd, h)
                            /\ ~PurgedSoFar(h)}

ChangesetHolds ==
  /\ changes \in ChangeSet
  /\ \A h \in Height :
       changes[h] = IF Passed(h) /\ Introduces(orig, upd, h) THEN upd[h]
               ELSE IF PurgedSoFar(h) THEN None ELSE Keep

(* The shared node is still ahead, and every entry of the original that was   *)
(* met had an entry of the update at or below it.                             *)
WhileLooping ==
  /\ shared # None => ~Above(shared, currO) /\ ~Above(shared, currU)
  /\ \A h \in Height : IsEntry(orig, h) /\ Above(h, currO) =>
        \E i \in Height : i <= h /\ IsEntry(upd, i)

AfterLoop ==
  /\ shared = None /\ currU = None
  /\ agreed \/ (prevO # None /\ DisjointAt(orig, upd, prevO))

LoopInv ==
  /\ InputHolds
  /\ pc # "done" => CursorsHold /\ FlagsHold /\ PendingHolds /\ ChangesetHolds
  /\ pc = "loop" => WhileLooping
  /\ pc = "check" => AfterLoop
  /\ LoopComputesMerge

-----------------------------------------------------------------------------
(* Where the cursors go. *)

LEMMA NextEntryFacts ==
  ASSUME NEW c, NEW x \in 0 .. MaxHeight + 1, NEW n, n = NextEntry(c, x)
  PROVE  /\ n \in Height \cup {None}
         /\ n # None => IsEntry(c, n) /\ n < x
         /\ \A h \in Height : h >= x => Above(h, n)
         /\ \A h \in Height : IsEntry(c, h) /\ Above(h, n) => h >= x
<1> DEFINE E == {h \in Height : h < x /\ IsEntry(c, h)}
<1>1. CASE E = {}
  <2>1. n = None BY <1>1 DEF NextEntry
  <2> QED BY <1>1, <2>1, HeightAssumption, LoopAssumption DEF Above, Height
<1>2. CASE E # {}
  <2>1. E \subseteq Height OBVIOUS
  <2>2. PICK m \in E : \A k \in E : k <= m BY <1>2, <2>1, GreatestHeight
  <2> DEFINE IsNext(h) == /\ h < x /\ IsEntry(c, h)
                          /\ \A i \in Height : (i < x /\ IsEntry(c, i)) => i <= h
  <2>3. n = CHOOSE h \in Height : IsNext(h) BY <1>2 DEF NextEntry
  <2>4. m \in Height /\ IsNext(m) BY <2>2
  <2> HIDE DEF IsNext
  <2>5. n \in Height /\ IsNext(n) BY <2>3, <2>4
  <2> QED BY <2>5, HeightAssumption, LoopAssumption DEF Above, Height, IsNext
<1> QED BY <1>1, <1>2

LEMMA EntryOfBlock ==
  ASSUME NEW c \in SparseChain, NEW h \in Height, c[h] # None
  PROVE  IsEntry(c, h)
BY OccupiedEntry DEF IsEntry

LEMMA InBothMeansEntries ==
  ASSUME NEW h \in Height, InBoth(orig, upd, h)
  PROVE  IsEntry(orig, h) /\ IsEntry(upd, h)
BY DEF InBoth, IsEntry

(* Below the shared node the lists have the same entries. *)
LEMMA SharedEntries ==
  ASSUME NEW k \in Height, SharesNodes(orig, upd, k), NEW h \in Height, h <= k
  PROVE  EntryHash(orig, h) = EntryHash(upd, h)
<1>1. upd[h] = orig[h] BY DEF SharesNodes
<1>2. CASE h = k BY <1>1, <1>2 DEF SharesNodes, EntryHash, Placeholder
<1>3. CASE h < k
  <2>1. h + 1 \in Height /\ h + 1 <= k BY <1>3, HeightAssumption DEF Height
  <2>2. upd[h+1] = orig[h+1] BY <2>1 DEF SharesNodes
  <2> QED BY <1>1, <2>2 DEF EntryHash, Placeholder
<1> QED BY <1>2, <1>3, HeightAssumption DEF Height

LEMMA InitLoopInv ==
  ASSUME LoopInit
  PROVE  LoopInv
<1>1. InputHolds
  BY DEF LoopInit, InputHolds, Originals, Updates
<1>2. MaxHeight + 1 \in 0 .. MaxHeight + 1 BY HeightAssumption
<1>3. \A h \in Height : ~(h >= MaxHeight + 1) BY HeightAssumption DEF Height
<1>4. /\ currO \in Height \cup {None}
      /\ currO # None => IsEntry(orig, currO)
      /\ \A h \in Height : ~(IsEntry(orig, h) /\ Above(h, currO))
  BY <1>2, <1>3, NextEntryFacts DEF LoopInit
<1>5. /\ currU \in Height \cup {None}
      /\ currU # None => IsEntry(upd, currU)
      /\ \A h \in Height : ~(IsEntry(upd, h) /\ Above(h, currU))
  BY <1>2, <1>3, NextEntryFacts DEF LoopInit
<1>6. /\ prevO = None /\ prevU = None /\ agreed = FALSE /\ invalidated = FALSE
      /\ pending = {} /\ superset = TRUE /\ changes = EmptyChangeSet /\ pc = "loop"
  BY DEF LoopInit
<1>7. CursorsHold BY <1>4, <1>5, <1>6 DEF CursorsHold
<1>8. 0 \in Height BY HeightAssumption DEF Height
<1>9. FlagsHold
  BY <1>4, <1>6, <1>8 DEF FlagsHold, Passed, Agrees, Conflicts, InBoth, IsEntry
<1>10. \A h \in Height : ~PurgedSoFar(h)
  BY <1>4 DEF PurgedSoFar, Conflicts, InBoth, IsEntry
<1>11. PendingHolds
  BY <1>1, <1>4, <1>6, EntryOfBlock DEF PendingHolds, InputHolds
<1>12. \A h \in Height : ~(Passed(h) /\ Introduces(orig, upd, h))
  BY <1>1, <1>4, <1>5, EntryOfBlock
     DEF Passed, Introduces, Conflicts, InBoth, InputHolds, IsEntry
<1>13. ChangesetHolds
  BY <1>6, <1>10, <1>12 DEF ChangesetHolds, EmptyChangeSet, ChangeSet
<1>14. WhileLooping
  <2>1. ASSUME shared # None PROVE IsEntry(orig, shared) /\ IsEntry(upd, shared)
    BY <1>1, <2>1, EntryOfBlock, HeightAssumption DEF InputHolds, SharesNodes, Height
  <2> QED BY <1>1, <1>4, <1>5, <2>1 DEF WhileLooping, InputHolds
<1> QED BY <1>1, <1>6, <1>7, <1>9, <1>11, <1>13, <1>14 DEF LoopInv, LoopComputesMerge

-----------------------------------------------------------------------------
(* Both cursors at one height c. *)

Looping == LoopInv /\ pc = "loop"

LEMMA SameHeightFacts ==
  ASSUME Looping, AtSameHeight
  PROVE  /\ currO \in Height /\ currU = currO
         /\ InBoth(orig, upd, currO)
         /\ \A h \in Height : h > currO <=> Passed(h)
         /\ \A h \in Height : h > currO <=> Above(h, currO)
         /\ SameHash => Agrees(orig, upd, currO)
         /\ ~SameHash => Conflicts(orig, upd, currO)
<1>1. CursorsHold BY DEF Looping, LoopInv
<1>2. currO \in Height /\ currU = currO BY <1>1 DEF AtSameHeight, CursorsHold
<1>3. InBoth(orig, upd, currO)
  BY <1>1, <1>2, LoopAssumption, HeightAssumption DEF CursorsHold, InBoth, IsEntry, Height
<1>4. \A h \in Height : (h > currO <=> Passed(h)) /\ (h > currO <=> Above(h, currO))
  BY <1>2, LoopAssumption, HeightAssumption DEF Passed, Above, Height
<1> QED BY <1>2, <1>3, <1>4 DEF SameHash, Agrees, Conflicts

(* When nothing was agreed on before, c is the point of agreement, and only   *)
(* the entry met last could be ambiguous.                                     *)
LEMMA FirstAgreement ==
  ASSUME Looping, AtSameHeight, SameHash, ~agreed
  PROVE  /\ IsAgreementPoint(orig, upd, currO)
         /\ \A h \in Height : IsAgreementPoint(orig, upd, h) => h = currO
         /\ \A p \in Height : IsEntryAbove(orig, currO, p) <=> p = prevO
<1>1. CursorsHold /\ FlagsHold BY DEF Looping, LoopInv
<1>2. /\ currO \in Height /\ Agrees(orig, upd, currO)
      /\ \A h \in Height : h > currO <=> Passed(h)
      /\ \A h \in Height : h > currO <=> Above(h, currO)
  BY SameHeightFacts
<1>3. \A i \in Height : i > currO => ~Agrees(orig, upd, i) BY <1>1, <1>2 DEF FlagsHold
<1>4. IsAgreementPoint(orig, upd, currO) BY <1>2, <1>3 DEF IsAgreementPoint
<1>5. \A h \in Height : IsAgreementPoint(orig, upd, h) => h = currO
  BY <1>2, <1>3, HeightAssumption DEF IsAgreementPoint, Height
<1>6. ASSUME NEW p \in Height PROVE IsEntryAbove(orig, currO, p) <=> p = prevO
  <2>1. ASSUME IsEntryAbove(orig, currO, p) PROVE p = prevO
    <3>1. p > currO /\ IsEntry(orig, p) BY <2>1 DEF IsEntryAbove, IsEntry
    <3>2. prevO \in Height /\ p >= prevO BY <1>1, <1>2, <3>1 DEF CursorsHold
    <3>3. IsEntry(orig, prevO) /\ prevO > currO
      BY <1>1, <1>2, <3>2, LoopAssumption, HeightAssumption DEF CursorsHold, Height
    <3> QED BY <1>2, <2>1, <3>2, <3>3, HeightAssumption DEF IsEntryAbove, IsEntry, Height
  <2>2. ASSUME p = prevO PROVE IsEntryAbove(orig, currO, p)
    <3>1. prevO # None BY <2>2, LoopAssumption, HeightAssumption DEF Height
    <3>2. IsEntry(orig, p) /\ p > currO BY <1>1, <1>2, <2>2, <3>1 DEF CursorsHold
    <3>3. \A i \in Height : currO < i /\ i < p => EntryHash(orig, i) = None
      BY <1>1, <1>2, <2>2, HeightAssumption DEF CursorsHold, IsEntry, Height
    <3> QED BY <3>2, <3>3 DEF IsEntryAbove, IsEntry
  <2> QED BY <2>1, <2>2
<1> QED BY <1>4, <1>5, <1>6

(* The test in the loop is the definition of an ambiguous merge. *)
LEMMA AmbiguousMeans ==
  ASSUME Looping, AtSameHeight, SameHash
  PROVE  /\ Ambiguous => prevO \in Height /\ \A p \in Height : AmbiguousAt(orig, upd, p) <=> p = prevO
         /\ ~Ambiguous => \A p \in Height : ~AmbiguousAt(orig, upd, p)
<1>1. CursorsHold /\ FlagsHold BY DEF Looping, LoopInv
<1>2. CASE agreed BY <1>1, <1>2 DEF FlagsHold, Ambiguous
<1>3. CASE ~agreed
  <2>1. /\ IsAgreementPoint(orig, upd, currO)
        /\ \A h \in Height : IsAgreementPoint(orig, upd, h) => h = currO
        /\ \A p \in Height : IsEntryAbove(orig, currO, p) <=> p = prevO
    BY <1>3, FirstAgreement
  <2>2. currO \in Height /\ currU = currO
        /\ \A h \in Height : h > currO <=> Above(h, currO)
    BY SameHeightFacts
  <2>3. prevU # None <=> \E i \in Height : i > currO /\ EntryHash(upd, i) # None
    BY <1>1, <2>2 DEF CursorsHold, IsEntry
  <2>4. ASSUME NEW p \in Height
        PROVE  AmbiguousAt(orig, upd, p) <=> p = prevO /\ ~Conflicts(orig, upd, p) /\ prevU # None
    BY <2>1, <2>2, <2>3 DEF AmbiguousAt
  <2>5. Ambiguous <=> prevO # None /\ ~Conflicts(orig, upd, prevO) /\ prevU # None
    BY <1>1, <1>3 DEF FlagsHold, Ambiguous
  <2>6. prevO \in Height \cup {None} BY <1>1 DEF CursorsHold
  <2>7. ASSUME Ambiguous
        PROVE  prevO \in Height /\ \A p \in Height : AmbiguousAt(orig, upd, p) <=> p = prevO
    BY <2>4, <2>5, <2>6, <2>7
  <2>8. ASSUME ~Ambiguous, NEW p \in Height PROVE ~AmbiguousAt(orig, upd, p)
    BY <2>4, <2>5, <2>8, LoopAssumption, HeightAssumption DEF Height
  <2> QED BY <2>7, <2>8
<1> QED BY <1>2, <1>3

-----------------------------------------------------------------------------
(* One lemma for each action of the loop. *)

LEMMA UpdateOnlyKeeps ==
  ASSUME Looping, UpdateOnly
  PROVE  LoopInv'
<1>1. InputHolds /\ CursorsHold /\ FlagsHold /\ PendingHolds /\ ChangesetHolds /\ WhileLooping
  BY DEF Looping, LoopInv
<1>2. /\ orig' = orig /\ upd' = upd /\ shared' = shared /\ pc = "loop" /\ pc' = pc
      /\ currO' = currO /\ prevO' = prevO /\ result' = result
      /\ agreed' = agreed /\ invalidated' = invalidated
      /\ pending' = pending /\ superset' = superset
      /\ prevU' = currU /\ currU' = NextEntry(upd, currU)
      /\ changes' = IF upd[currU] # None THEN [changes EXCEPT ![currU] = upd[currU]] ELSE changes
  BY DEF UpdateOnly, StepU, input, flags
<1>3. /\ currU \in Height /\ IsEntry(upd, currU) /\ Above(currU, currO)
      /\ currU # None
  BY <1>1, LoopAssumption, HeightAssumption DEF UpdateOnly, Above, CursorsHold, Height
<1>4. /\ currU' \in Height \cup {None}
      /\ currU' # None => IsEntry(upd, currU') /\ currU' < currU
      /\ \A h \in Height : h >= currU => Above(h, currU')
      /\ \A h \in Height : IsEntry(upd, h) /\ Above(h, currU') => h >= currU
  <2>1. currU \in 0 .. MaxHeight + 1 BY <1>3, HeightAssumption DEF Height
  <2> QED BY <1>2, <2>1, NextEntryFacts
<1>5. \A h \in Height : Above(h, currU) <=> h > currU
  BY <1>3, LoopAssumption, HeightAssumption DEF Above, Height
<1>6. ~IsEntry(orig, currU)
  BY <1>1, <1>3, <1>5, HeightAssumption DEF CursorsHold, Height
<1>7. \A h \in Height : h >= currU <=> h > currU \/ h = currU
  BY <1>3, HeightAssumption DEF Height
<1>8. CursorsHold'
  <2>1. \A h \in Height : IsEntry(orig, h) /\ Above(h, currO) => Above(h, currU')
    BY <1>1, <1>4, <1>5, <1>7 DEF CursorsHold
  <2>2. \A h \in Height : IsEntry(upd, h) /\ Above(h, currU') => Above(h, currO)
    BY <1>1, <1>3, <1>4, <1>5, <1>7 DEF CursorsHold
  <2>3. \E h \in Height : IsEntry(upd, h) /\ Above(h, currU') BY <1>3, <1>4, <1>7
  <2> QED BY <1>1, <1>2, <1>3, <1>4, <2>1, <2>2, <2>3 DEF CursorsHold
<1>9. \A h \in Height : IsEntry(orig, h) => (Passed(h)' <=> Passed(h))
  BY <1>1, <1>2, <1>4, <1>5, <1>7 DEF CursorsHold, Passed
<1>10. \A h \in Height : IsEntry(upd, h) => (Passed(h)' <=> Passed(h) \/ h = currU)
  BY <1>1, <1>2, <1>3, <1>4, <1>5, <1>7 DEF CursorsHold, Passed
<1>11. FlagsHold'
  <2>1. \A h \in Height : Agrees(orig, upd, h) => IsEntry(orig, h) BY DEF Agrees, InBoth, IsEntry
  <2> QED BY <1>1, <1>2, <1>9, <2>1 DEF FlagsHold
<1>12. \A h \in Height : PurgedSoFar(h)' <=> PurgedSoFar(h) BY <1>2 DEF PurgedSoFar
<1>13. PendingHolds' BY <1>1, <1>2, <1>12 DEF PendingHolds
<1>14. ChangesetHolds'
  <2>1. orig[currU] = None BY <1>1, <1>3, <1>6, EntryOfBlock DEF InputHolds
  <2>2. ~Conflicts(orig, upd, currU) BY <1>6 DEF Conflicts, InBoth, IsEntry
  <2>3. changes' \in ChangeSet
    BY <1>1, <1>2, <1>3 DEF ChangesetHolds, ChangeSet, InputHolds, SparseChain
  <2>4. ASSUME NEW h \in Height
        PROVE  changes'[h] = IF Passed(h)' /\ Introduces(orig, upd, h) THEN upd[h]
                        ELSE IF PurgedSoFar(h) THEN None ELSE Keep
    <3>1. CASE h = currU
      <4>1. ~PurgedSoFar(h) BY <3>1, <1>3 DEF PurgedSoFar
      <4>2. Introduces(orig, upd, h) <=> upd[h] # None BY <3>1, <2>1, <2>2 DEF Introduces
      <4>3. Passed(h)' BY <3>1, <1>3, <1>10
      <4>4. ~Passed(h) BY <3>1, <1>5, HeightAssumption DEF Passed, Height
      <4>5. changes[h] = Keep BY <1>1, <4>1, <4>4 DEF ChangesetHolds
      <4>6. changes'[h] = IF upd[h] # None THEN upd[h] ELSE changes[h]
        BY <3>1, <1>1, <1>2 DEF ChangesetHolds, ChangeSet
      <4> QED BY <4>1, <4>2, <4>3, <4>5, <4>6
    <3>2. CASE h # currU
      <4>1. changes'[h] = changes[h] BY <3>2, <1>1, <1>2 DEF ChangesetHolds, ChangeSet
      <4>2. Introduces(orig, upd, h) => IsEntry(upd, h)
        BY <1>1, EntryOfBlock DEF Introduces, Conflicts, InBoth, IsEntry, InputHolds
      <4>3. Introduces(orig, upd, h) => (Passed(h)' <=> Passed(h)) BY <3>2, <4>2, <1>10
      <4> QED BY <1>1, <4>1, <4>3 DEF ChangesetHolds
    <3> QED BY <3>1, <3>2
  <2> QED BY <1>2, <1>12, <2>3, <2>4 DEF ChangesetHolds
<1>15. WhileLooping'
  <2>1. ASSUME shared # None PROVE ~Above(shared, currU')
    <3>1. shared \in Height /\ shared # currU /\ ~Above(shared, currU)
      BY <1>1, <1>3, <2>1, HeightAssumption, LoopAssumption DEF InputHolds, WhileLooping, Above, Height
    <3>2. IsEntry(upd, shared)
      BY <1>1, <2>1, <3>1, EntryOfBlock, HeightAssumption DEF InputHolds, SharesNodes, Height
    <3> QED BY <1>4, <1>5, <1>7, <3>1, <3>2
  <2> QED BY <1>1, <1>2, <2>1 DEF WhileLooping
<1>16. InputHolds' BY <1>1, <1>2 DEF InputHolds
<1> QED BY <1>2, <1>8, <1>11, <1>13, <1>14, <1>15, <1>16 DEF LoopInv, LoopComputesMerge

LEMMA OriginalOnlyKeeps ==
  ASSUME Looping, OriginalOnly
  PROVE  LoopInv'
<1>1. InputHolds /\ CursorsHold /\ FlagsHold /\ PendingHolds /\ ChangesetHolds /\ WhileLooping
  BY DEF Looping, LoopInv
<1>2. /\ orig' = orig /\ upd' = upd /\ shared' = shared
      /\ currU' = currU /\ prevU' = prevU /\ agreed' = agreed /\ changes' = changes
      /\ invalidated' = FALSE /\ superset' = FALSE
      /\ prevO' = currO /\ currO' = NextEntry(orig, currO)
      /\ pending' = IF orig[currO] # None THEN pending \cup {currO} ELSE pending
      /\ pc' = IF currU = None THEN "check" ELSE "loop"
  BY DEF OriginalOnly, StepO, input
<1>3. /\ currO \in Height /\ IsEntry(orig, currO) /\ Above(currO, currU)
      /\ currO # None
  BY <1>1, LoopAssumption, HeightAssumption DEF OriginalOnly, Above, CursorsHold, Height
<1>4. /\ currO' \in Height \cup {None}
      /\ currO' # None => IsEntry(orig, currO') /\ currO' < currO
      /\ \A h \in Height : h >= currO => Above(h, currO')
      /\ \A h \in Height : IsEntry(orig, h) /\ Above(h, currO') => h >= currO
  <2>1. currO \in 0 .. MaxHeight + 1 BY <1>3, HeightAssumption DEF Height
  <2> QED BY <1>2, <2>1, NextEntryFacts
<1>5. \A h \in Height : Above(h, currO) <=> h > currO
  BY <1>3, LoopAssumption, HeightAssumption DEF Above, Height
<1>6. ~IsEntry(upd, currO)
  BY <1>1, <1>3, <1>5, HeightAssumption DEF CursorsHold, Height
<1>7. \A h \in Height : h >= currO <=> h > currO \/ h = currO
  BY <1>3, HeightAssumption DEF Height
<1>8. \A h \in Height : IsEntry(orig, h) => (Above(h, currO') <=> Above(h, currO) \/ h = currO)
  BY <1>4, <1>5, <1>7
<1>9. CursorsHold'
  <2>1. \A h \in Height : IsEntry(orig, h) /\ Above(h, currO') => Above(h, currU)
    BY <1>1, <1>3, <1>8 DEF CursorsHold
  <2>2. \A h \in Height : IsEntry(upd, h) /\ Above(h, currU) => Above(h, currO')
    BY <1>1, <1>4, <1>5, <1>7 DEF CursorsHold
  <2>3. \A h \in Height : IsEntry(orig, h) /\ Above(h, currO') => h >= currO
    BY <1>4
  <2>4. Above(currO, currO') BY <1>3, <1>4, <1>7
  <2> QED BY <1>1, <1>2, <1>3, <1>4, <2>1, <2>2, <2>3, <2>4 DEF CursorsHold
<1>10. \A h \in Height : IsEntry(upd, h) => (Passed(h)' <=> Passed(h))
  BY <1>1, <1>2, <1>4, <1>5, <1>7 DEF CursorsHold, Passed
<1>11. \A h \in Height : Conflicts(orig, upd, h) => (Above(h, currO') <=> Above(h, currO))
  BY <1>6, <1>8 DEF Conflicts, InBoth, IsEntry
<1>12. FlagsHold'
  <2>1. \A h \in Height : Agrees(orig, upd, h) => IsEntry(upd, h) BY DEF Agrees, InBoth, IsEntry
  <2>2. 0 \in Height BY HeightAssumption DEF Height
  <2>3. ~Conflicts(orig, upd, currO) BY <1>6 DEF Conflicts, InBoth, IsEntry
  <2>4. \E h \in Height : IsEntry(orig, h) /\ Above(h, currO') /\ ~IsEntry(upd, h)
    BY <1>3, <1>6, <1>8
  <2>5. ~(Above(0, currO') /\ Conflicts(orig, upd, 0)) BY <1>1, <1>11, <2>2 DEF FlagsHold
  <2>6. agreed' <=> \E h \in Height : Passed(h)' /\ Agrees(orig, upd, h)
    BY <1>1, <1>2, <1>10, <2>1 DEF FlagsHold
  <2>7. agreed' => \A p \in Height : ~AmbiguousAt(orig, upd, p) BY <1>1, <1>2 DEF FlagsHold
  <2> QED BY <1>2, <2>3, <2>4, <2>5, <2>6, <2>7 DEF FlagsHold
<1>13. \A h \in Height : PurgedSoFar(h)' <=> PurgedSoFar(h)
  BY <1>2, <1>11 DEF PurgedSoFar
<1>14. PendingHolds'
  <2> DEFINE P == {h \in Height : /\ orig[h] # None /\ Above(h, currO') /\ ~IsEntry(upd, h)
                                  /\ ~PurgedSoFar(h)}
  <2>1. ASSUME NEW h \in Height PROVE h \in pending' <=> h \in P
    <3>1. CASE h = currO
      <4>1. ~PurgedSoFar(h)
        BY <3>1, <1>3, <1>5, HeightAssumption DEF PurgedSoFar, Height
      <4>2. h \notin pending BY <3>1, <1>1, <1>5, HeightAssumption DEF PendingHolds, Height
      <4> QED BY <3>1, <1>2, <1>3, <1>6, <1>8, <4>1, <4>2
    <3>2. CASE h # currO
      <4>1. h \in pending' <=> h \in pending BY <3>2, <1>2
      <4>2. orig[h] # None => (Above(h, currO') <=> Above(h, currO))
        BY <3>2, <1>1, <1>8, EntryOfBlock DEF InputHolds
      <4> QED BY <1>1, <4>1, <4>2 DEF PendingHolds
    <3> QED BY <3>1, <3>2
  <2>2. pending' \subseteq Height BY <1>1, <1>2, <1>3 DEF PendingHolds
  <2>3. pending' = P BY <2>1, <2>2
  <2> QED BY <1>2, <1>13, <2>3 DEF PendingHolds
<1>15. ChangesetHolds'
  <2>1. ASSUME NEW h \in Height, Introduces(orig, upd, h) PROVE Passed(h)' <=> Passed(h)
    <3>1. IsEntry(upd, h)
      BY <1>1, <2>1, EntryOfBlock DEF Introduces, Conflicts, InBoth, IsEntry, InputHolds
    <3> QED BY <1>10, <3>1
  <2> QED BY <1>1, <1>2, <1>13, <2>1 DEF ChangesetHolds
<1>16. ASSUME currU # None PROVE WhileLooping'
  <2>1. currU \in Height /\ IsEntry(upd, currU) /\ currU < currO
    BY <1>1, <1>3, <1>16, HeightAssumption DEF CursorsHold, Above, Height
  <2>2. ASSUME shared # None PROVE ~Above(shared, currO')
    <3>1. shared \in Height /\ shared # currO /\ ~Above(shared, currO)
      BY <1>1, <1>3, <2>2, HeightAssumption, LoopAssumption DEF InputHolds, WhileLooping, Above, Height
    <3>2. IsEntry(orig, shared)
      BY <1>1, <2>2, <3>1, EntryOfBlock, HeightAssumption DEF InputHolds, SharesNodes, Height
    <3> QED BY <1>8, <3>1, <3>2
  <2>3. currU <= currO BY <2>1, <1>3, HeightAssumption DEF Height
  <2>4. \A h \in Height : IsEntry(orig, h) /\ Above(h, currO') =>
          \E i \in Height : i <= h /\ IsEntry(upd, i)
    BY <1>1, <1>8, <2>1, <2>3 DEF WhileLooping
  <2> QED BY <1>1, <1>2, <2>2, <2>4 DEF WhileLooping
<1>17. ASSUME currU = None PROVE AfterLoop'
  <2>1. shared = None
    BY <1>1, <1>17, LoopAssumption, HeightAssumption DEF WhileLooping, Above, InputHolds, Height
  <2>2. ASSUME ~agreed PROVE DisjointAt(orig, upd, currO)
    <3>1. \A h \in Height : IsEntry(upd, h) => Above(h, currU)
      BY <1>17, LoopAssumption, HeightAssumption DEF Above, Height
    <3>2. \A h \in Height : IsEntry(upd, h) => h > currO
      BY <1>1, <1>5, <3>1 DEF CursorsHold
    <3>3. \A h \in Height : Agrees(orig, upd, h) => Passed(h)
      BY <1>5, <3>1, <3>2 DEF Agrees, InBoth, IsEntry, Passed
    <3>4. \A h \in Height : ~Agrees(orig, upd, h) BY <1>1, <2>2, <3>3 DEF FlagsHold
    <3>5. \A h \in Height : h > currO /\ IsEntry(orig, h) => \E i \in Height : i <= h /\ IsEntry(upd, i)
      BY <1>1, <1>5 DEF WhileLooping
    <3> QED BY <1>3, <3>2, <3>4, <3>5 DEF DisjointAt, IsEntry
  <2> QED BY <1>2, <1>3, <1>17, <2>1, <2>2 DEF AfterLoop
<1>18. InputHolds' BY <1>1, <1>2 DEF InputHolds
<1> QED BY <1>2, <1>9, <1>12, <1>14, <1>15, <1>16, <1>17, <1>18 DEF LoopInv, LoopComputesMerge

(* Both cursors move on from one height. *)
LEMMA BothStep ==
  ASSUME Looping, AtSameHeight, StepO, StepU, UNCHANGED input
  PROVE  /\ CursorsHold'
         /\ \A h \in Height : IsEntry(orig, h) => (Above(h, currO') <=> Above(h, currO) \/ h = currO)
         /\ \A h \in Height : IsEntry(orig, h) \/ IsEntry(upd, h) => (Passed(h)' <=> Passed(h) \/ h = currO)
         /\ prevO' = currO
<1>1. CursorsHold BY DEF Looping, LoopInv
<1>2. /\ orig' = orig /\ upd' = upd
      /\ prevO' = currO /\ currO' = NextEntry(orig, currO)
      /\ prevU' = currO /\ currU' = NextEntry(upd, currO)
  BY DEF StepO, StepU, AtSameHeight, input
<1>3. /\ currO \in Height /\ currU = currO /\ currO # None
      /\ IsEntry(orig, currO) /\ IsEntry(upd, currO)
      /\ \A h \in Height : h > currO <=> Passed(h)
      /\ \A h \in Height : h > currO <=> Above(h, currO)
  BY SameHeightFacts, InBothMeansEntries DEF AtSameHeight
<1>4. currO \in 0 .. MaxHeight + 1 BY <1>3, HeightAssumption DEF Height
<1>5. /\ currO' \in Height \cup {None}
      /\ currO' # None => IsEntry(orig, currO') /\ currO' < currO
      /\ \A h \in Height : h >= currO => Above(h, currO')
      /\ \A h \in Height : IsEntry(orig, h) /\ Above(h, currO') => h >= currO
  BY <1>2, <1>4, NextEntryFacts
<1>6. /\ currU' \in Height \cup {None}
      /\ currU' # None => IsEntry(upd, currU') /\ currU' < currO
      /\ \A h \in Height : h >= currO => Above(h, currU')
      /\ \A h \in Height : IsEntry(upd, h) /\ Above(h, currU') => h >= currO
  BY <1>2, <1>4, NextEntryFacts
<1>7. \A h \in Height : h >= currO <=> h > currO \/ h = currO
  BY <1>3, HeightAssumption DEF Height
<1>8. Above(currO, currO') BY <1>3, <1>5, <1>7
<1>9. \E h \in Height : IsEntry(upd, h) /\ Above(h, currU') BY <1>3, <1>6, <1>7
<1>10. CursorsHold' BY <1>2, <1>3, <1>5, <1>6, <1>8, <1>9 DEF CursorsHold
<1>11. \A h \in Height : IsEntry(orig, h) => (Above(h, currO') <=> Above(h, currO) \/ h = currO)
  BY <1>3, <1>5, <1>7
<1>12. \A h \in Height : IsEntry(orig, h) \/ IsEntry(upd, h) => (Passed(h)' <=> Passed(h) \/ h = currO)
  BY <1>3, <1>5, <1>6, <1>7 DEF Passed
<1> QED BY <1>2, <1>10, <1>11, <1>12

LEMMA AgreeKeeps ==
  ASSUME Looping, Agree
  PROVE  LoopInv'
<1>1. InputHolds /\ CursorsHold /\ FlagsHold /\ PendingHolds /\ ChangesetHolds /\ WhileLooping
  BY DEF Looping, LoopInv
<1>2. /\ orig' = orig /\ upd' = upd /\ shared' = shared /\ pc = "loop" /\ pc' = pc
      /\ pending' = pending /\ superset' = superset
      /\ agreed' = TRUE /\ invalidated' = FALSE /\ currO # shared
      /\ AtSameHeight /\ SameHash /\ ~Ambiguous
  BY DEF Agree, AtSameHeight, input
<1>3. /\ currO \in Height /\ currU = currO
      /\ IsEntry(orig, currO) /\ IsEntry(upd, currO)
      /\ Agrees(orig, upd, currO)
      /\ \A h \in Height : h > currO <=> Passed(h)
      /\ \A h \in Height : h > currO <=> Above(h, currO)
  BY <1>2, SameHeightFacts, InBothMeansEntries DEF AtSameHeight
<1>4. /\ CursorsHold'
      /\ \A h \in Height : IsEntry(orig, h) => (Above(h, currO') <=> Above(h, currO) \/ h = currO)
      /\ \A h \in Height : IsEntry(orig, h) \/ IsEntry(upd, h) => (Passed(h)' <=> Passed(h) \/ h = currO)
      /\ prevO' = currO
  BY BothStep, <1>2 DEF Agree, input
<1>5. ~Conflicts(orig, upd, currO) BY <1>3 DEF Agrees, Conflicts
<1>6. \A h \in Height : Conflicts(orig, upd, h) => (Above(h, currO') <=> Above(h, currO))
  BY <1>4, <1>5 DEF Conflicts, InBoth, IsEntry
<1>7. FlagsHold'
  <2>2. \E h \in Height : Passed(h)' /\ Agrees(orig, upd, h)
    <3>1. \A h \in Height : h = currO => Passed(h)' BY <1>3, <1>4
    <3> QED BY <1>3, <3>1
  <2>3. \A p \in Height : ~AmbiguousAt(orig, upd, p) BY <1>2, AmbiguousMeans
  <2>4. superset <=> \A h \in Height : IsEntry(orig, h) /\ Above(h, currO') => IsEntry(upd, h)
    BY <1>1, <1>3, <1>4 DEF FlagsHold
  <2>5. 0 \in Height BY HeightAssumption DEF Height
  <2>6. ~(Above(0, currO)' /\ Conflicts(orig, upd, 0)) BY <1>1, <1>6, <2>5 DEF FlagsHold
  <2> QED BY <1>2, <1>4, <1>5, <2>2, <2>3, <2>4, <2>6 DEF FlagsHold
<1>8. \A h \in Height : PurgedSoFar(h)' <=> PurgedSoFar(h)
  BY <1>2, <1>6 DEF PurgedSoFar
<1>9. PendingHolds'
  <2>1. ASSUME NEW h \in Height, orig[h] # None, ~IsEntry(upd, h)
        PROVE  Above(h, currO') <=> Above(h, currO)
    BY <1>1, <1>3, <1>4, <2>1, EntryOfBlock DEF InputHolds
  <2> QED BY <1>1, <1>2, <1>8, <2>1 DEF PendingHolds
<1>10. ChangesetHolds'
  <2>1. changes' = IF upd[currO] # None /\ orig[currO] = None THEN [changes EXCEPT ![currO] = upd[currO]] ELSE changes
    BY <1>3 DEF Agree
  <2>2. changes' \in ChangeSet
    BY <1>1, <1>3, <2>1 DEF ChangesetHolds, ChangeSet, InputHolds, SparseChain
  <2>3. ASSUME NEW h \in Height
        PROVE  changes'[h] = IF Passed(h)' /\ Introduces(orig, upd, h) THEN upd[h]
                        ELSE IF PurgedSoFar(h) THEN None ELSE Keep
    <3>1. CASE h = currO
      <4>1. ~PurgedSoFar(h) BY <3>1, <1>3 DEF PurgedSoFar
      <4>2. Introduces(orig, upd, h) <=> orig[h] = None /\ upd[h] # None BY <3>1, <1>5 DEF Introduces
      <4>3. Passed(h)' BY <3>1, <1>3, <1>4
      <4>4. ~Passed(h) BY <3>1, <1>3, HeightAssumption DEF Height
      <4>5. changes[h] = Keep BY <1>1, <4>1, <4>4 DEF ChangesetHolds
      <4>6. changes'[h] = IF upd[h] # None /\ orig[h] = None THEN upd[h] ELSE changes[h]
        BY <3>1, <1>1, <2>1 DEF ChangesetHolds, ChangeSet
      <4> QED BY <4>1, <4>2, <4>3, <4>5, <4>6
    <3>2. CASE h # currO
      <4>1. changes'[h] = changes[h] BY <3>2, <1>1, <2>1 DEF ChangesetHolds, ChangeSet
      <4>2. Introduces(orig, upd, h) => IsEntry(upd, h)
        BY <1>1, EntryOfBlock DEF Introduces, Conflicts, InBoth, IsEntry, InputHolds
      <4>3. Introduces(orig, upd, h) => (Passed(h)' <=> Passed(h)) BY <3>2, <4>2, <1>4
      <4> QED BY <1>1, <4>1, <4>3 DEF ChangesetHolds
    <3> QED BY <3>1, <3>2
  <2> QED BY <1>2, <1>8, <2>2, <2>3 DEF ChangesetHolds
<1>11. WhileLooping'
  <2>1. ASSUME shared # None PROVE ~Above(shared, currO') /\ ~Above(shared, currU')
    <3>1. shared \in Height /\ shared # currO /\ ~Above(shared, currO) /\ ~Above(shared, currU)
      BY <1>1, <1>2, <2>1 DEF InputHolds, WhileLooping
    <3>2. orig[shared] # None /\ upd[shared] # None
      BY <1>1, <2>1, <3>1, HeightAssumption DEF InputHolds, SharesNodes, Height
    <3>3. IsEntry(orig, shared) /\ IsEntry(upd, shared) BY <1>1, <3>1, <3>2, EntryOfBlock DEF InputHolds
    <3>4. ~Above(shared, currO') BY <1>4, <3>1, <3>3
    <3>5. Above(shared, currU') => Above(shared, currO')
      BY <1>2, <1>4, <3>1, <3>3 DEF CursorsHold
    <3> QED BY <3>4, <3>5
  <2>2. currO <= currO BY <1>3, HeightAssumption DEF Height
  <2>3. \A h \in Height : IsEntry(orig, h) /\ Above(h, currO') =>
          \E i \in Height : i <= h /\ IsEntry(upd, i)
    BY <1>1, <1>3, <1>4, <2>2 DEF WhileLooping
  <2> QED BY <1>2, <2>1, <2>3 DEF WhileLooping
<1>12. InputHolds' BY <1>1, <1>2 DEF InputHolds
<1> QED BY <1>2, <1>4, <1>7, <1>9, <1>10, <1>11, <1>12 DEF LoopInv, LoopComputesMerge

LEMMA InvalidateKeeps ==
  ASSUME Looping, Invalidate
  PROVE  LoopInv'
<1>1. InputHolds /\ CursorsHold /\ FlagsHold /\ PendingHolds /\ ChangesetHolds /\ WhileLooping
  BY DEF Looping, LoopInv
<1>2. /\ orig' = orig /\ upd' = upd /\ shared' = shared /\ pc = "loop" /\ pc' = pc
      /\ agreed' = agreed /\ superset' = superset
      /\ pending' = {} /\ invalidated' = TRUE
      /\ AtSameHeight /\ ~SameHash
  BY DEF Invalidate, AtSameHeight, input
<1>3. /\ currO \in Height /\ currU = currO
      /\ IsEntry(orig, currO) /\ IsEntry(upd, currO)
      /\ Conflicts(orig, upd, currO)
      /\ \A h \in Height : h > currO <=> Passed(h)
      /\ \A h \in Height : h > currO <=> Above(h, currO)
  BY <1>2, SameHeightFacts, InBothMeansEntries DEF AtSameHeight
<1>4. /\ CursorsHold'
      /\ \A h \in Height : IsEntry(orig, h) => (Above(h, currO') <=> Above(h, currO) \/ h = currO)
      /\ \A h \in Height : IsEntry(orig, h) \/ IsEntry(upd, h) => (Passed(h)' <=> Passed(h) \/ h = currO)
      /\ prevO' = currO
  BY BothStep, <1>2 DEF Invalidate, input
<1>5. currO # 0
  <2>1. orig[0] # None BY <1>1, GenesisAssumption, BlockAssumption DEF InputHolds
  <2> QED BY <2>1 DEF Invalidate
<1>6. FlagsHold'
  <2>1. ~Agrees(orig, upd, currO) BY <1>3 DEF Agrees, Conflicts
  <2>2. agreed <=> \E h \in Height : Passed(h)' /\ Agrees(orig, upd, h)
    <3>1. \A h \in Height : Agrees(orig, upd, h) => IsEntry(orig, h) BY DEF Agrees, InBoth, IsEntry
    <3> QED BY <1>1, <1>4, <2>1, <3>1 DEF FlagsHold
  <2>3. superset <=> \A h \in Height : IsEntry(orig, h) /\ Above(h, currO') => IsEntry(upd, h)
    BY <1>1, <1>3, <1>4 DEF FlagsHold
  <2>4. 0 \in Height BY HeightAssumption DEF Height
  <2>5. Conflicts(orig, upd, 0) => IsEntry(orig, 0) BY DEF Conflicts, InBoth, IsEntry
  <2>6. ~(Above(0, currO') /\ Conflicts(orig, upd, 0))
    BY <1>1, <1>4, <1>5, <2>4, <2>5 DEF FlagsHold
  <2>7. prevO' # None BY <1>3, <1>4, LoopAssumption, HeightAssumption DEF Height
  <2>8. agreed => \A p \in Height : ~AmbiguousAt(orig, upd, p) BY <1>1 DEF FlagsHold
  <2> QED BY <1>2, <1>3, <1>4, <2>2, <2>3, <2>6, <2>7, <2>8 DEF FlagsHold
<1>7. ASSUME NEW h \in Height
      PROVE  PurgedSoFar(h)' <=> PurgedSoFar(h) \/ h \in pending
  <2>1. PurgedSoFar(h)' <=>
          /\ orig[h] # None /\ ~IsEntry(upd, h)
          /\ \E i \in Height : i < h /\ Above(i, currO') /\ Conflicts(orig, upd, i)
    BY <1>2 DEF PurgedSoFar
  <2>2. \A i \in Height : Conflicts(orig, upd, i) => (Above(i, currO') <=> Above(i, currO) \/ i = currO)
    BY <1>4 DEF Conflicts, InBoth, IsEntry
  <2>3. (\E i \in Height : i < h /\ Above(i, currO') /\ Conflicts(orig, upd, i))
          <=> \/ \E i \in Height : i < h /\ Above(i, currO) /\ Conflicts(orig, upd, i)
              \/ currO < h
    BY <1>3, <2>2
  <2>4. h \in pending <=> orig[h] # None /\ Above(h, currO) /\ ~IsEntry(upd, h) /\ ~PurgedSoFar(h)
    BY <1>1 DEF PendingHolds
  <2>5. Above(h, currO) <=> currO < h BY <1>3, HeightAssumption DEF Height
  <2> QED BY <2>1, <2>3, <2>4, <2>5 DEF PurgedSoFar
<1>8. PendingHolds'
  <2>1. ASSUME NEW h \in Height, orig[h] # None, Above(h, currO'), ~IsEntry(upd, h)
        PROVE  PurgedSoFar(h)'
    <3>1. Above(h, currO) BY <1>1, <1>3, <1>4, <2>1, EntryOfBlock DEF InputHolds
    <3> QED BY <1>1, <1>7, <2>1, <3>1 DEF PendingHolds
  <2> QED BY <1>2, <2>1 DEF PendingHolds
<1>9. ChangesetHolds'
  <2>1. changes' = [h \in Height |-> IF h = currO THEN upd[h] ELSE IF h \in pending THEN None ELSE changes[h]]
    BY <1>3 DEF Invalidate
  <2>2. changes' \in ChangeSet
    BY <1>1, <1>3, <2>1 DEF ChangesetHolds, ChangeSet, InputHolds, SparseChain
  <2>3. ASSUME NEW h \in Height
        PROVE  changes'[h] = IF Passed(h)' /\ Introduces(orig, upd, h) THEN upd[h]
                        ELSE IF PurgedSoFar(h)' THEN None ELSE Keep
    <3>1. CASE h = currO
      <4>1. Introduces(orig, upd, h) BY <3>1, <1>3 DEF Introduces
      <4>2. Passed(h)' BY <3>1, <1>3, <1>4
      <4> QED BY <3>1, <2>1, <4>1, <4>2
    <3>2. CASE h # currO
      <4>1. changes'[h] = IF h \in pending THEN None ELSE changes[h] BY <3>2, <2>1
      <4>2. Introduces(orig, upd, h) => IsEntry(upd, h)
        BY <1>1, EntryOfBlock DEF Introduces, Conflicts, InBoth, IsEntry, InputHolds
      <4>3. Introduces(orig, upd, h) => (Passed(h)' <=> Passed(h)) BY <3>2, <4>2, <1>4
      <4>4. h \in pending => ~Introduces(orig, upd, h) BY <1>1, <4>2 DEF PendingHolds
      <4> QED BY <1>1, <1>7, <4>1, <4>3, <4>4 DEF ChangesetHolds
    <3> QED BY <3>1, <3>2
  <2> QED BY <1>2, <2>2, <2>3 DEF ChangesetHolds
<1>10. WhileLooping'
  <2>1. ASSUME shared # None PROVE ~Above(shared, currO') /\ ~Above(shared, currU')
    <3>1. shared \in Height /\ ~Above(shared, currO) /\ ~Above(shared, currU)
      BY <1>1, <1>2, <2>1 DEF InputHolds, WhileLooping
    <3>2. shared <= shared BY <3>1, HeightAssumption DEF Height
    <3>3. EntryHash(orig, shared) = EntryHash(upd, shared) BY <1>1, <2>1, <3>1, <3>2, SharedEntries DEF InputHolds
    <3>4. shared # currO BY <1>3, <3>3 DEF Conflicts
    <3>5. orig[shared] # None /\ upd[shared] # None
      BY <1>1, <2>1, <3>1, <3>2 DEF InputHolds, SharesNodes
    <3>6. IsEntry(orig, shared) /\ IsEntry(upd, shared) BY <1>1, <3>1, <3>5, EntryOfBlock DEF InputHolds
    <3>7. ~Above(shared, currO') BY <1>4, <3>1, <3>4, <3>6
    <3>8. Above(shared, currU') => Above(shared, currO')
      BY <1>2, <1>4, <3>1, <3>6 DEF CursorsHold
    <3> QED BY <3>7, <3>8
  <2>2. currO <= currO BY <1>3, HeightAssumption DEF Height
  <2>3. \A h \in Height : IsEntry(orig, h) /\ Above(h, currO') =>
          \E i \in Height : i <= h /\ IsEntry(upd, i)
    BY <1>1, <1>3, <1>4, <2>2 DEF WhileLooping
  <2> QED BY <1>2, <2>1, <2>3 DEF WhileLooping
<1>11. InputHolds' BY <1>1, <1>2 DEF InputHolds
<1> QED BY <1>2, <1>4, <1>6, <1>8, <1>9, <1>10, <1>11 DEF LoopInv, LoopComputesMerge

LEMMA ExhaustedKeeps ==
  ASSUME Looping, Exhausted
  PROVE  LoopInv'
<1>1. InputHolds /\ CursorsHold /\ FlagsHold /\ PendingHolds /\ ChangesetHolds /\ WhileLooping
  BY DEF Looping, LoopInv
<1>2. /\ UNCHANGED <<orig, upd, shared, currO, currU, prevO, prevU, agreed, invalidated, pending,
                     superset, changes, result>>
      /\ pc' = "check" /\ currO = None /\ currU = None
  BY DEF Exhausted, input, cursors, flags
<1>3. CursorsHold' /\ FlagsHold' /\ PendingHolds' /\ ChangesetHolds' /\ InputHolds'
  BY <1>1, <1>2 DEF CursorsHold, FlagsHold, PendingHolds, ChangesetHolds, InputHolds, Passed, PurgedSoFar
<1>4. AfterLoop
  <2>1. \A h \in Height : Above(h, currO) /\ Above(h, currU)
    BY <1>2, LoopAssumption, HeightAssumption DEF Above, Height
  <2>2. shared = None BY <1>1, <2>1 DEF WhileLooping, InputHolds
  <2>3. 0 \in Height BY HeightAssumption DEF Height
  <2>4. orig[0] # None BY <1>1, GenesisAssumption, BlockAssumption DEF InputHolds
  <2>5. IsEntry(orig, 0) BY <1>1, <2>3, <2>4, EntryOfBlock DEF InputHolds
  <2>6. PICK i \in Height : i <= 0 /\ IsEntry(upd, i) BY <1>1, <2>1, <2>3, <2>5 DEF WhileLooping
  <2>7. i = 0 BY <2>6, HeightAssumption DEF Height
  <2>8. Agrees(orig, upd, 0)
    BY <1>1, <2>1, <2>3, <2>5, <2>6, <2>7 DEF FlagsHold, Agrees, Conflicts, InBoth, IsEntry
  <2>9. agreed BY <1>1, <2>1, <2>3, <2>8 DEF FlagsHold, Passed
  <2> QED BY <1>2, <2>2, <2>9 DEF AfterLoop
<1>5. AfterLoop' BY <1>2, <1>4 DEF AfterLoop
<1> QED BY <1>2, <1>3, <1>5 DEF LoopInv, LoopComputesMerge

-----------------------------------------------------------------------------
(* The ways out. *)

LEMMA ReturnKeeps ==
  ASSUME NEW r, InputHolds, Return(r), r = Outcome
  PROVE  LoopInv'
<1>1. orig' = orig /\ upd' = upd /\ shared' = shared /\ pc' = "done" /\ result' = r
  BY DEF Return, input
<1>2. Outcome' = Outcome BY <1>1 DEF Outcome
<1>3. InputHolds' BY <1>1 DEF InputHolds
<1> QED BY <1>1, <1>2, <1>3 DEF LoopInv, LoopComputesMerge

LEMMA RefuseAmbiguousKeeps ==
  ASSUME Looping, RefuseAmbiguous
  PROVE  LoopInv'
<1>1. InputHolds BY DEF Looping, LoopInv
<1>2. prevO \in Height /\ \A p \in Height : AmbiguousAt(orig, upd, p) <=> p = prevO
  BY AmbiguousMeans DEF RefuseAmbiguous
<1>3. TryIncludeHeight(orig, upd) = prevO BY <1>2 DEF TryIncludeHeight
<1>4. CannotConnect(orig, upd) BY <1>2 DEF CannotConnect
<1>5. CannotConnectError(prevO) = Outcome BY <1>3, <1>4 DEF Outcome
<1> QED BY <1>1, <1>5, ReturnKeeps DEF RefuseAmbiguous

LEMMA RefuseGenesisKeeps ==
  ASSUME Looping, RefuseGenesis
  PROVE  LoopInv'
<1>1. InputHolds /\ FlagsHold BY DEF Looping, LoopInv
<1>2. /\ currO = 0 /\ orig[0] # None /\ Conflicts(orig, upd, 0)
      /\ \A h \in Height : h > 0 <=> Passed(h)
  BY SameHeightFacts DEF RefuseGenesis
<1>3. ReplacesGenesis(orig, upd) BY <1>2 DEF ReplacesGenesis
<1>4. \A p \in Height : ~AmbiguousAt(orig, upd, p)
  <2>1. CASE agreed BY <1>1, <2>1 DEF FlagsHold
  <2>2. CASE ~agreed
    <3>1. \A h \in Height : h = 0 \/ Passed(h) BY <1>2, HeightAssumption DEF Height
    <3>2. \A h \in Height : ~Agrees(orig, upd, h)
      BY <1>1, <1>2, <2>2, <3>1 DEF FlagsHold, Agrees, Conflicts
    <3> QED BY <3>2 DEF AmbiguousAt, IsAgreementPoint
  <2> QED BY <2>1, <2>2
<1>5. TryIncludeHeight(orig, upd) = 0 BY <1>3, <1>4 DEF TryIncludeHeight
<1>6. CannotConnectError(0) = Outcome BY <1>3, <1>5 DEF Outcome, CannotConnect
<1> QED BY <1>1, <1>6, ReturnKeeps DEF RefuseGenesis

LEMMA AgreeOnSharedKeeps ==
  ASSUME Looping, AgreeOnShared
  PROVE  LoopInv'
<1>1. InputHolds /\ CursorsHold /\ FlagsHold /\ ChangesetHolds
  BY DEF Looping, LoopInv
<1>2. /\ shared \in Height /\ currO = shared /\ Agrees(orig, upd, shared)
      /\ \A h \in Height : h > shared <=> Passed(h)
      /\ \A h \in Height : h > shared <=> Above(h, currO)
  BY SameHeightFacts DEF AgreeOnShared
<1>3. shared # None BY <1>2, LoopAssumption, HeightAssumption DEF Height
<1>4. SharesNodes(orig, upd, shared) BY <1>1, <1>3 DEF InputHolds
<1>5. \A h \in Height : h <= shared => ~Conflicts(orig, upd, h)
  BY <1>2, <1>4, SharedEntries DEF Conflicts
<1>6. ~CannotConnect(orig, upd)
  <2>1. \A p \in Height : ~AmbiguousAt(orig, upd, p) BY AmbiguousMeans DEF AgreeOnShared
  <2>2. \A p \in Height : ~DisjointAt(orig, upd, p) BY <1>2 DEF DisjointAt
  <2>3. 0 \in Height /\ 0 <= shared BY <1>2, HeightAssumption DEF Height
  <2> QED BY <1>5, <2>1, <2>2, <2>3 DEF CannotConnect, ReplacesGenesis
<1>7. changes = MergeChangeset(orig, upd)
  <2>1. ASSUME NEW h \in Height PROVE changes[h] = MergeChangeset(orig, upd)[h]
    <3>1. \A i \in Height : Conflicts(orig, upd, i) => Above(i, currO)
      BY <1>2, <1>5, HeightAssumption DEF Height
    <3>2. PurgedSoFar(h) <=> Purges(orig, upd, h) BY <3>1 DEF PurgedSoFar, Purges, IsEntry
    <3>3. Introduces(orig, upd, h) => Passed(h)
      <4>1. ASSUME h <= shared PROVE ~Introduces(orig, upd, h)
        BY <1>4, <1>5, <4>1 DEF Introduces, SharesNodes
      <4> QED BY <1>2, <4>1, HeightAssumption DEF Height
    <3> QED BY <1>1, <3>2, <3>3 DEF ChangesetHolds, MergeChangeset
  <2> QED BY <1>1, <2>1 DEF ChangesetHolds, ChangeSet, MergeChangeset
<1>8. superset <=> TakesUpdateTip(orig, upd, shared)
  BY <1>1, <1>2, <1>3 DEF FlagsHold, TakesUpdateTip, CoversOriginal, IsEntry
<1>9. (IF superset THEN Merged(upd) ELSE Finish) = Outcome
  BY <1>6, <1>7, <1>8 DEF Outcome, Finish, Merged, MergedChain
<1> QED BY <1>1, <1>9, ReturnKeeps DEF AgreeOnShared

LEMMA FinalCheckKeeps ==
  ASSUME LoopInv, FinalCheck
  PROVE  LoopInv'
<1>1. InputHolds /\ CursorsHold /\ FlagsHold /\ ChangesetHolds /\ AfterLoop
  BY DEF LoopInv, FinalCheck
<1>2. \A h \in Height : IsEntry(upd, h) => Above(h, currO) /\ Passed(h)
  BY <1>1, LoopAssumption, HeightAssumption DEF AfterLoop, CursorsHold, Passed, Above, Height
<1>3. 0 \in Height BY HeightAssumption DEF Height
<1>4. ~ReplacesGenesis(orig, upd)
  BY <1>1, <1>2, <1>3 DEF FlagsHold, ReplacesGenesis, Conflicts, InBoth, IsEntry
<1>5. CASE agreed
  <2>1. ~CannotConnect(orig, upd)
    BY <1>1, <1>4, <1>5 DEF CannotConnect, FlagsHold, DisjointAt
  <2>2. changes = MergeChangeset(orig, upd)
    <3>1. ASSUME NEW h \in Height PROVE changes[h] = MergeChangeset(orig, upd)[h]
      <4>1. \A i \in Height : Conflicts(orig, upd, i) => Above(i, currO)
        BY <1>2 DEF Conflicts, InBoth, IsEntry
      <4>2. PurgedSoFar(h) <=> Purges(orig, upd, h) BY <4>1 DEF PurgedSoFar, Purges, IsEntry
      <4>3. Introduces(orig, upd, h) => Passed(h)
        BY <1>1, <1>2, EntryOfBlock DEF Introduces, Conflicts, InBoth, IsEntry, InputHolds
      <4> QED BY <1>1, <4>2, <4>3 DEF ChangesetHolds, MergeChangeset
    <3> QED BY <1>1, <3>1 DEF ChangesetHolds, ChangeSet, MergeChangeset
  <2>3. ~TakesUpdateTip(orig, upd, shared) BY <1>1 DEF AfterLoop, TakesUpdateTip
  <2>4. Finish = Outcome
    BY <2>1, <2>2, <2>3 DEF Outcome, Finish, Merged, MergedChain
  <2> QED BY <1>1, <1>5, <2>4, ReturnKeeps DEF FinalCheck
<1>6. CASE ~agreed
  <2>1. prevO # None /\ DisjointAt(orig, upd, prevO) BY <1>1, <1>6 DEF AfterLoop
  <2>2. prevO \in Height BY <1>1, <2>1 DEF CursorsHold
  <2>3. ~IsEntry(upd, prevO) BY <2>1, <2>2, HeightAssumption DEF DisjointAt, IsEntry, Height
  <2>4. ~invalidated BY <1>1, <2>3 DEF FlagsHold, Conflicts, InBoth, IsEntry
  <2>5. \A p \in Height : ~AmbiguousAt(orig, upd, p)
    BY <2>1 DEF DisjointAt, AmbiguousAt, IsAgreementPoint
  <2>6. ASSUME NEW p \in Height, DisjointAt(orig, upd, p) PROVE p = prevO
    <3>1. ~(p > prevO)
      <4> SUFFICES ASSUME p > prevO PROVE FALSE OBVIOUS
      <4>1. PICK i \in Height : i <= p /\ EntryHash(upd, i) # None BY <2>1, <2>6 DEF DisjointAt
      <4> QED BY <2>6, <4>1, HeightAssumption DEF DisjointAt, Height
    <3>2. ~(prevO > p)
      <4> SUFFICES ASSUME prevO > p PROVE FALSE OBVIOUS
      <4>1. PICK i \in Height : i <= prevO /\ EntryHash(upd, i) # None
        BY <2>1, <2>2, <2>6 DEF DisjointAt
      <4> QED BY <2>1, <2>2, <4>1, HeightAssumption DEF DisjointAt, Height
    <3> QED BY <2>2, <3>1, <3>2, HeightAssumption DEF Height
  <2>7. TryIncludeHeight(orig, upd) = prevO
    BY <1>4, <2>1, <2>2, <2>5, <2>6 DEF TryIncludeHeight
  <2>8. CannotConnectError(prevO) = Outcome
    BY <2>1, <2>2, <2>7 DEF Outcome, CannotConnect
  <2> QED BY <1>1, <1>6, <2>1, <2>4, <2>8, ReturnKeeps DEF FinalCheck
<1> QED BY <1>5, <1>6

LEMMA NextLoopInv ==
  ASSUME LoopInv, [LoopNext]_loopVars
  PROVE  LoopInv'
<1>1. ASSUME pc = "loop" PROVE Looping BY <1>1 DEF Looping
<1>2. CASE UpdateOnly BY <1>1, <1>2, UpdateOnlyKeeps DEF UpdateOnly
<1>3. CASE OriginalOnly BY <1>1, <1>3, OriginalOnlyKeeps DEF OriginalOnly
<1>4. CASE RefuseAmbiguous BY <1>1, <1>4, RefuseAmbiguousKeeps DEF RefuseAmbiguous, AtSameHeight
<1>5. CASE AgreeOnShared BY <1>1, <1>5, AgreeOnSharedKeeps DEF AgreeOnShared, AtSameHeight
<1>6. CASE Agree BY <1>1, <1>6, AgreeKeeps DEF Agree, AtSameHeight
<1>7. CASE RefuseGenesis BY <1>1, <1>7, RefuseGenesisKeeps DEF RefuseGenesis, AtSameHeight
<1>8. CASE Invalidate BY <1>1, <1>8, InvalidateKeeps DEF Invalidate, AtSameHeight
<1>9. CASE Exhausted BY <1>1, <1>9, ExhaustedKeeps DEF Exhausted
<1>10. CASE FinalCheck BY <1>10, FinalCheckKeeps
<1>11. CASE UNCHANGED loopVars
  BY <1>11 DEF loopVars, input, cursors, flags, LoopInv, InputHolds, CursorsHold, FlagsHold,
     PendingHolds, ChangesetHolds, WhileLooping, AfterLoop, LoopComputesMerge, Outcome,
     Passed, PurgedSoFar
<1> QED
  BY <1>2, <1>3, <1>4, <1>5, <1>6, <1>7, <1>8, <1>9, <1>10, <1>11 DEF LoopNext

(* Along the whole walk the flags, the pending heights and the changeset are  *)
(* those of the heights passed so far.                                        *)
THEOREM AlwaysLoopInv == LoopSpec => []LoopInv
<1>1. LoopInit => LoopInv BY InitLoopInv
<1>2. LoopInv /\ [LoopNext]_loopVars => LoopInv' BY NextLoopInv
<1> QED BY <1>1, <1>2, PTL DEF LoopSpec

(* The loop of merge_chains returns the list, the changeset or the hint that  *)
(* ChainMerge defines, for every block tree and every pair of lists.          *)
THEOREM AlwaysLoopComputesMerge == LoopSpec => []LoopComputesMerge
<1>1. LoopInv => LoopComputesMerge BY DEF LoopInv
<1> QED BY <1>1, AlwaysLoopInv, PTL

(* Whatever a caller passes in, updates of honest sources are merged whole or *)
(* refused with a useful hint, and never trip the debug_assert of finish.     *)
THEOREM AlwaysLoopKeepsPromises == LoopSpec => []LoopKeepsPromises
<1>1. ASSUME LoopInv PROVE LoopKeepsPromises
  <2> SUFFICES ASSUME pc = "done", upd \in HonestUpdates
               PROVE  /\ result # Mismatch
                      /\ ~result.error => TakenOver(orig, upd, ApplyChangeset(orig, result.changeset))
                      /\ result.error => HintIsNew(orig, upd, result.height)
    BY DEF LoopKeepsPromises
  <2>1. /\ orig \in SparseChain /\ orig[0] = Genesis /\ IsLinked(orig)
        /\ result = Outcome
    BY <1>1 DEF LoopInv, InputHolds, LoopComputesMerge
  <2>2. orig[0] # None BY <2>1, GenesisAssumption, BlockAssumption
  <2>3. CASE CannotConnect(orig, upd)
    <3>1. result = [error |-> TRUE, height |-> TryIncludeHeight(orig, upd)]
      BY <2>1, <2>3 DEF Outcome, CannotConnectError
    <3>2. HintIsNew(orig, upd, TryIncludeHeight(orig, upd)) BY <2>1, <2>3, HonestUpdateHint
    <3>3. TryIncludeHeight(orig, upd) # None
      <4>1. TryIncludeHeight(orig, upd) \in Height
        <5>1. 0 \in Height BY HeightAssumption DEF Height
        <5> QED BY <2>3, <5>1 DEF TryIncludeHeight, CannotConnect
      <4> QED BY <4>1, LoopAssumption, HeightAssumption DEF Height
    <3> QED BY <3>1, <3>2, <3>3 DEF Mismatch
  <2>4. CASE ~CannotConnect(orig, upd)
    <3>1. CanApply(orig, MergeChangeset(orig, upd))
      BY <2>1, <2>2, <2>4, HonestUpdateResolved DEF Resolved
    <3>2. result = [error |-> FALSE, chain |-> MergedChain(orig, upd, shared),
                    changeset |-> MergeChangeset(orig, upd)]
      BY <2>1, <2>4, <3>1 DEF Outcome
    <3>3. TakenOver(orig, upd, ApplyChangeset(orig, MergeChangeset(orig, upd)))
      BY <2>1, <2>2, <2>4, HonestUpdateTakenOver
    <3>4. ~result.error /\ result.changeset = MergeChangeset(orig, upd) BY <3>2
    <3>5. result # Mismatch BY <3>4 DEF Mismatch
    <3> QED BY <3>3, <3>4, <3>5
  <2> QED BY <2>3, <2>4
<1> QED BY <1>1, AlwaysLoopInv, PTL

-----------------------------------------------------------------------------
(* The skip list, for lists of every length and with every spacing. *)

Increasing == \A i, j \in 0..tip : i < j => hts[i] < hts[j]

PushPrepared ==
  job = "push" => (newHeight > hts[tip] /\ target = SkipIndex(tip + 1))

(* The inductive invariant. *)
SkipIInv == SkipTypeOK /\ Increasing /\ SkipsWired /\ NeverOvershoots /\ PushPrepared

(* Clearing the lowest bit gives a smaller number. *)
LEMMA InvertLowestOneBelow ==
  ASSUME NEW n \in Nat
  PROVE  /\ InvertLowestOne(n) \in Nat
         /\ n > 0 => InvertLowestOne(n) < n
<1>1. CASE n = 0 BY <1>1 DEF InvertLowestOne
<1>2. CASE n > 0
  <2> DEFINE T == {d \in 1..n : Divides(d, n) /\ IsPowerOfTwo(d)}
  <2>1. 1 \in T BY <1>2 DEF Divides, IsPowerOfTwo
  <2>2. T \subseteq 0..n OBVIOUS
  <2>3. PICK m \in T : \A k \in T : k <= m BY <2>1, <2>2, GreatestNatural
  <2>4. LowestBit(n) \in 1..n BY <2>3 DEF LowestBit
  <2> QED BY <1>2, <2>4 DEF InvertLowestOne
<1> QED BY <1>1, <1>2

(* A skip pointer leads strictly backwards. *)
LEMMA SkipIndexBelow ==
  ASSUME NEW i \in Nat
  PROVE  SkipIndex(i) \in Nat /\ (i > 0 => SkipIndex(i) < i)
<1>1. CASE i < 2 BY <1>1 DEF SkipIndex
<1>2. CASE i >= 2 /\ i % 2 = 0 BY <1>2, InvertLowestOneBelow DEF SkipIndex
<1>3. CASE i >= 2 /\ i % 2 # 0
  <2> DEFINE k == InvertLowestOne(i - 1)
  <2>1. i - 1 \in Nat /\ i - 1 > 0 BY <1>3
  <2>2. k \in Nat /\ k < i - 1 BY <2>1, InvertLowestOneBelow
  <2> HIDE DEF k
  <2>3. InvertLowestOne(k) \in Nat /\ InvertLowestOne(k) <= k
    BY <2>2, InvertLowestOneBelow DEF InvertLowestOne
  <2>4. SkipIndex(i) = InvertLowestOne(k) + 1 BY <1>3 DEF SkipIndex, k
  <2> QED BY <2>2, <2>3, <2>4
<1> QED BY <1>1, <1>2, <1>3

LEMMA InitSkipIInv == SkipInit => SkipIInv
<1> SUFFICES ASSUME SkipInit PROVE SkipIInv OBVIOUS
<1>1. SkipTypeOK
  <2>1. 0..0 = {0} /\ 1..0 = {} OBVIOUS
  <2>2. hts \in [0..0 -> Nat] BY <2>1, SkipListAssumption DEF SkipInit
  <2>3. skip \in [1..0 -> 0..0] BY <2>1 DEF SkipInit
  <2> QED BY <2>2, <2>3 DEF SkipInit, SkipTypeOK
<1>2. Increasing /\ SkipsWired BY DEF SkipInit, Increasing, SkipsWired
<1>3. NeverOvershoots /\ PushPrepared BY DEF SkipInit, NeverOvershoots, PushPrepared
<1> QED BY <1>1, <1>2, <1>3 DEF SkipIInv

(* Steps that leave the list alone keep what is said of the list. *)
LEMMA ListUnchanged ==
  ASSUME SkipIInv, UNCHANGED nodes
  PROVE  Increasing' /\ SkipsWired'
BY DEF SkipIInv, Increasing, SkipsWired, nodes

LEMMA NextSkipIInv == SkipIInv /\ [SkipNext]_walkVars => SkipIInv'
<1> SUFFICES ASSUME SkipIInv, [SkipNext]_walkVars PROVE SkipIInv' OBVIOUS
<1> USE DEF SkipIInv, SkipTypeOK
<1>1. ASSUME NEW g \in Gaps[tip], StartPush(g) PROVE SkipIInv'
  <2>1. /\ newHeight' = hts[tip] + g /\ target' = SkipIndex(tip + 1)
        /\ cur' = tip /\ job' = "push" /\ UNCHANGED nodes /\ steps' = 0 /\ answer' = NoNode
    BY <1>1 DEF StartPush, Start
  <2>2. hts[tip] \in Nat /\ g \in Nat /\ g > 0 BY <1>1, SkipListAssumption DEF StartPush
  <2>3. target' \in Nat /\ target' <= tip BY <2>1, SkipIndexBelow
  <2>4. SkipTypeOK'
    <3>1. newHeight' \in Nat BY <2>1, <2>2
    <3>2. tip' = tip /\ hts' = hts /\ skip' = skip /\ cur' \in 0..tip BY <2>1 DEF nodes
    <3> QED BY <2>1, <2>3, <3>1, <3>2
  <2>5. NeverOvershoots' BY <2>1, <2>3 DEF NeverOvershoots, nodes
  <2>6. PushPrepared' BY <2>1, <2>2 DEF PushPrepared, nodes
  <2> QED BY <2>1, <2>4, <2>5, <2>6, ListUnchanged
<1>2. ASSUME NEW i \in 0..tip, StartAncestor(i) PROVE SkipIInv'
  <2>1. /\ target' = i /\ cur' = tip /\ job' = "ancestor" /\ UNCHANGED nodes
        /\ steps' = 0 /\ answer' = NoNode /\ newHeight' = newHeight
    BY <1>2 DEF StartAncestor, Start
  <2>2. SkipTypeOK' BY <2>1 DEF nodes
  <2>3. NeverOvershoots' /\ PushPrepared'
    BY <2>1 DEF NeverOvershoots, PushPrepared, nodes
  <2> QED BY <2>1, <2>2, <2>3, ListUnchanged
<1>3. ASSUME NEW h \in 0..(hts[tip] + 1), StartFloor(h) PROVE SkipIInv'
  <2>1. /\ target' = h /\ cur' = tip /\ job' = "floor" /\ UNCHANGED nodes
        /\ steps' = 0 /\ answer' = NoNode /\ newHeight' = newHeight
    BY <1>3 DEF StartFloor, Start
  <2>2. SkipTypeOK' BY <2>1 DEF nodes
  <2>3. NeverOvershoots' /\ PushPrepared'
    BY <2>1 DEF NeverOvershoots, PushPrepared, nodes
  <2> QED BY <2>1, <2>2, <2>3, ListUnchanged
<1>4. CASE AncestorStep
  <2> DEFINE next == IF UseSkip THEN skip[cur] ELSE cur - 1
  <2>1. /\ job \in {"push", "ancestor"} /\ cur > target /\ cur' = next
        /\ steps' = steps + 1 /\ UNCHANGED <<nodes, job, target, newHeight, answer>>
    BY <1>4 DEF AncestorStep, Hop
  <2>2. next \in 0..tip /\ next >= target
    <3>1. CASE UseSkip
      <4>1. cur \in 1..tip /\ (SkipIndex(cur) = target \/ SkipIndex(cur) > target)
        BY <3>1 DEF UseSkip
      <4>2. skip[cur] = SkipIndex(cur) /\ skip[cur] \in 0..tip BY <4>1 DEF SkipsWired
      <4> QED BY <3>1, <4>1, <4>2
    <3>2. CASE ~UseSkip BY <2>1, <3>2
    <3> QED BY <3>1, <3>2
  <2> HIDE DEF next
  <2>3. SkipTypeOK' BY <2>1, <2>2 DEF nodes
  <2>4. NeverOvershoots' BY <2>1, <2>2 DEF NeverOvershoots
  <2>5. PushPrepared' BY <2>1 DEF PushPrepared, nodes
  <2> QED BY <2>1, <2>3, <2>4, <2>5, ListUnchanged
<1>5. CASE Link
  <2>1. /\ tip' = tip + 1 /\ job' = "idle" /\ cur = target
        /\ hts' = [i \in 0..(tip + 1) |-> IF i <= tip THEN hts[i] ELSE newHeight]
        /\ skip' = [i \in 1..(tip + 1) |-> IF i <= tip THEN skip[i] ELSE cur]
        /\ UNCHANGED <<target, cur, newHeight, answer, steps>>
    BY <1>5 DEF Link, NeverOvershoots
  <2>2. newHeight > hts[tip] /\ target = SkipIndex(tip + 1) BY <1>5 DEF Link, PushPrepared
  <2>3. SkipTypeOK' BY <2>1
  <2>4. ASSUME NEW i \in 0..tip PROVE hts[i] <= hts[tip] /\ hts[i] \in Nat
    <3>1. CASE i = tip BY <3>1
    <3>2. CASE i < tip BY <3>2 DEF Increasing
    <3> QED BY <3>1, <3>2
  <2>5. Increasing'
    <3> SUFFICES ASSUME NEW i \in 0..(tip + 1), NEW j \in 0..(tip + 1), i < j
                 PROVE  hts'[i] < hts'[j]
      BY <2>1 DEF Increasing
    <3>1. CASE j <= tip BY <3>1, <2>1 DEF Increasing
    <3>2. CASE j = tip + 1 BY <3>2, <2>1, <2>2, <2>4
    <3> QED BY <3>1, <3>2
  <2>6. SkipsWired' BY <2>1, <2>2 DEF SkipsWired
  <2>7. NeverOvershoots' /\ PushPrepared' BY <2>1 DEF NeverOvershoots, PushPrepared
  <2> QED BY <2>3, <2>5, <2>6, <2>7
<1>6. CASE FloorStep
  <2> DEFINE next == IF TakeSkip THEN skip[cur] ELSE cur - 1
  <2>1. /\ job = "floor" /\ hts[cur] > target /\ cur > 0 /\ cur' = next
        /\ steps' = steps + 1 /\ UNCHANGED <<nodes, job, target, newHeight, answer>>
    BY <1>6 DEF FloorStep, Hop
  <2>2. cur \in 1..tip /\ skip[cur] \in 0..tip BY <2>1
  <2>3. next \in 0..tip BY <2>1, <2>2
  <2>4. ASSUME NEW i \in 0..tip, i > next PROVE hts[i] > target
    <3>1. CASE TakeSkip
      <4>1. hts[skip[cur]] >= target BY <3>1 DEF TakeSkip
      <4>2. hts[skip[cur]] < hts[i] BY <2>2, <2>4, <3>1 DEF Increasing
      <4>3. hts[skip[cur]] \in Nat /\ hts[i] \in Nat BY <2>2
      <4> QED BY <4>1, <4>2, <4>3
    <3>2. CASE ~TakeSkip
      <4>1. i >= cur BY <2>2, <2>4, <3>2
      <4>2. CASE i = cur BY <4>2, <2>1
      <4>3. CASE i > cur BY <4>3, <2>1 DEF NeverOvershoots
      <4> QED BY <4>1, <4>2, <4>3
    <3> QED BY <3>1, <3>2
  <2> HIDE DEF next
  <2>5. SkipTypeOK' BY <2>1, <2>3, SMTT(30) DEF nodes
  <2>6. NeverOvershoots' BY <2>1, <2>4 DEF NeverOvershoots, nodes
  <2>7. PushPrepared' BY <2>1 DEF PushPrepared
  <2> QED BY <2>1, <2>5, <2>6, <2>7, ListUnchanged
<1>7. CASE AncestorFound \/ NoFloor \/ FloorFound \/ ReturnAnswer
  <2>1. /\ job' \in {"answered", "idle"} /\ UNCHANGED <<nodes, target, cur, newHeight, steps>>
        /\ answer' \in 0..tip \cup {NoNode}
    BY <1>7 DEF AncestorFound, NoFloor, FloorFound, ReturnAnswer, Answer
  <2>2. SkipTypeOK' BY <2>1 DEF nodes
  <2>3. NeverOvershoots' /\ PushPrepared' BY <2>1 DEF NeverOvershoots, PushPrepared
  <2> QED BY <2>1, <2>2, <2>3, ListUnchanged
<1>8. CASE UNCHANGED walkVars
  BY <1>8 DEF walkVars, nodes, Increasing, SkipsWired, NeverOvershoots, PushPrepared
<1> QED BY <1>1, <1>2, <1>3, <1>4, <1>5, <1>6, <1>7, <1>8 DEF SkipNext

(* The inductive invariant holds throughout. *)
THEOREM AlwaysSkipIInv == SkipSpec => []SkipIInv
BY InitSkipIInv, NextSkipIInv, PTL DEF SkipSpec

(* push wires every node of every list to the ancestor at its skip index. *)
THEOREM AlwaysWired == SkipSpec => []SkipsWired
<1>1. SkipIInv => SkipsWired BY DEF SkipIInv
<1> QED BY <1>1, AlwaysSkipIInv, PTL

(* No walk jumps past the node it looks for. *)
THEOREM NeverOvershot == SkipSpec => []NeverOvershoots
<1>1. SkipIInv => NeverOvershoots BY DEF SkipIInv
<1> QED BY <1>1, AlwaysSkipIInv, PTL

(* walk_to_floor returns what a linear scan returns, on every sparse list. *)
THEOREM FloorAlwaysLinearScan == SkipSpec => FloorIsLinearScan
<1> DEFINE A == FloorFound \/ NoFloor =>
                  IF answer' = NoNode THEN \A i \in 0..tip : hts[i] > target
                                    ELSE IsFloor(answer', target)
<1>1. SkipIInv => [A]_walkVars
  <2> SUFFICES ASSUME SkipIInv, FloorFound \/ NoFloor
               PROVE  IF answer' = NoNode THEN \A i \in 0..tip : hts[i] > target
                                        ELSE IsFloor(answer', target)
    OBVIOUS
  <2>1. CASE FloorFound
    <3>1. answer' = cur /\ job = "floor" /\ hts[cur] <= target
      BY <2>1 DEF FloorFound, Answer
    <3>2. cur \in 0..tip /\ cur # NoNode BY SkipListAssumption DEF SkipIInv, SkipTypeOK
    <3>3. \A i \in 0..tip : i > cur => hts[i] > target BY <3>1 DEF SkipIInv, NeverOvershoots
    <3>4. IsFloor(cur, target) BY <3>1, <3>2, <3>3 DEF IsFloor, SkipIInv, SkipTypeOK
    <3> QED BY <3>1, <3>2, <3>4
  <2>2. CASE NoFloor
    <3>1. answer' = NoNode /\ job = "floor" /\ hts[0] > target /\ cur = 0
      BY <2>2 DEF NoFloor, Answer
    <3>2. \A i \in 0..tip : i > 0 => hts[i] > target BY <3>1 DEF SkipIInv, NeverOvershoots
    <3> QED BY <3>1, <3>2 DEF SkipIInv, SkipTypeOK
  <2> QED BY <2>1, <2>2
<1> HIDE DEF A
<1>2. SkipSpec => [][A]_walkVars BY <1>1, AlwaysSkipIInv, PTL DEF SkipSpec
<1> QED BY <1>2 DEF FloorIsLinearScan, A

=============================================================================
