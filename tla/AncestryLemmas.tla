--------------------------- MODULE AncestryLemmas ---------------------------
(***************************************************************************)
(* What an accepted walk establishes, for every tree of headers: lemmas    *)
(* about the operators of Ancestry.tla, used by the proofs about the loop  *)
(* and about the worker.                                                   *)
(***************************************************************************)
EXTENDS Ancestry, WellFoundedInduction, TLAPS

(* Every nonempty set of naturals has a least element.                     *)
LEMMA LeastNatural ==
    ASSUME NEW S \in SUBSET Nat, S # {}
    PROVE  \E n \in S : \A m \in S : n <= m
<1> DEFINE R == {ss \in Nat \X Nat : ss[1] < ss[2]}
<1>1. IsWellFoundedOn(R, Nat)
  BY NatLessThanWellFounded DEF OpToRel
<1> HIDE DEF R
<1>2. PICK x \in S : \A y \in S : ~(<<y, x>> \in R)
  BY <1>1, WFMin
<1>3. \A y \in S : ~(y < x)
  BY <1>2 DEF R
<1> QED
  BY <1>3

LEMMA LowestIsLeast ==
    ASSUME NEW S \in SUBSET Nat, NEW i \in S, \A j \in S : i <= j
    PROVE  Lowest(S) = i
<1>1. Lowest(S) \in S /\ \A j \in S : Lowest(S) <= j
  BY Zenon DEF Lowest
<1>2. Lowest(S) <= i /\ i <= Lowest(S) /\ i \in Nat /\ Lowest(S) \in Nat
  BY <1>1
<1> QED
  BY <1>2

LEMMA HighestIsGreatest ==
    ASSUME NEW S \in SUBSET Nat, NEW i \in S, \A j \in S : j <= i
    PROVE  Highest(S) = i
<1>1. Highest(S) \in S /\ \A j \in S : j <= Highest(S)
  BY Zenon DEF Highest
<1>2. Highest(S) <= i /\ i <= Highest(S) /\ i \in Nat /\ Highest(S) \in Nat
  BY <1>1
<1> QED
  BY <1>2

----------------------------------------------------------------------------
(* From the top down, every header that hashes to the link above it is the *)
(* sealed history's, as long as all those above it are.                    *)
LEMMA LinkedSuffixIsSealed ==
    ASSUME NEW root, NEW tip, NEW parent, NEW chain,
           SealedHistory(chain, root, tip, parent),
           NEW target \in root..(tip - 1),
           NEW hs \in Seq(Header), Len(hs) = tip - target,
           NEW first \in 1..(Len(hs) + 1),
           \A i \in first..Len(hs) : BlockId[hs[i]] = LinkAbove(parent, hs, i)
    PROVE  \A i \in first..Len(hs) : hs[i] = chain[ExpectedHeight(target, i)]
<1> DEFINE Foreign(k) == hs[Len(hs) - k] # chain[tip - 1 - k]
           Strays == {k \in Nat : k <= Len(hs) - first /\ Foreign(k)}
<1>1. /\ root \in Nat /\ tip \in Nat
      /\ \A h \in root..(tip - 1) : chain[h] \in Header
      /\ \A h \in root..(tip - 2) : BlockId[chain[h]] = ParentOf[chain[h + 1]]
      /\ BlockId[chain[tip - 1]] = parent
  BY DEF SealedHistory
<1>2. \A i \in 1..Len(hs) : hs[i] \in Header
  OBVIOUS
<1>3. Strays = {}
  <2> SUFFICES ASSUME Strays # {}
               PROVE  FALSE
    OBVIOUS
  <2> HIDE DEF Foreign
  <2>1. PICK k \in Strays : \A m \in Strays : k <= m
    BY LeastNatural
  <2> HIDE DEF Strays
  <2>2. k \in Nat /\ k <= Len(hs) - first /\ Foreign(k)
    BY <2>1 DEF Strays
  <2> DEFINE i == Len(hs) - k
  <2>3. i \in first..Len(hs) /\ i \in 1..Len(hs) /\ tip - 1 - k \in root..(tip - 1)
    BY <1>1, <2>2
  <2>4. BlockId[hs[i]] = LinkAbove(parent, hs, i)
    BY <2>3
  <2>5. BlockId[chain[tip - 1 - k]] = LinkAbove(parent, hs, i)
    <3>1. CASE k = 0
      BY <1>1, <3>1 DEF LinkAbove
    <3>2. CASE k # 0
      <4>1. k - 1 \notin Strays
        BY <2>1, <2>2, <3>2
      <4>2. ~Foreign(k - 1)
        BY <4>1, <2>2, <3>2 DEF Strays
      <4>3. hs[i + 1] = chain[tip - k]
        <5>1. Len(hs) - (k - 1) = i + 1 /\ tip - 1 - (k - 1) = tip - k
          BY <1>1, <2>2
        <5> QED
          BY <4>2, <5>1 DEF Foreign
      <4>4. tip - 1 - k \in root..(tip - 2) /\ (tip - 1 - k) + 1 = tip - k
        BY <1>1, <2>2, <3>2
      <4>5. BlockId[chain[tip - 1 - k]] = ParentOf[chain[tip - k]]
        BY <1>1, <4>4
      <4> QED
        BY <4>3, <4>5, <2>2, <3>2 DEF LinkAbove
    <3> QED
      BY <3>1, <3>2
  <2>6. hs[i] = chain[tip - 1 - k]
    BY <1>1, <1>2, <2>3, <2>4, <2>5, BlockIdInjective
  <2> QED
    BY <2>2, <2>6 DEF Foreign
<1>4. ASSUME NEW i \in first..Len(hs)
      PROVE  hs[i] = chain[ExpectedHeight(target, i)]
  <2>1. /\ Len(hs) - i \in Nat /\ Len(hs) - i <= Len(hs) - first
        /\ Len(hs) - (Len(hs) - i) = i
        /\ tip - 1 - (Len(hs) - i) = target + i - 1
    BY <1>1
  <2>2. ~Foreign(Len(hs) - i)
    BY <1>3, <2>1
  <2> QED
    BY <2>1, <2>2 DEF ExpectedHeight
<1> QED
  BY <1>4

IsTopBreak(parent, hs, i) ==
    /\ i \in Unlinked(parent, hs)
    /\ \A j \in (i + 1)..Len(hs) : j \notin Unlinked(parent, hs)

LeavesAt(chain, target, hs, i) ==
    /\ hs[i] # chain[ExpectedHeight(target, i)]
    /\ \A j \in (i + 1)..Len(hs) : hs[j] = chain[ExpectedHeight(target, j)]

(* The highest header off its link is where the run leaves the sealed      *)
(* history: those above it are that history's, and it is not.              *)
LEMMA BreakLeavesTheHistory ==
    ASSUME NEW root, NEW tip, NEW parent, NEW chain,
           SealedHistory(chain, root, tip, parent),
           NEW target \in root..(tip - 1),
           NEW hs \in Seq(Header), Len(hs) = tip - target,
           NEW i, IsTopBreak(parent, hs, i)
    PROVE  LeavesAt(chain, target, hs, i)
<1> DEFINE first == i + 1
<1>1. /\ i \in 1..Len(hs) /\ BlockId[hs[i]] # LinkAbove(parent, hs, i)
      /\ root \in Nat /\ tip \in Nat
  BY DEF IsTopBreak, Unlinked, SealedHistory
<1>2. /\ first \in 1..(Len(hs) + 1)
      /\ \A j \in first..Len(hs) : BlockId[hs[j]] = LinkAbove(parent, hs, j)
  BY <1>1 DEF IsTopBreak, Unlinked
<1> HIDE DEF first
<1>3. \A j \in first..Len(hs) : hs[j] = chain[ExpectedHeight(target, j)]
  BY <1>2, LinkedSuffixIsSealed
<1>4. BlockId[chain[ExpectedHeight(target, i)]] = LinkAbove(parent, hs, i)
  <2>1. CASE i = Len(hs)
    <3>1. ExpectedHeight(target, i) = tip - 1
      BY <1>1, <2>1 DEF ExpectedHeight
    <3> QED
      BY <2>1, <3>1 DEF SealedHistory, LinkAbove
  <2>2. CASE i # Len(hs)
    <3> DEFINE h == ExpectedHeight(target, i)
    <3>1. h \in root..(tip - 2) /\ ExpectedHeight(target, i + 1) = h + 1
      BY <1>1, <2>2 DEF ExpectedHeight
    <3>2. hs[i + 1] = chain[ExpectedHeight(target, i + 1)]
      BY <1>1, <1>3, <2>2 DEF first
    <3>3. BlockId[chain[h]] = ParentOf[chain[h + 1]]
      BY <3>1 DEF SealedHistory
    <3> QED
      BY <2>2, <3>1, <3>2, <3>3 DEF LinkAbove
  <2> QED
    BY <2>1, <2>2
<1> QED
  BY <1>1, <1>3, <1>4 DEF first, LeavesAt

(* What an accepting walk has checked.                                     *)
LEMMA WalkAccepts ==
    ASSUME NEW tip \in Nat, NEW parent, NEW target \in Nat,
           NEW hs \in Seq(Header),
           Walk(tip, parent, target, hs).kind = "InChain"
    PROVE  /\ target < tip /\ Len(hs) = tip - target
           /\ Misplaced(target, hs) = {} /\ Unlinked(parent, hs) = {}
           /\ Walk(tip, parent, target, hs) = InChain(hs[1])
BY DEF Walk, InChain, NotBelowTip, Count, WrongHeight, BrokenLink

(* ancestry.rs l.15-19: a run the walk accepts is, block for block, the    *)
(* history sealed under the tip's parent link, and the header it returns   *)
(* is that history's block at the target.                                  *)
THEOREM WalkIsSound ==
    ASSUME NEW root, NEW tip, NEW parent, NEW chain,
           SealedHistory(chain, root, tip, parent),
           NEW target \in Nat, root <= target, NEW hs \in Seq(Header),
           Walk(tip, parent, target, hs).kind = "InChain"
    PROVE  /\ hs = RunOf(chain, target, tip)
           /\ Walk(tip, parent, target, hs).found = chain[target]
<1>1. root \in Nat /\ tip \in Nat
  BY DEF SealedHistory
<1>2. /\ target < tip /\ Len(hs) = tip - target
      /\ Unlinked(parent, hs) = {}
      /\ Walk(tip, parent, target, hs) = InChain(hs[1])
  BY <1>1, WalkAccepts, ZenonT(40)
<1>3. target \in root..(tip - 1) /\ 1 \in 1..(Len(hs) + 1)
  BY <1>1, <1>2
<1>4. \A i \in 1..Len(hs) : BlockId[hs[i]] = LinkAbove(parent, hs, i)
  BY <1>2 DEF Unlinked
<1>5. \A i \in 1..Len(hs) : hs[i] = chain[ExpectedHeight(target, i)]
  BY <1>2, <1>3, <1>4, LinkedSuffixIsSealed
<1>6. hs = RunOf(chain, target, tip)
  BY <1>1, <1>2, <1>5 DEF RunOf
<1>7. hs[1] = chain[target]
  BY <1>1, <1>2, <1>5 DEF ExpectedHeight
<1> QED
  BY <1>2, <1>6, <1>7 DEF InChain

(* And the history itself is accepted, from any of its blocks.             *)
THEOREM WalkIsComplete ==
    ASSUME NEW root, NEW tip, NEW parent, NEW chain,
           SealedHistory(chain, root, tip, parent), NEW target \in root..(tip - 1)
    PROVE  Walk(tip, parent, target, RunOf(chain, target, tip)) = InChain(chain[target])
<1> DEFINE hs == RunOf(chain, target, tip)
<1>1. /\ root \in Nat /\ tip \in Nat /\ target \in Nat /\ target < tip
      /\ \A h \in root..(tip - 1) : HeightOf[chain[h]] = h
      /\ \A h \in root..(tip - 2) : BlockId[chain[h]] = ParentOf[chain[h + 1]]
      /\ BlockId[chain[tip - 1]] = parent
  BY DEF SealedHistory
<1>2. /\ Len(hs) = tip - target
      /\ \A i \in 1..(tip - target) : hs[i] = chain[target + i - 1]
  BY <1>1 DEF RunOf, ExpectedHeight
<1> HIDE DEF hs
<1>3. Misplaced(target, hs) = {}
  <2>1. ASSUME NEW i \in 1..(tip - target) PROVE HeightOf[hs[i]] = ExpectedHeight(target, i)
    <3>1. target + i - 1 \in root..(tip - 1)
      BY <1>1
    <3> QED
      BY <1>1, <1>2, <3>1 DEF ExpectedHeight
  <2> QED
    BY <1>2, <2>1 DEF Misplaced
<1>4. Unlinked(parent, hs) = {}
  <2>1. ASSUME NEW i \in 1..(tip - target) PROVE BlockId[hs[i]] = LinkAbove(parent, hs, i)
    <3>1. CASE i = tip - target
      <4>1. target + i - 1 = tip - 1
        BY <1>1, <3>1
      <4> QED
        BY <1>1, <1>2, <3>1, <4>1 DEF LinkAbove
    <3>2. CASE i # tip - target
      <4>1. target + i - 1 \in root..(tip - 2) /\ i + 1 \in 1..(tip - target)
            /\ target + (i + 1) - 1 = (target + i - 1) + 1
        BY <1>1, <3>2
      <4> QED
        BY <1>1, <1>2, <3>2, <4>1 DEF LinkAbove
    <3> QED
      BY <3>1, <3>2
  <2> QED
    BY <1>2, <2>1 DEF Unlinked
<1>5. Walk(tip, parent, target, hs) = InChain(hs[1])
  BY <1>1, <1>2, <1>3, <1>4 DEF Walk
<1>6. hs[1] = chain[target]
  BY <1>1, <1>2
<1> QED
  BY <1>5, <1>6 DEF hs
=============================================================================
