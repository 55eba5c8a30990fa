------------------------- MODULE AncestryWalkProofs -------------------------
(***************************************************************************)
(* The loop of ancestry.rs computes the answer Ancestry.tla states, for    *)
(* every set of headers, every tip and every run served, and so inherits   *)
(* what AncestryLemmas.tla proves of that answer.                          *)
(***************************************************************************)
EXTENDS AncestryWalk, AncestryLemmas

(* What each pass has established so far.  The running `link` is the link  *)
(* above the next header: the fact that ties the loop to the statement.    *)
LoopInv ==
    /\ pc = "range" => at = 1
    /\ pc = "count" => target < tip
    /\ pc \in {"heights", "links"} =>
            target < tip /\ Len(headers) = tip - target
    /\ pc = "count" => at = 1
    /\ pc = "heights" =>
            \A i \in 1..(at - 1) : i \notin Misplaced(target, headers)
    /\ pc = "links" =>
            /\ Misplaced(target, headers) = {}
            /\ \A i \in (at + 1)..Len(headers) : i \notin Unlinked(parent, headers)
            /\ at # 0 => link = LinkAbove(parent, headers, at)
    /\ AnswersAsStated

LEMMA TypesOfInputs ==
    ASSUME TypeOK
    PROVE  /\ tip \in Nat /\ target \in Nat /\ parent \in Hash
           /\ headers \in Seq(Header) /\ Len(headers) \in Nat
           /\ \A i \in 1..Len(headers) : headers[i] \in Header
<1>1. PICK n \in 0..MaxLen : headers \in [1..n -> Header]
  BY DEF TypeOK, Served
<1>2. n \in Nat
  BY <1>1, WalkInputs
<1> QED
  BY <1>1, <1>2, WalkInputs DEF TypeOK

(* The type invariant of the loop.                                         *)
THEOREM WalkTypeOK == Spec => []TypeOK
<1>1. Init => TypeOK
  <2> SUFFICES ASSUME Init
               PROVE  TypeOK
    OBVIOUS
  <2>1. PICK n \in 0..MaxLen : headers \in [1..n -> Header]
    BY DEF Init, Served
  <2>2. Len(headers) \in Nat
    BY <2>1, WalkInputs
  <2> QED
    BY <2>2 DEF Init, TypeOK
<1>2. TypeOK /\ [Next]_vars => TypeOK'
  <2> SUFFICES ASSUME TypeOK, [Next]_vars
               PROVE  TypeOK'
    OBVIOUS
  <2> USE TypesOfInputs DEF TypeOK, args
  <2>1. CASE CheckRange /\ UNCHANGED args
    BY <2>1 DEF CheckRange, Return
  <2>2. CASE CheckCount /\ UNCHANGED args
    BY <2>2 DEF CheckCount, Return
  <2>3. CASE CheckHeight /\ UNCHANGED args
    BY <2>3 DEF CheckHeight, Return
  <2>4. CASE CheckLink /\ UNCHANGED args
    <3>1. CASE at = 0
      BY <2>4, <3>1 DEF CheckLink, Return
    <3>2. CASE at # 0 /\ BlockId[headers[at]] # link
      BY <2>4, <3>2 DEF CheckLink, Return
    <3>3. CASE at # 0 /\ BlockId[headers[at]] = link
      <4>1. at \in 1..Len(headers)
        BY <2>4, <3>3 DEF CheckLink
      <4>2. pc = "links" /\ link' = ParentOf[headers[at]] /\ at' = at - 1
        BY <2>4, <3>3 DEF CheckLink
      <4>3. ParentOf[headers[at]] \in Hash
        BY <4>1, HeaderFields
      <4> QED
        BY <2>4, <3>3, <4>1, <4>2, <4>3 DEF CheckLink
    <3> QED
      BY <3>1, <3>2, <3>3
  <2>5. CASE UNCHANGED vars
    BY <2>5 DEF vars
  <2> QED
    BY <2>1, <2>2, <2>3, <2>4, <2>5 DEF Next, Step
<1> QED
  BY <1>1, <1>2, PTL DEF Spec
----------------------------------------------------------------------------
(* One lemma per pass: the pass keeps the invariant, and what it returns   *)
(* is what the statement says.                                             *)
LEMMA RangeStep ==
    ASSUME TypeOK, LoopInv, CheckRange, UNCHANGED args
    PROVE  LoopInv'
BY TypesOfInputs DEF CheckRange, Return, LoopInv, AnswersAsStated, args, Walk

LEMMA CountStep ==
    ASSUME TypeOK, LoopInv, CheckCount, UNCHANGED args
    PROVE  LoopInv'
BY TypesOfInputs DEF CheckCount, Return, LoopInv, AnswersAsStated, args, Walk

LEMMA HeightStep ==
    ASSUME TypeOK, LoopInv, CheckHeight, UNCHANGED args
    PROVE  LoopInv'
<1> USE TypesOfInputs DEF args
<1>1. /\ pc = "heights" /\ target < tip /\ Len(headers) = tip - target
      /\ \A i \in 1..(at - 1) : i \notin Misplaced(target, headers)
      /\ at \in Nat /\ at >= 1 /\ UNCHANGED args
  BY DEF CheckHeight, LoopInv, TypeOK
<1>2. CASE at > Len(headers)
  <2>1. pc' = "links" /\ at' = Len(headers) /\ link' = parent
    BY <1>2 DEF CheckHeight
  <2>2. Misplaced(target, headers) = {}
    BY <1>1, <1>2 DEF Misplaced
  <2> QED
    BY <1>1, <2>1, <2>2 DEF LoopInv, AnswersAsStated, LinkAbove
<1>3. CASE at <= Len(headers) /\ HeightOf[headers[at]] # ExpectedHeight(target, at)
  <2>1. /\ pc' = "done"
        /\ answer' = WrongHeight(ExpectedHeight(target, at), HeightOf[headers[at]])
    BY <1>3, <1>1 DEF CheckHeight, Return
  <2>2. at \in Misplaced(target, headers)
    BY <1>1, <1>3 DEF Misplaced
  <2>3. /\ Misplaced(target, headers) \in SUBSET Nat
        /\ \A i \in Misplaced(target, headers) : at <= i
    BY <1>1 DEF Misplaced
  <2>4. Lowest(Misplaced(target, headers)) = at
    BY <2>2, <2>3, LowestIsLeast
  <2>5. answer' = Walk(tip, parent, target, headers)
    BY <1>1, <2>1, <2>2, <2>4 DEF Walk
  <2> QED
    BY <1>1, <2>1, <2>5 DEF LoopInv, AnswersAsStated
<1>4. CASE at <= Len(headers) /\ HeightOf[headers[at]] = ExpectedHeight(target, at)
  <2>1. pc' = pc /\ at' = at + 1
    BY <1>4, <1>1 DEF CheckHeight
  <2>2. at \notin Misplaced(target, headers)
    BY <1>4 DEF Misplaced
  <2>3. \A i \in 1..(at' - 1) : i \notin Misplaced(target, headers)
    BY <1>1, <2>1, <2>2
  <2> QED
    BY <1>1, <2>1, <2>3 DEF LoopInv, AnswersAsStated
<1> QED
  BY <1>1, <1>2, <1>3, <1>4

LEMMA LinkStep ==
    ASSUME TypeOK, LoopInv, CheckLink, UNCHANGED args
    PROVE  LoopInv'
<1> USE TypesOfInputs DEF args
<1>1. /\ pc = "links" /\ target < tip /\ Len(headers) = tip - target
      /\ Misplaced(target, headers) = {}
      /\ \A i \in (at + 1)..Len(headers) : i \notin Unlinked(parent, headers)
      /\ at # 0 => link = LinkAbove(parent, headers, at)
      /\ at \in Nat /\ at <= Len(headers) /\ UNCHANGED args
  BY DEF CheckLink, LoopInv, TypeOK
<1>2. CASE at = 0
  <2>1. pc' = "done" /\ answer' = InChain(headers[1])
    BY <1>1, <1>2 DEF CheckLink, Return
  <2>2. Unlinked(parent, headers) = {}
    BY <1>1, <1>2 DEF Unlinked
  <2>3. answer' = Walk(tip, parent, target, headers)
    BY <1>1, <2>1, <2>2 DEF Walk
  <2> QED
    BY <1>1, <2>1, <2>3 DEF LoopInv, AnswersAsStated
<1>3. CASE at # 0 /\ BlockId[headers[at]] # link
  <2>1. pc' = "done" /\ answer' = BrokenLink(HeightOf[headers[at]])
    BY <1>1, <1>3 DEF CheckLink, Return
  <2>2. at \in Unlinked(parent, headers)
    BY <1>1, <1>3 DEF Unlinked
  <2>3. /\ Unlinked(parent, headers) \in SUBSET Nat
        /\ \A i \in Unlinked(parent, headers) : i <= at
    BY <1>1 DEF Unlinked
  <2>4. Highest(Unlinked(parent, headers)) = at
    BY <2>2, <2>3, HighestIsGreatest
  <2>5. answer' = Walk(tip, parent, target, headers)
    BY <1>1, <2>1, <2>2, <2>4 DEF Walk
  <2> QED
    BY <1>1, <2>1, <2>5 DEF LoopInv, AnswersAsStated
<1>4. CASE at # 0 /\ BlockId[headers[at]] = link
  <2>1. pc' = pc /\ link' = ParentOf[headers[at]] /\ at' = at - 1
    BY <1>1, <1>4 DEF CheckLink
  <2>2. at \notin Unlinked(parent, headers)
    BY <1>1, <1>4 DEF Unlinked
  <2>3. \A i \in (at' + 1)..Len(headers) : i \notin Unlinked(parent, headers)
    BY <1>1, <2>1, <2>2
  <2>4. at' # 0 => link' = LinkAbove(parent, headers, at')
    BY <1>1, <1>4, <2>1 DEF LinkAbove
  <2> QED
    BY <1>1, <2>1, <2>3, <2>4 DEF LoopInv, AnswersAsStated
<1> QED
  BY <1>2, <1>3, <1>4

LEMMA LoopInvariant == Spec => [](TypeOK /\ LoopInv)
<1>1. Init => LoopInv
  BY DEF Init, LoopInv, AnswersAsStated
<1>2. TypeOK /\ LoopInv /\ [Next]_vars => LoopInv'
  <2> SUFFICES ASSUME TypeOK, LoopInv, [Next]_vars
               PROVE  LoopInv'
    OBVIOUS
  <2>1. CASE Next
    BY <2>1, RangeStep, CountStep, HeightStep, LinkStep DEF Next, Step
  <2>2. CASE UNCHANGED vars
    BY <2>2 DEF vars, LoopInv, AnswersAsStated
  <2> QED
    BY <2>1, <2>2
<1> QED
  BY <1>1, <1>2, WalkTypeOK, PTL DEF Spec

(* The loop returns the stated answer: the lowest misplaced header, else   *)
(* the highest one off its child's link, else the target's header.         *)
THEOREM LoopComputesWalk == Spec => []AnswersAsStated
<1>1. LoopInv => AnswersAsStated
  BY DEF LoopInv
<1> QED
  BY <1>1, LoopInvariant, PTL
----------------------------------------------------------------------------
(* ancestry.rs l.15-19: whatever a source serves, an accepted run is the   *)
(* history sealed under the tip's parent link.                             *)
THEOREM LoopAcceptsOnlySealed == Spec => []AcceptedIsSealed
<1>1. TypeOK /\ LoopInv => AcceptedIsSealed
  <2> SUFFICES ASSUME TypeOK, LoopInv, pc = "done", answer.kind = "InChain",
                      NEW root \in 0..target, NEW chain \in [root..(tip - 1) -> Header],
                      SealedHistory(chain, root, tip, parent)
               PROVE  headers = RunOf(chain, target, tip)
    BY DEF AcceptedIsSealed
  <2>1. Walk(tip, parent, target, headers).kind = "InChain"
    BY DEF LoopInv, AnswersAsStated
  <2>2. target \in Nat /\ root <= target /\ headers \in Seq(Header)
    BY TypesOfInputs
  <2> QED
    BY <2>1, <2>2, WalkIsSound
<1> QED
  BY <1>1, LoopInvariant, PTL

(* A source that serves the sealed headers is never refused: the loop      *)
(* returns that history's block at the target.                             *)
THEOREM LoopAcceptsTheSealed == Spec => []SealedIsAccepted
<1>1. TypeOK /\ LoopInv => SealedIsAccepted
  <2> SUFFICES ASSUME TypeOK, LoopInv, pc = "done",
                      NEW root, NEW chain, root \in 0..target,
                      SealedHistory(chain, root, tip, parent), target < tip,
                      headers = RunOf(chain, target, tip)
               PROVE  answer = InChain(chain[target])
    BY DEF SealedIsAccepted
  <2>1. answer = Walk(tip, parent, target, headers)
    BY DEF LoopInv, AnswersAsStated
  <2>2. target \in root..(tip - 1)
    BY TypesOfInputs DEF SealedHistory
  <2>3. Walk(tip, parent, target, RunOf(chain, target, tip)) = InChain(chain[target])
    BY <2>2, WalkIsComplete
  <2> QED
    BY <2>1, <2>3
<1> QED
  BY <1>1, LoopInvariant, PTL

LEMMA BrokenLinkIsHighest ==
    ASSUME TypeOK, Walk(tip, parent, target, headers).kind = "Link"
    PROVE  \E i \in 1..Len(headers) :
           /\ target < tip /\ Len(headers) = tip - target
           /\ IsTopBreak(parent, headers, i)
           /\ HeightOf[headers[i]] = ExpectedHeight(target, i)
           /\ Walk(tip, parent, target, headers) = BrokenLink(HeightOf[headers[i]])
<1> DEFINE U == Unlinked(parent, headers)
           Below == {d \in Nat : \E i \in U : d = Len(headers) - i}
<1> USE TypesOfInputs
<1>1. /\ target < tip /\ Len(headers) = tip - target
      /\ Misplaced(target, headers) = {} /\ U # {}
      /\ Walk(tip, parent, target, headers) = BrokenLink(HeightOf[headers[Highest(U)]])
  BY DEF Walk, InChain, NotBelowTip, Count, WrongHeight, BrokenLink
<1>2. U \in SUBSET Nat /\ \A i \in U : i \in 1..Len(headers)
  BY DEF Unlinked
<1> HIDE DEF U
<1>3. PICK d \in Below : \A e \in Below : d <= e
  <2>1. PICK i \in U : TRUE
    BY <1>1
  <2>2. Len(headers) - i \in Below
    BY <1>2, <2>1
  <2>3. Below \in SUBSET Nat /\ Below # {}
    BY <2>2
  <2> QED
    BY <2>3, LeastNatural
<1>4. PICK top \in U : d = Len(headers) - top
  BY <1>3
<1>5. \A i \in U : i <= top
  <2> TAKE i \in U
  <2>1. Len(headers) - i \in Below
    BY <1>2
  <2>2. Len(headers) - top <= Len(headers) - i
    BY <1>3, <1>4, <2>1
  <2> QED
    BY <1>2, <2>2
<1>6. Highest(U) = top
  BY <1>2, <1>5, HighestIsGreatest
<1>7. top \in 1..Len(headers) /\ \A j \in (top + 1)..Len(headers) : j \notin U
  BY <1>2, <1>5
<1>8. HeightOf[headers[top]] = ExpectedHeight(target, top)
  BY <1>1, <1>7 DEF Misplaced
<1> QED
  BY <1>1, <1>4, <1>6, <1>7, <1>8 DEF U, IsTopBreak

(* README.md l.234: the height a Link error names is where the served  *)
(* run departs from the sealed history, and above it they agree.           *)
THEOREM LoopPinpointsTheBreak == Spec => []BreakIsPinpointed
<1>1. TypeOK /\ LoopInv => BreakIsPinpointed
  <2> SUFFICES ASSUME TypeOK, LoopInv, pc = "done", answer.kind = "Link",
                      NEW root \in 0..target, NEW chain \in [root..(tip - 1) -> Header],
                      SealedHistory(chain, root, tip, parent)
               PROVE  LET i == answer.height - target + 1
                      IN  /\ headers[i] # chain[answer.height]
                          /\ \A j \in (i + 1)..Len(headers) :
                                headers[j] = chain[ExpectedHeight(target, j)]
    BY DEF BreakIsPinpointed
  <2>1. answer = Walk(tip, parent, target, headers)
    BY DEF LoopInv, AnswersAsStated
  <2>2. PICK i \in 1..Len(headers) :
        /\ target < tip /\ Len(headers) = tip - target
        /\ IsTopBreak(parent, headers, i)
        /\ HeightOf[headers[i]] = ExpectedHeight(target, i)
        /\ answer = BrokenLink(HeightOf[headers[i]])
    BY <2>1, BrokenLinkIsHighest
  <2>3. target \in root..(tip - 1) /\ headers \in Seq(Header)
    BY <2>2, TypesOfInputs
  <2>4. LeavesAt(chain, target, headers, i)
    BY <2>2, <2>3, BreakLeavesTheHistory
  <2>5. answer.height = ExpectedHeight(target, i) /\ answer.height - target + 1 = i
    BY <2>2, <2>3, TypesOfInputs DEF BrokenLink, ExpectedHeight
  <2> QED
    BY <2>4, <2>5 DEF LeavesAt
<1> QED
  BY <1>1, LoopInvariant, PTL
=============================================================================
