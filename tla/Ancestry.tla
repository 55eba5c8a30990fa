------------------------------ MODULE Ancestry ------------------------------
(***************************************************************************)
(* Parent-link ancestry, src/ancestry.rs: is a block part of the history a *)
(* proof verified?  This module holds the data (headers, their links) and  *)
(* what `walk` answers, stated without its loops: which check of which     *)
(* header fails first.  AncestryWalk.tla is the loop itself and is shown   *)
(* to compute this answer.                                                 *)
(***************************************************************************)
EXTENDS Integers, Sequences

CONSTANTS
    Header,     \* block headers, every field included (the nonce too)
    Hash,       \* digests that can stand in a prev_block_hash
    HeightOf,   \* header.height
    ParentOf,   \* header.prev_block_hash
    BlockId     \* block_id: the hash of the whole header, nonce included

ASSUME HeaderFields ==
    /\ HeightOf \in [Header -> Nat]
    /\ ParentOf \in [Header -> Hash]
    /\ BlockId \in [Header -> Hash]

(* Collision resistance of hash_block_header, the one cryptographic fact   *)
(* the walk rests on.                                                      *)
ASSUME BlockIdInjective ==
    \A a, b \in Header : BlockId[a] = BlockId[b] => a = b

----------------------------------------------------------------------------
(* The answers of `walk`: Ok(&headers[0]) or one of the four WalkErrors.   *)

InChain(found)             == [kind |-> "InChain", found |-> found]
NotBelowTip(target, tip)   == [kind |-> "NotBelowTip", target |-> target, tip |-> tip]
Count(expected, actual)    == [kind |-> "Count", expected |-> expected, actual |-> actual]
WrongHeight(expected, actual) ==
    [kind |-> "Height", expected |-> expected, actual |-> actual]
BrokenLink(height)         == [kind |-> "Link", height |-> height]

(* Header i of the run is the block at this height.                        *)
ExpectedHeight(target, i) == target + i - 1

Misplaced(target, hs) ==
    {i \in 1..Len(hs) : HeightOf[hs[i]] # ExpectedHeight(target, i)}

(* The link header i has to hash to: its child's parent field, or, for the *)
(* top of the run, the verified tip's.                                     *)
LinkAbove(parent, hs, i) ==
    IF i = Len(hs) THEN parent ELSE ParentOf[hs[i + 1]]

(* Mutant: the top of the run is not held against the tip's parent.        *)
UnlinkedBelowTheTop(parent, hs) ==
    {i \in 1..(Len(hs) - 1) : BlockId[hs[i]] # LinkAbove(parent, hs, i)}

Unlinked(parent, hs) ==
    {i \in 1..Len(hs) : BlockId[hs[i]] # LinkAbove(parent, hs, i)}

Lowest(S)  == CHOOSE i \in S : \A j \in S : i <= j
Highest(S) == CHOOSE i \in S : \A j \in S : j <= i

Walk(tip, parent, target, hs) ==
    IF target >= tip THEN NotBelowTip(target, tip)
    ELSE IF Len(hs) # tip - target THEN Count(tip - target, Len(hs))
    ELSE IF Misplaced(target, hs) # {}
      THEN LET i == Lowest(Misplaced(target, hs))
           IN  WrongHeight(ExpectedHeight(target, i), HeightOf[hs[i]])
    ELSE IF Unlinked(parent, hs) # {}
      THEN BrokenLink(HeightOf[hs[Highest(Unlinked(parent, hs))]])
    ELSE InChain(hs[1])

----------------------------------------------------------------------------
(* The history a proof covers from block `root` to the parent of its tip:  *)
(* one header per height, each sealed by its child's parent link.          *)
SealedHistory(chain, root, tip, parent) ==
    /\ root \in Nat /\ tip \in Nat /\ root < tip
    /\ chain \in [root..(tip - 1) -> Header]
    /\ \A h \in root..(tip - 1) : HeightOf[chain[h]] = h
    /\ \A h \in root..(tip - 2) : BlockId[chain[h]] = ParentOf[chain[h + 1]]
    /\ BlockId[chain[tip - 1]] = parent

(* The run of headers a source serves for target..tip-1 when it serves the *)
(* blocks of `chain`.                                                      *)
RunOf(chain, target, tip) ==
    [i \in 1..(tip - target) |-> chain[ExpectedHeight(target, i)]]
=============================================================================
