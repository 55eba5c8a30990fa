--------------------------- MODULE MCAncestryWalk ---------------------------
(***************************************************************************)
(* A tree of headers small enough for TLC: a chain of four blocks, a fork  *)
(* from block 0, a twin of block 1 that differs in its nonce only (same    *)
(* fields the proof binds, another block id), and a header that claims a   *)
(* height its place in the chain does not have.                            *)
(***************************************************************************)
EXTENDS AncestryWalk, TLC

CONSTANTS m0, m1, m2, f1, f2, n1, l2, z

MCHeader == {m0, m1, m2, f1, f2, n1, l2}
MCHash   == MCHeader \cup {z}
MCHeight == m0 :> 0 @@ m1 :> 1 @@ m2 :> 2 @@ f1 :> 1 @@ f2 :> 2 @@ n1 :> 1 @@ l2 :> 0
MCParent == m0 :> z @@ m1 :> m0 @@ m2 :> m1 @@ f1 :> m0 @@ f2 :> f1 @@ n1 :> m0 @@ l2 :> m1
MCId     == [h \in MCHeader |-> h]
MCTip    == 0..3
=============================================================================
