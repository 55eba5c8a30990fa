------------------------------ MODULE MCChain ------------------------------
(***************************************************************************)
(* The chain the runs share: six blocks with the fork at height 2, so that *)
(* the v1.3 recursion is rooted at block 1.  f5 is another block 5; n3 is  *)
(* block 3 with another nonce: the fields a proof binds, but another block *)
(* id.  t2, t4, t5 and u5 prove m2, m4, m5 and f5, t2 at the first block of  *)
(* the fork; x4 and x5 are t4 and t5 gone bad, old is of the last block    *)
(* before the fork, nobody reads newer or short.                           *)
(***************************************************************************)
EXTENDS Integers, TLC

CONSTANTS m0, m1, m2, m3, m4, m5, f5, n3, z,     \* headers, and genesis's parent
          t2, t4, t5, u5, x4, x5, old, newer, short  \* terminals

Heights == 0..5

MCHeader == {m0, m1, m2, m3, m4, m5, f5, n3}
MCHash   == MCHeader \cup {z}
MCHeight == m0 :> 0 @@ m1 :> 1 @@ m2 :> 2 @@ m3 :> 3 @@ m4 :> 4 @@ m5 :> 5 @@ f5 :> 5 @@ n3 :> 3
MCParent == m0 :> z @@ m1 :> m0 @@ m2 :> m1 @@ m3 :> m2 @@ m4 :> m3 @@ m5 :> m4 @@ f5 :> m4 @@ n3 :> m2
MCId     == [h \in MCHeader |-> h]
MCSemantic == [h \in MCHeader |-> IF h = n3 THEN m3 ELSE h]
Main == 0 :> m0 @@ 1 :> m1 @@ 2 :> m2 @@ 3 :> m3 @@ 4 :> m4 @@ 5 :> m5

MCEpoch    == [h \in Heights |-> 2 * ((h - 1) \div 2)]
MCPrevious == [h \in Heights |-> IF h < 4 THEN 0 ELSE 2 * ((h - 1) \div 2) - 2]

MCTerminal == {t2, t4, t5, u5, x4, x5, old, newer, short}
MCWire  == t2 :> 2 @@ t4 :> 4 @@ t5 :> 5 @@ u5 :> 5 @@ x4 :> 4 @@ x5 :> 5 @@ old :> 1 @@ newer :> 4 @@ short :> -1
MCFrame == [t \in MCTerminal |-> IF t = old THEN "V1" ELSE IF t \in {newer, short} THEN "none" ELSE "V1_3"]
MCFrameError == [t \in MCTerminal |-> IF t = old THEN "ForeignIoLayout" ELSE "WireEncoding"]
MCSound == [t \in MCTerminal |-> t \in {t2, t4, t5, u5, old}]
Binds(h, e, p, b) == [header |-> h, epoch |-> e, previous |-> p, boundary |-> b]
MCStatement ==
    [t \in MCTerminal |->
        CASE t = t2             -> Binds(m2, m0, m0, m1)
          [] t \in {t4, x4}      -> Binds(m4, m2, m0, m1)
          [] t \in {t5, x5}      -> Binds(m5, m4, m2, m1)
          [] t = u5              -> Binds(f5, m4, m2, m1)
          [] OTHER               -> Binds(m1, m0, m0, m0)]
MCHistory == [t \in MCTerminal |->
    IF t = old THEN 0 :> m0
    ELSE [h \in 1..(MCWire[t] - 1) |-> Main[h]]]
=============================================================================
