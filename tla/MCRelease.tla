----------------------------- MODULE MCRelease -----------------------------
(***************************************************************************)
(* Packs, releases and the native verifier on MCChain.  The pack v1p is of *)
(* the launch relation, a and b of v1.3; everything is at a.  A release    *)
(* carries only a, or v1p and b.  The one endpoint is hostile: it has the  *)
(* other block 5, block 3 with another nonce, a wrong block for the        *)
(* boundary, bytes that are no header, t5 made under the pack b, and late, *)
(* which proves block 3 of a launch relation that ended with block 1.      *)
(***************************************************************************)
EXTENDS Release, MCChain

CONSTANTS v1p, a, b, r1, r2, late

MCPack     == {v1p, a, b}
MCRelation == v1p :> "V1" @@ a :> "V1_3" @@ b :> "V1_3"

AllTerminals  == MCTerminal \cup {late}
AllWire       == late :> 3 @@ MCWire
AllFrames     == late :> "V1" @@ MCFrame
AllErrors     == late :> "ForeignIoLayout" @@ MCFrameError
AllSound      == late :> TRUE @@ MCSound
AllStatements == late :> Binds(m3, m2, m2, m0) @@ MCStatement
AllHistories  == late :> [h \in 0..2 |-> Main[h]] @@ MCHistory

MCMade  == [t \in AllTerminals |-> IF t \in {old, late} THEN v1p ELSE IF t = t5 THEN b ELSE a]
MCNeeds == [t \in AllTerminals |-> IF t = t4 THEN {1, 2} ELSE {1}]

MCOverride == {v1p, b}
MCOffers   == {t4, t5, x4, old, late, newer, short}
MCServes   ==
    [h \in Heights |-> CASE h = 5 -> {m5, f5}
                         [] h = 4 -> {m4, Undecodable}
                         [] h = 3 -> {m3, n3}
                         [] h = 1 -> {m1, m2}
                         [] OTHER -> {Main[h]}]
MCTargets  == {0, 1, 3, 4}
MCCarries  == r1 :> <<a>> @@ r2 :> <<v1p, b>>
MCTips     == {4}
MCDigest   == [p \in MCPack |-> p]

(* Only where they cannot matter to each other are the parts kept apart:   *)
(* the native verifier is run by hand while nothing else has moved, the    *)
(* acceptance test before anything was published, and a page is open while *)
(* no script but deploy.sh works.                                          *)
Published == [worker |-> Shipped, files |-> Whole(Shipped)]
Unmixed   == \A g \in Gen : work[g] \in {NoFiles} \cup {Whole(p) : p \in Pack}

Apart ==
    /\ (job.pc # "idle" /\ op.pc # "tested") =>
        /\ op = IdleOp /\ page = NoPage /\ pin = Shipped /\ assets = Whole(Shipped)
        /\ last.out /\ site = Published /\ work[0] = NoFiles
    /\ op.pc = "tested" => site = Published /\ last.out
    /\ page.pc # "away" => op.pc \in {"idle", "deploying"} /\ Unmixed

ApartSpec == Init /\ [][Next /\ Apart']_vars /\ WF_nativeVars(NativeStep)
=============================================================================
