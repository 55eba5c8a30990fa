--------------------------- MODULE HistoryVerifier ---------------------------
(***************************************************************************)
(* The verifier of src/lib.rs as pure operators: which relation governs a  *)
(* height, which headers a proof needs, what `verify` concludes from a     *)
(* terminal and the headers served beside it, and what a VerifiedTip       *)
(* answers about an older block.  The upstream proof system is external:   *)
(* a terminal is known by the frame it is encoded in, the statement it     *)
(* binds and whether its proof holds.                                      *)
(***************************************************************************)
EXTENDS Ancestry

CONSTANTS
    Activation,      \* V1_3_ACTIVATION_HEIGHT, or NotScheduled
    EpochAnchor,     \* tx_epoch_anchor_height_for_child
    PreviousAnchor,  \* previous_tx_epoch_anchor_height_for_child
    SemanticId,      \* a header's semantic projection: all of it but the nonce
    Terminal,        \* HistoryStep terminals (wire bytes)
    WireHeight,      \* bytes 1..9 of a terminal, or TooShort
    Frame,           \* the relation whose decoder reads a terminal, or "none"
    FrameError,      \* what another relation's decoder says of it
    Statement,       \* the headers a terminal's public IO binds
    Sound,           \* does the terminal's proof hold?
    History          \* for a proof that holds, the blocks it covers

NotScheduled == -1
NoRoot       == -1
NoHeight     == -1               \* a JSON null among required heights
TooShort     == -1
Missing      == "missing"        \* an argument that was not supplied
Undecodable  == "undecodable"    \* 212 bytes that are not a BlockHeader

Generations == {"V1", "V1_3"}

BindsTwoAnchors(g) == g = "V1_3"

(* HistoryStepPackGeneration::at_height, upstream.                         *)
Governing(height) ==
    IF Activation # NotScheduled /\ height >= Activation THEN "V1_3" ELSE "V1"

(* Where a generation's recursion starts: genesis, or the block before the *)
(* fork.  NoRoot is the error of a build with no activation to root at.    *)
RecursionRootHeight(g) ==
    IF g = "V1" THEN 0
    ELSE IF Activation >= 1 THEN Activation - 1 ELSE NoRoot

(* Headers are asked for by height; NoHeight where the relation needs none.*)
AnchorHeights(g, height) ==
    [height   |-> height,
     epoch    |-> EpochAnchor[height],
     previous |-> IF BindsTwoAnchors(g) THEN PreviousAnchor[height] ELSE NoHeight]

NeedsBoundary(g) == RecursionRootHeight(g) # 0

(* Mutant: the boundary's headers are asked for at the terminal's height.  *)
RequiredHeightsOfTheTerminal(g, height) ==
    [terminal |-> AnchorHeights(g, height),
     root     |-> IF NeedsBoundary(g) THEN {AnchorHeights(g, height)} ELSE {}]

(* `root` has one element, or none where JSON has null.                    *)
RequiredHeights(g, height) ==
    [terminal |-> AnchorHeights(g, height),
     root     |-> IF NeedsBoundary(g) THEN {AnchorHeights(g, RecursionRootHeight(g))}
                  ELSE {}]

----------------------------------------------------------------------------
(* Three headers at a time: a block's and its epoch anchors'.              *)
Trio(h, e, p) == [header |-> h, epoch |-> e, previous |-> p]

Decodes(g, trio) ==
    /\ trio.header \in Header /\ trio.epoch \in Header
    /\ trio.previous \in Header \/ (trio.previous = Missing /\ ~BindsTwoAnchors(g))

(* What `verify` insists on before it looks at the proof.                  *)
Supplied(g, tip, boundary) ==
    /\ Decodes(g, tip)
    /\ NeedsBoundary(g) =>
        Decodes(g, boundary) /\ HeightOf[boundary.header] = RecursionRootHeight(g)

UnreadableFrame == {"ForeignIoLayout", "WireVersion", "WireLength", "WireEncoding",
                    "InvalidClass", "RootlessGeneration"}

(* The public IO of a terminal against the branch the headers describe:    *)
(* the tip by its semantic projection, the anchors and the boundary by     *)
(* block id.                                                               *)
BindsBranch(g, t, tip, boundary) ==
    /\ SemanticId[tip.header] = SemanticId[Statement[t].header]
    /\ tip.epoch = Statement[t].epoch
    /\ BindsTwoAnchors(g) => tip.previous = Statement[t].previous
    /\ NeedsBoundary(g) => boundary.header = Statement[t].boundary

(* What the proof check can conclude.  It speaks for the relation only if  *)
(* the matrices loaded are the relation's own; over any others it may say  *)
(* anything.                                                               *)
ProofChecks(t, genuine) == IF genuine THEN {Sound[t]} ELSE BOOLEAN

(* decode_verify_history_step_terminal_rooted: Ok or its HistoryStepError. *)
DecodeVerifyRooted(g, t, tip, boundary, checks) ==
    IF Frame[t] # g THEN FrameError[t]
    ELSE IF ~BindsBranch(g, t, tip, boundary) THEN "Verify(Branch)"
    ELSE IF ~checks THEN "Verify(Auxiliary)"
    ELSE "Ok"

(* Mutant: the tip's own id where its parent link belongs.                 *)
TipOfItsId(g, t, tip) ==
    [height |-> WireHeight[t], parent |-> BlockId[tip.header],
     root |-> RecursionRootHeight(g), proof |-> t]

TipOf(g, t, tip) ==
    [height |-> WireHeight[t], parent |-> ParentOf[tip.header],
     root |-> RecursionRootHeight(g), proof |-> t]

Verified(tip)   == [status |-> "verified", tip |-> tip]
Stale(certain)  == [status |-> "stale", certain |-> certain]
Rejected(error) == [status |-> "failed", error |-> error]
Throws          == [status |-> "throws"]

OtherRelation(g, t) == WireHeight[t] # TooShort /\ Governing(WireHeight[t]) # g

(* Mutant: every error is taken for a frame that cannot be read.           *)
IsAnyError(error) == error # "Ok"

IsUnreadableFrame(error) == error \in UnreadableFrame

Verify(g, t, tip, boundary, checks) ==
    IF OtherRelation(g, t) THEN Stale(TRUE)
    ELSE IF ~Supplied(g, tip, boundary) THEN Throws
    ELSE LET result == DecodeVerifyRooted(g, t, tip, boundary, checks)
         IN  IF result = "Ok" THEN Verified(TipOf(g, t, tip))
             ELSE IF IsUnreadableFrame(result) THEN Stale(FALSE)
             ELSE Rejected(result)

----------------------------------------------------------------------------
(* VerifiedTip::walk_to: is block `target` in the verified history?        *)
NotShown(reason) == [status |-> "not_shown", reason |-> reason]
Shown(found)     == [status |-> "in_chain", found |-> found]

AllDecode(hs) == \A i \in 1..Len(hs) : hs[i] \in Header

WalkTo(tip, target, hs) ==
    IF target < tip.root THEN NotShown("below root")
    ELSE IF ~AllDecode(hs) THEN NotShown("undecodable")
    ELSE LET w == Walk(tip.height, tip.parent, target, hs)
         IN  IF w.kind = "InChain" THEN Shown(w.found) ELSE NotShown(w.kind)

----------------------------------------------------------------------------
(* What a proof that holds means: there is a history, sealed link by link  *)
(* under the tip its statement binds, down to its relation's root.         *)
ASSUME SoundProofs ==
    /\ Sound \in [Terminal -> BOOLEAN]
    /\ \A t \in Terminal : Sound[t] =>
        /\ Statement[t].header \in Header
        /\ SealedHistory(History[t], RecursionRootHeight(Frame[t]),
                         WireHeight[t], ParentOf[Statement[t].header])

(* Another relation's decoder gives up while it reads the frame (lib.rs    *)
(* l.176-196).                                                             *)
ASSUME ForeignFrames ==
    \A t \in Terminal : WireHeight[t] \in Int /\ FrameError[t] \in UnreadableFrame

(* The semantic projection covers the parent link (README.md l.209-212).   *)
ASSUME ProjectionCoversParent ==
    \A a, b \in Header : SemanticId[a] = SemanticId[b] => ParentOf[a] = ParentOf[b]
=============================================================================
