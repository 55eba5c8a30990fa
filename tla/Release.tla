------------------------------- MODULE Release -------------------------------
(***************************************************************************)
(* How a release's parameters reach a visitor: repoint.sh extracts the     *)
(* packs of a release binary into mainnet/ and promotes one to assets/,    *)
(* the operator sets the printed pin and runs verify_terminal (the module  *)
(* NativeVerifier) as acceptance test, deploy.sh copies the files to the   *)
(* site one by one, and pages load them meanwhile, each with the PIN of    *)
(* the worker script it got.  Scripts stop at any failing command.         *)
(***************************************************************************)
EXTENDS NativeVerifier, MetadataFrame

CONSTANTS
    Tag,        \* releases
    Carries,    \* the packs of a release's binary, in offset order
    MaxPacks,   \* the most packs any binary carries
    Shipped,    \* the release everything is at in the beginning
    ChainTips,  \* tip heights the node may report
    BodyBytes,  \* length of a metadata body
    PageWord    \* 2^32, the words of wasm

Gen == 0..(MaxPacks - 1)
NoPack == "no pack"

ASSUME ReleaseConstants ==
    /\ Leaves = Classes /\ Body = Pack
    /\ MaxPacks \in Nat \ {0} /\ Shipped \in Pack /\ ChainTips \subseteq Nat
    /\ BodyBytes \in Nat /\ BodyBytes > DigestsBytes
    /\ PageWord \in Nat /\ HeaderBytes + BodyBytes + TrailerBytes < PageWord
    /\ \A tag \in Tag : Len(Carries[tag]) \in 1..MaxPacks
                        /\ \A i \in 1..Len(Carries[tag]) : Carries[tag][i] \in Pack
    /\ NoPack \notin Pack

VARIABLES
    work,   \* mainnet/: the packs the files gen0-*, gen1-*, ... were extracted from
    pin,    \* PIN of web/verify-worker.js in the working tree
    op,     \* the operator and the script under way; `accepted` is the terminal
            \* the acceptance test of what is being deployed verified
    last,   \* the last deployment begun: its pin, was assets/ one pack and the
            \* pin's, is its worker script out
    site,   \* the files visitors are served
    page    \* a visitor's page load

vars == <<nativeVars, work, pin, op, last, site, page>>

Whole(pack) == [meta |-> pack, mat |-> [c \in Class |-> pack]]

NoFiles == [meta |-> NoPack, mat |-> [c \in Class |-> NoPack]]

IdleOp == [pc |-> "idle", tag |-> NoPack, chosen |-> 0, step |-> 1, accepted |-> None]
NoPage == [pc |-> "away", pin |-> Shipped, meta |-> NoPack, class |-> 1, mats |-> {}]

Init ==
    /\ work = [g \in Gen |-> IF g = MaxPacks - 1 THEN Whole(Shipped) ELSE NoFiles]
    /\ pin = Shipped /\ assets = Whole(Shipped) /\ job = IdleJob
    /\ op = IdleOp /\ last = [pin |-> Shipped, whole |-> TRUE, out |-> TRUE]
    /\ site = [worker |-> Shipped, files |-> Whole(Shipped)]
    /\ page = NoPage

----------------------------------------------------------------------------
(* repoint.sh *)

(* extract.py writes the metadata of gen0 and then its matrices, those of  *)
(* gen1, ..., and removes nothing; it may exit after n of the files.       *)
FilesOf(tag) == Len(Carries[tag]) * (Classes + 1)
Written(tag, g, i, n) == g * (Classes + 1) + i < n /\ g < Len(Carries[tag])

Extract(tag, n) ==
    /\ op.pc = "idle" /\ n \in 0..FilesOf(tag)
    /\ work' = [g \in Gen |->
        [meta |-> IF Written(tag, g, 0, n) THEN Carries[tag][g + 1] ELSE work[g].meta,
         mat  |-> [c \in Class |-> IF Written(tag, g, c, n) THEN Carries[tag][g + 1]
                                   ELSE work[g].mat[c]]]]
    /\ op' = [IdleOp EXCEPT !.tag = tag,
                            !.pc = IF n = FilesOf(tag) THEN "extracted" ELSE "idle"]
    /\ UNCHANGED <<nativeVars, pin, last, site, page>>

(* print_pins: the generation and the digest a metadata file pins itself   *)
(* with; --generation-at asks the schedule of the tree it was built from,  *)
(* which the script only afterwards tells to bring to this release: it may *)
(* know of no fork.                                                        *)
PrintedGeneration(pack) == RelationOf[pack]
PrintedDigest(pack)     == pack
GenerationAt(height)    == {Governing(height), "V1"}

Matching(want) ==
    {g \in Gen : work[g].meta # NoPack /\ PrintedGeneration(work[g].meta) = want}

(* The files are gone through in the order of their names, and the last    *)
(* that is of the wanted generation is the one chosen.                     *)
Choose ==
    /\ op.pc = "extracted"
    /\ \E tip \in ChainTips : \E want \in GenerationAt(tip) :
        op' = IF Matching(want) = {} THEN [op EXCEPT !.pc = "idle"]
              ELSE [op EXCEPT !.pc = "promoting", !.chosen = Highest(Matching(want))]
    /\ UNCHANGED <<nativeVars, work, pin, last, site, page>>

PromoteMetadata ==
    /\ op.pc = "promoting"
    /\ assets' = [assets EXCEPT !.meta = work[op.chosen].meta]
    /\ op' = [op EXCEPT !.pc = "matrices", !.step = 1]
    /\ UNCHANGED <<job, work, pin, last, site, page>>

(* Only the raw files that are there, and at least one.                    *)
PromoteMatrix ==
    /\ op.pc = "matrices" /\ work[op.chosen].mat[1] # NoPack
    /\ assets' = IF work[op.chosen].mat[op.step] = NoPack THEN assets
                 ELSE [assets EXCEPT !.mat[op.step] = work[op.chosen].mat[op.step]]
    /\ op' = IF op.step = Classes THEN [op EXCEPT !.pc = "pins", !.step = 1]
             ELSE [op EXCEPT !.step = @ + 1]
    /\ UNCHANGED <<job, work, pin, last, site, page>>

(* "the new pin", of the metadata now in assets/, against the old one.     *)
ComparePins ==
    /\ op.pc = "pins"
    /\ op' = IF PrintedDigest(assets.meta) = pin
             THEN [op EXCEPT !.pc = "idle"] ELSE [op EXCEPT !.pc = "setting pin"]
    /\ UNCHANGED <<nativeVars, work, pin, last, site, page>>

(* set -e: the tip cannot be read, a copy or a compression fails.  Nor     *)
(* need the operator do what the script says.                              *)
ScriptAborts ==
    /\ op.pc \notin {"idle", "tested"}
    /\ op' = [IdleOp EXCEPT !.tag = op.tag]
    /\ UNCHANGED <<nativeVars, work, pin, last, site, page>>

(* What it tells the operator to do: step 1, then the acceptance test,     *)
(* which may also be run on whatever an aborted script left.               *)
SetPin ==
    /\ op.pc = "setting pin"
    /\ pin' = PrintedDigest(assets.meta) /\ op' = [op EXCEPT !.pc = "testing"]
    /\ UNCHANGED <<nativeVars, work, last, site, page>>

RunAcceptanceTest ==
    /\ op.pc \in {"idle", "testing"}
    /\ Start(assets.meta, None) /\ op' = [op EXCEPT !.pc = "tested"]
    /\ UNCHANGED <<work, pin, last, site, page>>

----------------------------------------------------------------------------
(* deploy.sh *)

DeployBegins(accepted) ==
    /\ op' = [op EXCEPT !.pc = "deploying", !.step = 1, !.accepted = accepted]
    /\ last' = [pin |-> pin, whole |-> assets = Whole(pin), out |-> FALSE]
    /\ UNCHANGED <<assets, work, pin, site, page>>

(* Deployed only if the test ended in CHAIN VERIFIED ...                   *)
HeedTheTest ==
    /\ op.pc = "tested" /\ job.pc = "done"
    /\ IF job.verdict = "verified" THEN DeployBegins(job.terminal)
       ELSE op' = [IdleOp EXCEPT !.tag = op.tag]
            /\ UNCHANGED <<assets, work, pin, last, site, page>>
    /\ job' = IdleJob

(* ... but the script asks nothing, and also publishes changes of the page.*)
DeployAnyway == op.pc = "idle" /\ DeployBegins(None) /\ UNCHANGED job

(* Mutant: the page and its worker first.                                  *)
CopyWorkerFirst ==
    /\ op.pc = "deploying"
    /\ site' = IF op.step = 1 THEN [site EXCEPT !.worker = pin]
               ELSE IF op.step <= Classes + 1
               THEN [site EXCEPT !.files.mat[op.step - 1] = assets.mat[op.step - 1]]
               ELSE [site EXCEPT !.files.meta = assets.meta]
    /\ last' = [last EXCEPT !.out = TRUE]
    /\ op' = IF op.step = Classes + 2 THEN [IdleOp EXCEPT !.tag = op.tag]
             ELSE [op EXCEPT !.step = @ + 1]
    /\ UNCHANGED <<nativeVars, work, pin, page>>

(* The matrices, the metadata, then the page with its worker.              *)
Copy ==
    /\ op.pc = "deploying"
    /\ site' = IF op.step <= Classes
               THEN [site EXCEPT !.files.mat[op.step] = assets.mat[op.step]]
               ELSE IF op.step = Classes + 1
               THEN [site EXCEPT !.files.meta = assets.meta]
               ELSE [site EXCEPT !.worker = pin]
    /\ last' = [last EXCEPT !.out = op.step = Classes + 2]
    /\ op' = IF op.step = Classes + 2 THEN [IdleOp EXCEPT !.tag = op.tag]
             ELSE [op EXCEPT !.step = @ + 1]
    /\ UNCHANGED <<nativeVars, work, pin, page>>

----------------------------------------------------------------------------
(* A page load: the worker's PIN, then the metadata, then the matrices.    *)
pageOnly == <<nativeVars, work, pin, op, last, site>>

OpenPage ==
    /\ page.pc \in {"away", "built", "refused"}
    /\ page' = [NoPage EXCEPT !.pc = "metadata", !.pin = site.worker]
    /\ UNCHANGED pageOnly

Refuses == page' = [NoPage EXCEPT !.pc = "refused", !.pin = page.pin]

Intact == FrameOf(site.files.meta, BodyBytes)

(* A file being overwritten is short for a moment.                         *)
Torn(step) == op.pc = "deploying" /\ op.step = step

(* The frame's header is not under the digest: a length larger by a whole  *)
(* word is the same length in wasm.                                        *)
ServedFrames ==
    {Intact, [Intact EXCEPT !.bodyLen = @ + PageWord]}
    \cup (IF Torn(Classes + 1) THEN {[Intact EXCEPT !.length = @ - 1]} ELSE {})

MetadataComes ==
    /\ page.pc = "metadata"
    /\ \E f \in ServedFrames :
        IF Decode(f, Digest[page.pin], PageWord) = "ok"
        THEN page' = [page EXCEPT !.pc = "matrices", !.meta = f.body]
        ELSE Refuses
    /\ UNCHANGED pageOnly

(* Mutant: scan_matrix compares the shape alone.                           *)
MatrixComesUnscanned ==
    /\ page.pc = "matrices"
    /\ page' = [page EXCEPT !.mats = @ \cup {<<page.class, site.files.mat[page.class]>>},
                            !.pc = IF page.class = Classes THEN "built" ELSE @,
                            !.class = IF page.class = Classes THEN 1 ELSE @ + 1]
    /\ UNCHANGED pageOnly

(* scan_matrix, under the digest the metadata pins for the class.          *)
MatrixComes ==
    /\ page.pc = "matrices"
    /\ \/ /\ site.files.mat[page.class] = page.meta
          /\ page' = [page EXCEPT !.mats = @ \cup {<<page.class, page.meta>>},
                                  !.pc = IF page.class = Classes THEN "built" ELSE @,
                                  !.class = IF page.class = Classes THEN 1 ELSE @ + 1]
       \/ (site.files.mat[page.class] # page.meta \/ Torn(page.class)) /\ Refuses
    /\ UNCHANGED pageOnly

----------------------------------------------------------------------------
Script ==
    \/ \E tag \in Tag : \E n \in 0..FilesOf(tag) : Extract(tag, n)
    \/ Choose \/ PromoteMetadata \/ PromoteMatrix \/ ComparePins \/ ScriptAborts
    \/ SetPin \/ RunAcceptanceTest \/ HeedTheTest \/ DeployAnyway \/ Copy

PageStep == OpenPage \/ MetadataComes \/ MatrixComes

Native ==
    \/ op.pc = "idle" /\ RunNative /\ UNCHANGED <<work, pin, op, last, site, page>>
    \/ NativeStep /\ UNCHANGED <<work, pin, op, last, site, page>>

Next == Script \/ Native \/ PageStep

(* curl gives up after a minute; nobody is made to run or publish anything.*)
FairSpec == Init /\ [][Next]_vars /\ WF_nativeVars(NativeStep)

----------------------------------------------------------------------------
OpPcs == {"idle", "extracted", "promoting", "matrices", "pins", "setting pin", "testing",
          "tested", "deploying"}

Extracted == [meta : Pack \cup {NoPack}, mat : [Class -> Pack \cup {NoPack}]]

ReleaseTypeOK ==
    /\ work \in [Gen -> Extracted] /\ pin \in Pack
    /\ site \in [worker : Pack, files : Files]
    /\ op \in [pc : OpPcs, tag : Tag \cup {NoPack}, chosen : Gen,
               step : 1..(Classes + 2), accepted : Terminal \cup {None}]
    /\ last \in [pin : Pack, whole : BOOLEAN, out : BOOLEAN]
    /\ page \in [pc : {"away", "metadata", "matrices", "built", "refused"}, pin : Pack,
                 meta : Pack \cup {NoPack}, class : Class, mats : SUBSET (Class \X Pack)]

(* Type invariant.                                                         *)
TypeOK == NativeTypeOK /\ ReleaseTypeOK

(* "Nothing here trusts the server" (lib.rs l.4-11): whatever deployment   *)
(* is under way while a page loads, and whatever the header of a metadata  *)
(* frame claims, what it builds a verifier of is one pack, the one its PIN *)
(* names.                                                                  *)
PageBuildsOnePack ==
    page.pc = "built" =>
        page.meta = page.pin /\ page.mats = {<<c, page.pin>> : c \in Class}

(* "If this passes against a live node, the parameters in assets/ are the  *)
(* ones the chain is running" (verify_terminal.rs l.4-6), so far as it     *)
(* goes: while files are published after a passed test, the metadata in    *)
(* assets/ is that of the pack the live proof was made under, and so is    *)
(* every matrix that proof's replay asked for, although a promotion may    *)
(* have stopped half way or have taken an earlier release's pack.  Classes *)
(* the replay did not ask for were never read.                             *)
AcceptedIsTheChains ==
    op.accepted # None =>
        /\ Holds(assets.meta, op.accepted)
        /\ \A c \in Needs[op.accepted] : assets.mat[c] = assets.meta

(* deploy.sh writes the worker, which holds the pin, after the files it    *)
(* pins: once the worker of a deployment is out, a page with its pin is    *)
(* never refused the files, provided assets/ was that one pack.            *)
PublishedPagesFindTheirFiles ==
    [][(page.pc # "refused" /\ page'.pc = "refused") =>
        ~(last.out /\ last.whole /\ last.pin = page.pin)]_vars
=============================================================================
