--------------------------- MODULE NativeVerifier ---------------------------
(***************************************************************************)
(* src/bin/verify_terminal.rs, "the native twin of the browser page": one  *)
(* sequential program that reads the metadata in assets/, asks an endpoint *)
(* it does not trust for a terminal and its headers, replays the proof     *)
(* with matrices it loads on demand, and may then walk down to a block.    *)
(* Each action is one request, or one stretch between two of them.         *)
(*                                                                         *)
(* A file of assets/ is known by the pack it was extracted from.  The      *)
(* program asks for no particular release: the metadata it finds names the *)
(* digest it is checked against.                                           *)
(***************************************************************************)
EXTENDS HistoryVerifier, FiniteSets

CONSTANTS
    Pack,        \* parameter packs: one metadata file and its matrices
    RelationOf,  \* the generation a pack names
    MadeUnder,   \* the pack whose parameters a terminal's proof was made with
    Classes,     \* HISTORY_STEP_CLASS_COUNT
    Needs,       \* the classes whose matrices a terminal's replay asks for
    Override,    \* metadata JETSAM_VERIFY_METADATA may point at
    Offers,      \* terminals the endpoint may return
    Serves,      \* headers it may return for a height, from call to call
    Targets,     \* heights --block may name
    RangeMax,    \* RANGE_MAX
    None         \* no --block; nothing read yet

Class == 1..Classes

DecodedTrios == [header : Header, epoch : Header, previous : Header \cup {Missing}]

ASSUME NativeConstants ==
    /\ Activation \in Nat \cup {NotScheduled}
    /\ Classes \in Nat \ {0} /\ RangeMax \in Nat \ {0}
    /\ RelationOf \in [Pack -> Generations] /\ MadeUnder \in [Terminal -> Pack]
    /\ Needs \in [Terminal -> SUBSET Class]
    /\ Offers \subseteq Terminal /\ Targets \subseteq Nat /\ Override \subseteq Pack
    /\ None \notin Pack \cup Terminal \cup Nat \cup DecodedTrios
    /\ Header \cap {Missing, Undecodable} = {}
    /\ \A h \in DOMAIN Serves : Serves[h] \subseteq Header \cup {Missing, Undecodable}

VARIABLES
    assets,  \* the files of assets/: the pack the metadata and each matrix are of
    job      \* the program's local variables

nativeVars == <<assets, job>>

Files == [meta : Pack, mat : [Class -> Pack]]

IdleJob == [pc |-> "idle", pack |-> None, terminal |-> None, trio |-> None,
            boundary |-> None, loaded |-> {}, result |-> "none", verdict |-> "none",
            tip |-> None, target |-> None, at |-> 0, got |-> <<>>,
            answer |-> [status |-> "none"]]

Generation == RelationOf[job.pack]

(* What a request for one header brings: a header, bytes that are not one, *)
(* or nothing, which is a null, an error or a curl that gave up.           *)
Reply(h) == IF h \in DOMAIN Serves THEN Serves[h] ELSE {Missing}

(* expect, unwrap_or_else(panic!), assert_eq!: the program ends.  What was *)
(* printed before stays printed.                                           *)
Panic ==
    IF job.verdict = "none" THEN [job EXCEPT !.pc = "done", !.verdict = "panic"]
    ELSE [job EXCEPT !.pc = "done", !.answer = [status |-> "panic"]]

----------------------------------------------------------------------------
(* Steps 1 and 2 of main: arguments, metadata "pinned by its own trailing  *)
(* digest", and the runtime rooted where its relation's recursion starts.  *)
Start(meta, target) ==
    LET asked == [IdleJob EXCEPT !.pc = "terminal", !.pack = meta, !.target = target] IN
    /\ job.pc \in {"idle", "done"}
    /\ meta \in {assets.meta} \cup Override
    /\ job' = IF RecursionRootHeight(RelationOf[meta]) = NoRoot
              THEN [asked EXCEPT !.pc = "done", !.verdict = "panic"] ELSE asked
    /\ UNCHANGED assets

(* Step 3: the terminal; bytes 1..9 of it are its height.                  *)
TerminalComes ==
    /\ job.pc = "terminal"
    /\ \E t \in Offers \cup {Missing} :
        job' = IF t = Missing \/ (t # Missing /\ WireHeight[t] = TooShort) THEN Panic
               ELSE [job EXCEPT !.pc = "headers", !.terminal = t]
    /\ UNCHANGED assets

Trios(need) ==
    LET serves(h) == IF h = NoHeight THEN {Missing} ELSE Reply(h)
    IN  {Trio(h, e, p) : h \in serves(need.height), e \in serves(need.epoch),
                         p \in serves(need.previous)}

(* The block's header and its anchors': two or three requests one after    *)
(* the other (l.212-219), folded into one step, since the program does     *)
(* nothing but print between them and a panic at any of them ends it alike.*)
HeadersCome ==
    /\ job.pc = "headers"
    /\ \E trio \in Trios(AnchorHeights(Generation, WireHeight[job.terminal])) :
        job' = IF ~Decodes(Generation, trio) THEN Panic
               ELSE [job EXCEPT !.trio = trio, !.pc = IF NeedsBoundary(Generation)
                                                      THEN "boundary" ELSE "verify"]
    /\ UNCHANGED assets

(* Step 4: the boundary.  Unlike the page, nothing looks at the height of  *)
(* the header that came.                                                   *)
BoundaryComes ==
    /\ job.pc = "boundary"
    /\ \E trio \in Trios(AnchorHeights(Generation, RecursionRootHeight(Generation))) :
        job' = IF ~Decodes(Generation, trio) THEN Panic
               ELSE [job EXCEPT !.boundary = trio, !.pc = "verify"]
    /\ UNCHANGED assets

----------------------------------------------------------------------------
(* Step 5: the replay.  A proof speaks for the pack it was made under, and *)
(* over matrices that are not the pack's own it may say anything.          *)
Holds(pack, t) == Sound[t] /\ MadeUnder[t] = pack

Checks(pack, t, loaded) ==
    IF \A m \in loaded : m[2] = pack THEN {Holds(pack, t)} ELSE BOOLEAN

(* Mutant: one of the six is left out of the list.                         *)
MissesAnEncoding(error) ==
    error \in {"ForeignIoLayout", "WireVersion", "WireLength", "InvalidClass",
               "RootlessGeneration"}

(* This program's own copy of is_unreadable_frame.                         *)
NeverParsed(error) ==
    error \in {"ForeignIoLayout", "WireVersion", "WireLength", "WireEncoding",
               "InvalidClass", "RootlessGeneration"}

(* Mutant: the split by frame comes before the schedule is asked.          *)
VerdictByFrameFirst(pack, t, result) ==
    IF result = "Ok" THEN "verified"
    ELSE IF NeverParsed(result) THEN "unreadable"
    ELSE IF OtherRelation(RelationOf[pack], t) THEN "wrong_parameters"
    ELSE "failed"

(* What is printed of the replay's result: "same split the page makes".    *)
VerdictOf(pack, t, result) ==
    IF result = "Ok" THEN "verified"
    ELSE IF OtherRelation(RelationOf[pack], t) THEN "wrong_parameters"
    ELSE IF NeverParsed(result) THEN "unreadable"
    ELSE "failed"

(* walk_to, up to the first request for headers: there is none if the      *)
(* range is empty.                                                         *)
WalkBegins(j) ==
    IF j.target = None THEN j
    ELSE IF j.target < j.tip.root THEN [j EXCEPT !.answer = NotShown("below root")]
    ELSE IF j.target >= j.tip.height
    THEN [j EXCEPT !.answer = WalkTo(j.tip, j.target, <<>>)]
    ELSE [j EXCEPT !.pc = "range", !.at = j.target]

Concluded(result) ==
    LET judged == [job EXCEPT !.pc = "done", !.result = result,
                     !.verdict = VerdictOf(job.pack, job.terminal, result)]
    IN  IF result # "Ok" THEN judged
        ELSE WalkBegins([judged EXCEPT !.tip = TipOf(Generation, job.terminal, job.trio)])

OurFrame == Frame[job.terminal] = Generation
Wanted   == IF OurFrame THEN Needs[job.terminal] ELSE {}
Held     == {m[1] : m \in job.loaded}

(* Mutant: the file that is there is taken as it is.                       *)
LoadUnscanned(c) ==
    /\ job.pc = "verify" /\ c \in Wanted \ Held
    /\ job' = [job EXCEPT !.loaded = @ \cup {<<c, assets.mat[c]>>}]
    /\ UNCHANGED assets

(* LazyMatrices::load, under its lock: once per class.  The SAFE scan      *)
(* accepts only the matrix this metadata pins; any other file is an error  *)
(* of the replay, like a proof that fails.                                 *)
Load(c) ==
    /\ job.pc = "verify" /\ c \in Wanted \ Held
    /\ job' = IF assets.mat[c] = job.pack
              THEN [job EXCEPT !.loaded = @ \cup {<<c, job.pack>>}]
              ELSE Concluded("MatrixSource")
    /\ UNCHANGED assets

BoundaryHeader == IF job.boundary = None THEN Trio(Missing, Missing, Missing)
                  ELSE job.boundary

Replays ==
    /\ job.pc = "verify" /\ Wanted \subseteq Held
    /\ \E checks \in Checks(job.pack, job.terminal, job.loaded) :
        job' = Concluded(DecodeVerifyRooted(Generation, job.terminal, job.trio,
                                            BoundaryHeader, checks))
    /\ UNCHANGED assets

----------------------------------------------------------------------------
(* headers_between(target, tip), then ancestry::walk.                      *)
Batch == IF job.tip.height - job.at < RangeMax THEN job.tip.height - job.at ELSE RangeMax

Runs(n) == {hs \in [1..n -> Header \cup {Missing, Undecodable}] :
                \A i \in 1..n : hs[i] \in Reply(job.at + i - 1)}

Appended(hs, pc) ==
    LET got == job.got \o hs
        at  == job.at + Len(hs)
    IN  IF \E i \in 1..Len(hs) : hs[i] \notin Header THEN Panic
        ELSE IF at < job.tip.height THEN [job EXCEPT !.pc = pc, !.at = at, !.got = got]
        ELSE [job EXCEPT !.pc = "done", !.at = at, !.got = got,
                         !.answer = WalkTo(job.tip, job.target, got)]

RangeComes ==
    /\ job.pc = "range"
    /\ \E hs \in Runs(Batch) : job' = Appended(hs, "range")
    /\ UNCHANGED assets

(* An error other than -32601, no result, or an array of another length.   *)
RangePanics == job.pc = "range" /\ job' = Panic /\ UNCHANGED assets

(* Mutant: what the batches brought is kept in front of the single headers.*)
RangeUnknownKept ==
    /\ job.pc = "range"
    /\ job' = [job EXCEPT !.pc = "single", !.at = job.target]
    /\ UNCHANGED assets

(* Mutant: the range is asked for again.                                   *)
RangeUnknownRetried ==
    /\ job.pc = "range"
    /\ job' = [job EXCEPT !.at = job.target, !.got = <<>>]
    /\ UNCHANGED assets

(* -32601: the whole range again, one header per request.                  *)
RangeUnknown ==
    /\ job.pc = "range"
    /\ job' = [job EXCEPT !.pc = "single", !.at = job.target, !.got = <<>>]
    /\ UNCHANGED assets

SingleComes ==
    /\ job.pc = "single"
    /\ \E hs \in Runs(1) : job' = Appended(hs, "single")
    /\ UNCHANGED assets

NativeStep ==
    \/ TerminalComes \/ HeadersCome \/ BoundaryComes
    \/ (\E c \in Class : Load(c)) \/ Replays
    \/ RangeComes \/ RangePanics \/ RangeUnknown \/ SingleComes

RunNative == \E meta \in Pack, target \in Targets \cup {None} : Start(meta, target)

----------------------------------------------------------------------------
NativePcs == {"idle", "terminal", "headers", "boundary", "verify", "range", "single", "done"}

Answers == [status : {"none", "panic"}] \cup [status : {"in_chain"}, found : Header]
           \cup [status : {"not_shown"},
                 reason : {"below root", "undecodable", "NotBelowTip", "Count", "Height", "Link"}]

JobRecords ==
    [pc : NativePcs, pack : Pack \cup {None}, terminal : Terminal \cup {None},
     trio : DecodedTrios \cup {None}, boundary : DecodedTrios \cup {None},
     loaded : SUBSET (Class \X Pack),
     result : {"none", "Ok", "MatrixSource", "Verify(Branch)", "Verify(Auxiliary)"}
              \cup UnreadableFrame,
     verdict : {"none", "panic", "verified", "wrong_parameters", "unreadable", "failed"},
     tip : [height : Int, parent : Hash, root : Int, proof : Terminal] \cup {None},
     target : Targets \cup {None}, at : Nat, got : Seq(Header), answer : Answers]

(* Type invariant, with the invariant of headers_between's two loops: one  *)
(* header for each height from the target up to where they have come.      *)
NativeTypeOK ==
    /\ assets \in Files /\ job \in JobRecords
    /\ job.pc \in {"range", "single"} =>
        /\ job.verdict = "verified" /\ job.target \in Targets
        /\ job.at < job.tip.height /\ Len(job.got) = job.at - job.target

(* "Every input is either self-authenticating or checked locally" (l.8):   *)
(* whatever lies in assets/ and whatever the endpoint served, CHAIN        *)
(* VERIFIED is printed only for a proof that holds under the pack whose    *)
(* metadata was read.                                                      *)
NativeVerifiedIsSound ==
    job.verdict = "verified" => Holds(job.pack, job.terminal)

(* A block printed as IN THE VERIFIED CHAIN is that block of the proof's   *)
(* history, and one below the tip is NOT SHOWN only for a reason in what   *)
(* was served: the walk was handed a header for every height up to the     *)
(* tip, in place i one served for the i-th of them, and one of them is not *)
(* the history's.  The program itself never drops, repeats or shifts one,  *)
(* not even where a source that answers the same height differently each   *)
(* time turns out in mid-range to lack the range method (l.126-131).       *)
NativeWalkIsTrue ==
    /\ job.answer.status = "in_chain" =>
        job.answer.found = History[job.terminal][job.target]
    /\ (job.answer.status = "not_shown" /\ job.target >= job.tip.root
                                        /\ job.target < job.tip.height) =>
        /\ Len(job.got) = job.tip.height - job.target
        /\ \A i \in 1..Len(job.got) : job.got[i] \in Reply(job.target + i - 1)
        /\ job.got # RunOf(History[job.terminal], job.target, job.tip.height)

(* What the page's verifier says of the bytes this program judged.         *)
PageSays == Verify(Generation, job.terminal, job.trio, BoundaryHeader,
                   Holds(job.pack, job.terminal))

(* "The native twin of the browser page" (l.3): on the same bytes the two  *)
(* come to the same verdict and the same tip; in particular another        *)
(* generation's terminal comes back as a verification failure (l.165-167,  *)
(* 281-283) in neither.  Excepted are a boundary     *)
(* header of another height, which the page refuses unread and this        *)
(* program as a failed proof, a matrix file that is not the pack's, and a  *)
(* proof that holds at a height its relation does not govern, which only   *)
(* the page turns away.                                                    *)
TwinAgrees ==
    (/\ job.result \notin {"none", "MatrixSource"}
     /\ NeedsBoundary(Generation) =>
            HeightOf[job.boundary.header] = RecursionRootHeight(Generation)) =>
        CASE job.verdict = "verified" ->
                PageSays = Verified(job.tip) \/ OtherRelation(Generation, job.terminal)
          [] job.verdict = "wrong_parameters" -> PageSays = Stale(TRUE)
          [] job.verdict = "unreadable"       -> PageSays = Stale(FALSE)
          [] job.verdict = "failed"           -> PageSays = Rejected(job.result)

(* Every request gives up after a minute (curl -m 60, l.107), so the       *)
(* program ends.                                                           *)
NativeEnds == job.pc \notin {"idle", "done"} ~> job.pc = "done"
=============================================================================
