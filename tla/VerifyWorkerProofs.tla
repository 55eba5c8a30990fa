------------------------- MODULE VerifyWorkerProofs -------------------------
(***************************************************************************)
(* The worker's safety for any number of runs, walks, endpoints, releases  *)
(* and page loads: the type invariant, and that every tip and every        *)
(* "in chain" answer is backed by a proof that holds.                      *)
(***************************************************************************)
EXTENDS VerifyWorker, AncestryLemmas

LEMMA EndedType ==
    ASSUME TypeOK, NEW r \in Run, NEW v \in Verdicts
    PROVE  Ended(r, v) \in RunRecords
<1>1. run[r] \in RunRecords
  BY DEF TypeOK
<1>2. Default \in Source /\ 1 \in 1..(Classes + 1)
  BY WorkerConstants
<1> QED
  BY <1>1, <1>2 DEF Ended, RunRecords, RunPcs

(* A run's record may change to any well-formed one.                       *)
RunFits(x) ==
    /\ x \in RunRecords
    /\ x.pc \in {"headers", "boundary"} => x.terminal # None
    /\ x.pc \in BeforeVerifier => x.class \in Class

RunTypes(runs) == runs \in [Run -> RunRecords] /\ \A r \in Run : RunFits(runs[r])

(* And a walk's.                                                           *)
WalkFits(x) ==
    /\ x \in WalkRecords
    /\ x.pc \in {"batch", "single"} => x.at < x.from

WalkTypes(walks) ==
    walks \in [Walkers -> WalkRecords] /\ \A w \in Walkers : WalkFits(walks[w])

LEMMA TypeOKRuns ==
    TypeOK <=> /\ pin \in Pin /\ assets \in Pin /\ loads \in 0..Reloads
               /\ db \in [Image -> Image \cup {None}]
               /\ conn \in {"closed", "open", "refused"} /\ deleting \in BOOLEAN
               /\ engine \in {"off", "starting", "on", "broken"} /\ pools \in Nat
               /\ rpcUrl \in Source /\ tip \in Tips \cup {None}
               /\ WalkTypes(walk)
               /\ RunTypes(run)
BY DEF TypeOK, RunTypes, RunFits, WalkTypes, WalkFits

LEMMA RunTypesUpdate ==
    ASSUME RunTypes(run), NEW r \in Run, NEW x, RunFits(x),
           run' = [run EXCEPT ![r] = x]
    PROVE  RunTypes(run')
<1>1. x \in RunRecords
  BY DEF RunFits
<1>2. run' \in [Run -> RunRecords]
  BY <1>1 DEF RunTypes
<1>3. \A q \in Run : RunFits(run'[q])
  BY DEF RunTypes
<1> QED
  BY <1>2, <1>3 DEF RunTypes

LEMMA EndedFits ==
    ASSUME TypeOK, NEW r \in Run, NEW v \in Verdicts
    PROVE  RunFits(Ended(r, v))
<1>1. Ended(r, v) \in RunRecords
  BY EndedType
<1>2. Ended(r, v).pc = "done"
  BY DEF Ended, TypeOK, RunRecords
<1> QED
  BY <1>1, <1>2 DEF RunFits, BeforeVerifier

(* Asking the next request moves pc and asked only.                        *)
LEMMA AskIs ==
    ASSUME TypeOK, NEW r \in Run, NEW pc
    PROVE  Ask(r, pc) = [run EXCEPT ![r] = [run[r] EXCEPT !.pc = pc, !.asked = rpcUrl]]
BY DEF Ask, TypeOK

LEMMA FailType ==
    ASSUME TypeOK, NEW r \in Run, Fail(r)
    PROVE  TypeOK'
<1>1. FailedAt(r) \in Verdicts
  BY DEF FailedAt, Verdicts, TypeOK, RunRecords
<1>2. RunTypes(run')
  BY <1>1, EndedFits, RunTypesUpdate, TypeOKRuns DEF Fail
<1> QED
  BY <1>2, TypeOKRuns DEF Fail, siteVars, storeVars, TypeOK, RunTypes, RunFits, WalkTypes, WalkFits

LEMMA IdleRunType == IdleRun \in RunRecords
<1>1. NoVerdict \in Verdicts
  BY DEF Verdicts
<1>2. Default \in Source /\ 1 \in 1..(Classes + 1)
  BY WorkerConstants
<1>3. {} \in SUBSET (Class \X Image) /\ {} \in SUBSET Class
  OBVIOUS
<1> QED
  BY <1>1, <1>2, <1>3 DEF IdleRun, RunRecords, RunPcs

LEMMA OneIsAClass == 1 \in Class
BY WorkerConstants DEF Class

LEMMA StartedFits ==
    ASSUME NEW x, NEW pc \in {"idle", "lost", "done", "engine", "probing"},
           NEW tamper \in BOOLEAN, NEW c \in BOOLEAN, NEW a \in Source, NEW v \in Verdicts,
           x = [IdleRun EXCEPT !.pc = pc, !.tamper = tamper, !.cleared = c, !.asked = a]
    PROVE  RunFits(x) /\ RunFits([x EXCEPT !.verdict = v])
<1>1. x \in RunRecords /\ x.pc = pc
  BY IdleRunType, ZenonT(40) DEF RunRecords, RunPcs
<1>2. x.class \in Class
  BY OneIsAClass DEF IdleRun
<1>3. [x EXCEPT !.verdict = v] \in RunRecords /\ [x EXCEPT !.verdict = v].pc = pc
  BY <1>1 DEF RunRecords
<1>4. [x EXCEPT !.verdict = v].class \in Class
  BY <1>1, <1>2 DEF RunRecords
<1> QED
  BY <1>1, <1>2, <1>3, <1>4 DEF RunFits

LEMMA IdleRunFits ==
    ASSUME NEW pc \in {"idle", "lost"}
    PROVE  RunFits([IdleRun EXCEPT !.pc = pc]) /\ RunFits(IdleRun)
<1>1. IdleRun.class \in Class /\ IdleRun.pc = "idle"
  BY OneIsAClass DEF IdleRun
<1>2. [IdleRun EXCEPT !.pc = pc].pc = pc /\ [IdleRun EXCEPT !.pc = pc].class \in Class
  BY OneIsAClass DEF IdleRun
<1>3. [IdleRun EXCEPT !.pc = pc] \in RunRecords
  BY IdleRunType DEF RunRecords, RunPcs
<1> QED
  BY IdleRunType, <1>1, <1>2, <1>3 DEF RunFits

----------------------------------------------------------------------------
(* What `verify` concludes is a verdict, or it throws.                     *)
LEMMA RootIsInt ==
    ASSUME NEW g
    PROVE  RecursionRootHeight(g) \in Int
BY ForkSplitsTheRelations DEF RecursionRootHeight, NoRoot, NotScheduled

LEMMA TipIsTip ==
    ASSUME NEW g, NEW t \in Terminal, NEW trio, trio.header \in Header
    PROVE  TipOf(g, t, trio) \in Tips
<1>1. WireHeight[t] \in Int
  BY ForeignFrames
<1>2. ParentOf[trio.header] \in Hash
  BY HeaderFields
<1> QED
  BY <1>1, <1>2, RootIsInt DEF TipOf, Tips

LEMMA VerifyType ==
    ASSUME NEW g, NEW t \in Terminal, NEW trio, NEW boundary, NEW checks,
           NEW out, out = Verify(g, t, trio, boundary, checks)
    PROVE  /\ out = Throws \/ out \in Verdicts
           /\ out.status = "throws" <=> out = Throws
           /\ out.status = "verified" =>
                /\ out.tip \in Tips
                /\ out = Verified(TipOf(g, t, trio))
                /\ Supplied(g, trio, boundary)
                /\ DecodeVerifyRooted(g, t, trio, boundary, checks) = "Ok"
<1> DEFINE result == DecodeVerifyRooted(g, t, trio, boundary, checks)
<1>1. result \in UnreadableFrame \cup CheckErrors \cup {"Ok"}
  BY ForeignFrames DEF DecodeVerifyRooted, CheckErrors
<1>2. CASE OtherRelation(g, t)
  <2>1. out = [status |-> "stale", certain |-> TRUE]
    BY <1>2 DEF Verify, Stale
  <2> QED
    BY <2>1 DEF Verdicts, Throws
<1>3. CASE ~OtherRelation(g, t) /\ ~Supplied(g, trio, boundary)
  BY <1>3 DEF Verify, Throws
<1>4. CASE ~OtherRelation(g, t) /\ Supplied(g, trio, boundary)
  <2>1. CASE result = "Ok"
    <3>1. out = [status |-> "verified", tip |-> TipOf(g, t, trio)]
      BY <1>4, <2>1 DEF Verify, Verified
    <3>2. TipOf(g, t, trio) \in Tips
      BY <1>4, TipIsTip DEF Supplied, Decodes
    <3>3. out \in Verdicts
      BY <3>1, <3>2 DEF Verdicts
    <3> QED
      BY <3>1, <3>2, <3>3, <1>4, <2>1 DEF Throws, Verified
  <2>2. CASE result # "Ok" /\ result \in UnreadableFrame
    <3>1. out = [status |-> "stale", certain |-> FALSE]
      BY <1>4, <2>2 DEF Verify, Stale, IsUnreadableFrame
    <3> QED
      BY <3>1 DEF Verdicts, Throws
  <2>3. CASE result # "Ok" /\ result \notin UnreadableFrame
    <3>1. out = [status |-> "failed", error |-> result]
      BY <1>4, <2>3 DEF Verify, Rejected, IsUnreadableFrame
    <3>2. out \in Verdicts
      BY <3>1, <2>3, <1>1 DEF Verdicts
    <3> QED
      BY <3>1, <3>2 DEF Throws
  <2> QED
    BY <2>1, <2>2, <2>3
<1> QED
  BY <1>2, <1>3, <1>4

----------------------------------------------------------------------------
(* The steps of a run.                                                     *)
LEMMA RunOnlyType ==
    ASSUME TypeOK, RunTypes(run'),
           UNCHANGED <<siteVars, storeVars, engine, pools, rpcUrl, tip, walk>>
    PROVE  TypeOK'
BY TypeOKRuns DEF siteVars, storeVars, TypeOK, RunTypes, RunFits, WalkTypes, WalkFits

LEMMA RunFitsNow ==
    ASSUME TypeOK, NEW r \in Run
    PROVE  RunFits(run[r]) /\ RunTypes(run) /\ rpcUrl \in Source
BY TypeOKRuns DEF RunTypes

(* Moving on to another step before there is a verifier.                   *)
LEMMA MoveFits ==
    ASSUME TypeOK, NEW r \in Run, NEW pc \in BeforeVerifier, run[r].class \in Class
    PROVE  RunFits([run[r] EXCEPT !.pc = pc])
<1>1. run[r] \in RunRecords
  BY DEF TypeOK
<1>2. [run[r] EXCEPT !.pc = pc] \in RunRecords
  BY <1>1 DEF RunRecords, RunPcs, BeforeVerifier
<1> QED
  BY <1>1, <1>2 DEF RunFits, RunRecords, BeforeVerifier

LEMMA MoveOnType ==
    ASSUME TypeOK, NEW r \in Run, NEW pc \in BeforeVerifier,
           run[r].pc \in BeforeVerifier, run' = [run EXCEPT ![r].pc = pc],
           UNCHANGED <<siteVars, storeVars, engine, pools, rpcUrl, tip, walk>>
    PROVE  TypeOK'
<1>1. run' = [run EXCEPT ![r] = [run[r] EXCEPT !.pc = pc]]
  OBVIOUS
<1>2. RunFits([run[r] EXCEPT !.pc = pc])
  BY MoveFits DEF TypeOK
<1> QED
  BY <1>1, <1>2, RunFitsNow, RunTypesUpdate, RunOnlyType

LEMMA EngineUpType ==
    ASSUME TypeOK, NEW r \in Run, EngineUp(r)
    PROVE  TypeOK'
BY MoveOnType DEF EngineUp, BeforeVerifier

LEMMA MetadataArrivesType ==
    ASSUME TypeOK, NEW r \in Run, MetadataArrives(r)
    PROVE  TypeOK'
BY MoveOnType DEF MetadataArrives, BeforeVerifier

LEMMA CacheMissType ==
    ASSUME TypeOK, NEW r \in Run, CacheMiss(r)
    PROVE  TypeOK'
BY MoveOnType DEF CacheMiss, BeforeVerifier

LEMMA SourceAnswersType ==
    ASSUME TypeOK, NEW r \in Run, SourceAnswers(r)
    PROVE  TypeOK'
<1>1. run' = [run EXCEPT ![r] = [run[r] EXCEPT !.pc = "engine"]]
  BY DEF SourceAnswers
<1>2. RunFits([run[r] EXCEPT !.pc = "engine"])
  BY MoveFits DEF SourceAnswers, TypeOK, BeforeVerifier
<1>3. RunTypes(run')
  BY <1>1, <1>2, RunFitsNow, RunTypesUpdate
<1>4. engine' \in {"off", "starting", "on", "broken"} /\ pools' \in Nat
  BY DEF SourceAnswers, StartEngine, TypeOK
<1> QED
  BY <1>3, <1>4, TypeOKRuns DEF SourceAnswers, siteVars, storeVars, TypeOK, RunTypes, RunFits, WalkTypes, WalkFits

(* What a loaded matrix does to the record.                                *)
LEMMA AssetArrivesType ==
    ASSUME TypeOK, NEW r \in Run, AssetArrives(r)
    PROVE  TypeOK'
<1> DEFINE x == [run[r] EXCEPT !.pc = "banking",
                               !.mats = @ \cup {<<run[r].class, <<pin, run[r].class>>>>}]
<1>1. run[r] \in RunRecords /\ run[r].class \in Class /\ pin \in Pin
  BY DEF AssetArrives, TypeOK, BeforeVerifier
<1>2. {<<run[r].class, <<pin, run[r].class>>>>} \in SUBSET (Class \X Image)
  BY <1>1 DEF Image
<1>3. x \in RunRecords /\ x.pc = "banking" /\ x.class = run[r].class
  BY <1>1, <1>2 DEF RunRecords, RunPcs
<1>4. RunFits(x)
  BY <1>1, <1>3 DEF RunFits
<1>5. run' = [run EXCEPT ![r] = x]
  BY DEF AssetArrives
<1> QED
  BY <1>4, <1>5, RunFitsNow, RunTypesUpdate, RunOnlyType DEF AssetArrives

LEMMA WithMatrixFits ==
    ASSUME TypeOK, NEW r \in Run, NEW image \in Image, run[r].class \in Class
    PROVE  \E x : /\ WithMatrix(AfterClass(r), r, image) = [run EXCEPT ![r] = x]
                  /\ RunFits(x)
<1>1. run[r] \in RunRecords /\ run \in [Run -> RunRecords] /\ rpcUrl \in Source
  BY DEF TypeOK
<1>2. {<<run[r].class, image>>} \in SUBSET (Class \X Image)
  OBVIOUS
<1>3. run[r].class + 1 \in 1..(Classes + 1)
  BY WorkerConstants DEF Class
<1>4. CASE run[r].class = Classes
  <2> DEFINE x == [run[r] EXCEPT !.pc = "terminal", !.asked = rpcUrl, !.class = @ + 1,
                                 !.mats = @ \cup {<<run[r].class, image>>}]
  <2>1. WithMatrix(AfterClass(r), r, image) = [run EXCEPT ![r] = x]
    BY <1>1, <1>4, ZenonT(40) DEF WithMatrix, AfterClass, Ask
  <2>2. x \in RunRecords /\ x.pc = "terminal"
    BY <1>1, <1>2, <1>3 DEF RunRecords, RunPcs
  <2>3. RunFits(x)
    BY <2>2 DEF RunFits, BeforeVerifier
  <2> QED
    BY <2>1, <2>3
<1>5. CASE run[r].class # Classes
  <2> DEFINE x == [run[r] EXCEPT !.pc = "lookup", !.class = @ + 1,
                                 !.mats = @ \cup {<<run[r].class, image>>}]
  <2>1. WithMatrix(AfterClass(r), r, image) = [run EXCEPT ![r] = x]
    BY <1>1, <1>5 DEF WithMatrix, AfterClass
  <2>2. x \in RunRecords /\ x.pc = "lookup" /\ x.class = run[r].class + 1
    BY <1>1, <1>2, <1>3 DEF RunRecords, RunPcs
  <2>3. run[r].class + 1 \in Class
    BY <1>5, WorkerConstants DEF Class
  <2>4. RunFits(x)
    BY <2>2, <2>3 DEF RunFits
  <2> QED
    BY <2>1, <2>4
<1> QED
  BY <1>4, <1>5

LEMMA CacheHitType ==
    ASSUME TypeOK, NEW r \in Run, CacheHit(r)
    PROVE  TypeOK'
<1> DEFINE image == db[Key(pin, run[r].class)]
           ks == run[r].class
<1>1. run[r].class \in Class /\ pin \in Pin
  BY DEF CacheHit, TypeOK, BeforeVerifier
<1>2. image \in Image
  BY <1>1 DEF CacheHit, TypeOK, Key, Image
<1>3. PICK x : /\ WithMatrix(AfterClass(r), r, image) = [run EXCEPT ![r] = x]
               /\ RunFits(x)
  BY <1>1, <1>2, WithMatrixFits
<1>4. run \in [Run -> RunRecords]
  BY DEF TypeOK
<1> DEFINE y == [x EXCEPT !.trust = "cached", !.restored = @ \cup {ks}]
<1>5. run' = [run EXCEPT ![r] = y]
  BY <1>3, <1>4 DEF CacheHit
<1>6. {ks} \in SUBSET Class
  BY <1>1
<1>7. x \in RunRecords
  BY <1>3 DEF RunFits
<1>8. y \in RunRecords /\ y.pc = x.pc /\ y.class = x.class
        /\ y.terminal = x.terminal
  BY <1>6, <1>7 DEF RunRecords
<1>9. RunFits(y)
  BY <1>3, <1>8 DEF RunFits
<1> HIDE DEF y
<1> QED
  BY <1>5, <1>9, RunFitsNow, RunTypesUpdate, RunOnlyType DEF CacheHit

LEMMA BankedType ==
    ASSUME TypeOK, NEW r \in Run, Banked(r)
    PROVE  TypeOK'
<1> DEFINE image == <<pin, run[r].class>>
<1>1. run[r].class \in Class /\ pin \in Pin
  BY DEF Banked, TypeOK, BeforeVerifier
<1>2. image \in Image
  BY <1>1 DEF Image
<1>3. PICK x : /\ WithMatrix(AfterClass(r), r, image) = [run EXCEPT ![r] = x]
               /\ RunFits(x)
  BY <1>1, <1>2, WithMatrixFits
<1>4. RunTypes(run')
  BY <1>3, RunFitsNow, RunTypesUpdate DEF Banked
<1>5. db' \in [Image -> Image \cup {None}]
  BY <1>2 DEF Banked, TypeOK
<1> QED
  BY <1>4, <1>5, TypeOKRuns DEF Banked, siteVars, TypeOK, RunTypes, RunFits, WalkTypes, WalkFits

LEMMA TerminalArrivesType ==
    ASSUME TypeOK, NEW r \in Run, TerminalArrives(r)
    PROVE  TypeOK'
<1>1. PICK t \in Offers[run[r].asked] :
        run' = [Ask(r, "headers") EXCEPT ![r].terminal = Flipped(r, t)]
  BY DEF TerminalArrives
<1>2. run[r] \in RunRecords /\ run \in [Run -> RunRecords] /\ rpcUrl \in Source
  BY DEF TypeOK
<1>3. t \in Terminal
  <2>1. run[r].asked \in Source
    BY <1>2 DEF RunRecords
  <2> QED
    BY <2>1, WorkerConstants
<1>4. Flipped(r, t) \in Terminal
  BY <1>3, TamperingBreaksProofs DEF Flipped
<1> DEFINE x == [run[r] EXCEPT !.pc = "headers", !.asked = rpcUrl, !.terminal = Flipped(r, t)]
<1>5. run' = [run EXCEPT ![r] = x]
  BY <1>1, <1>2 DEF Ask
<1>6. x \in RunRecords /\ x.pc = "headers" /\ x.terminal = Flipped(r, t)
  BY <1>2, <1>4 DEF RunRecords, RunPcs
<1>7. RunFits(x)
  BY <1>4, <1>6, WorkerConstants DEF RunFits, BeforeVerifier
<1> QED
  BY <1>5, <1>7, RunFitsNow, RunTypesUpdate, RunOnlyType DEF TerminalArrives

LEMMA FetchedType ==
    ASSUME TypeOK, NEW r \in Run, NEW need, NEW trio \in Fetched(r, need)
    PROVE  trio \in [header : Served, epoch : Served, previous : Served]
<1> DEFINE serves(h) == IF h = NoHeight THEN {Missing} ELSE ServedBy(run[r].asked, h)
<1>1. run[r].asked \in Source
  BY DEF TypeOK, RunRecords
<1>2. Missing \in Served
  BY DEF Served
<1>3. ASSUME NEW h
      PROVE  serves(h) \subseteq Served
  BY <1>1, <1>2, WorkerConstants DEF ServedBy
<1>4. PICK h \in serves(need.height), e \in serves(need.epoch), p \in serves(need.previous) :
        trio = Trio(h, e, p)
  BY DEF Fetched
<1> HIDE DEF serves
<1>5. h \in Served /\ e \in Served /\ p \in Served
  BY <1>3, <1>4
<1> QED
  BY <1>4, <1>5 DEF Trio

LEMMA ConcludeType ==
    ASSUME TypeOK, NEW r \in Run, NEW trio, NEW boundary,
           run[r].pc \in {"headers", "boundary"}, Conclude(r, trio, boundary)
    PROVE  TypeOK'
<1>1. PICK checks \in ProofChecks(run[r].terminal, Genuine(r)) :
        LET out == Replay(r, trio, boundary, checks) IN
        /\ tip' = IF out.status = "verified" THEN out.tip ELSE tip
        /\ run' = [run EXCEPT ![r] =
                    Ended(r, IF out.status = "throws" THEN FailedAt(r) ELSE out)]
  BY DEF Conclude
<1> DEFINE out == Replay(r, trio, boundary, checks)
           v == IF out.status = "throws" THEN FailedAt(r) ELSE out
<1>2. run[r].terminal \in Terminal
  BY DEF TypeOK, RunRecords
<1>3. /\ out = Throws \/ out \in Verdicts
      /\ out.status = "throws" <=> out = Throws
      /\ out.status = "verified" => out.tip \in Tips
  <2>1. CASE Missing \in {trio.header, trio.epoch}
    BY <2>1 DEF Replay, Throws
  <2>2. CASE Missing \notin {trio.header, trio.epoch}
    <3>1. out = Verify(Relation, run[r].terminal, trio, boundary, checks)
      BY <2>2 DEF Replay
    <3> QED
      BY <3>1, <1>2, VerifyType
  <2> QED
    BY <2>1, <2>2
<1> HIDE DEF out
<1>4. FailedAt(r) \in Verdicts
  BY DEF FailedAt, Verdicts, TypeOK, RunRecords
<1>5. v \in Verdicts
  BY <1>3, <1>4
<1>6. run' = [run EXCEPT ![r] = Ended(r, v)]
  BY <1>1 DEF out
<1> HIDE DEF v
<1>7. RunTypes(run')
  BY <1>5, <1>6, EndedFits, RunFitsNow, RunTypesUpdate
<1>8. tip' = tip \/ tip' \in Tips
  BY <1>1, <1>3 DEF out
<1> QED
  BY <1>7, <1>8, TypeOKRuns DEF Conclude, siteVars, storeVars, TypeOK, RunTypes, RunFits, WalkTypes, WalkFits

LEMMA HeadersArriveType ==
    ASSUME TypeOK, NEW r \in Run, HeadersArrive(r)
    PROVE  TypeOK'
<1>1. PICK trio \in Fetched(r, Needed(r).terminal) :
        IF NeedsBoundary(Relation)
        THEN /\ run' = [Ask(r, "boundary") EXCEPT ![r].trio = trio]
             /\ UNCHANGED <<siteVars, storeVars, engine, pools, rpcUrl, tip, walk>>
        ELSE Conclude(r, trio, Missing)
  BY DEF HeadersArrive
<1>2. CASE ~NeedsBoundary(Relation)
  BY <1>1, <1>2, ConcludeType DEF HeadersArrive
<1>3. CASE NeedsBoundary(Relation)
  <2>1. trio \in [header : Served, epoch : Served, previous : Served]
    BY FetchedType
  <2>2. run[r] \in RunRecords /\ run \in [Run -> RunRecords] /\ rpcUrl \in Source
    BY DEF TypeOK
  <2> DEFINE x == [run[r] EXCEPT !.pc = "boundary", !.asked = rpcUrl, !.trio = trio]
  <2>3. run' = [run EXCEPT ![r] = x]
    BY <1>1, <1>3, <2>2 DEF Ask
  <2>4. /\ x \in RunRecords /\ x.pc = "boundary"
        /\ x.terminal = run[r].terminal
    BY <2>1, <2>2 DEF RunRecords, RunPcs
  <2>5. run[r].terminal # None
    BY DEF HeadersArrive, TypeOK
  <2>7. RunFits(x)
    BY <2>4, <2>5 DEF RunFits, BeforeVerifier
  <2> QED
    BY <1>1, <1>3, <2>3, <2>7, RunFitsNow, RunTypesUpdate, RunOnlyType
<1> QED
  BY <1>2, <1>3

LEMMA BoundaryArrivesType ==
    ASSUME TypeOK, NEW r \in Run, BoundaryArrives(r)
    PROVE  TypeOK'
BY ConcludeType DEF BoundaryArrives

LEMMA RunStepType ==
    ASSUME TypeOK, NEW r \in Run, RunStep(r)
    PROVE  TypeOK'
BY SourceAnswersType, EngineUpType, MetadataArrivesType, CacheHitType, CacheMissType,
   AssetArrivesType, BankedType, TerminalArrivesType, HeadersArriveType,
   BoundaryArrivesType, FailType
   DEF RunStep, RunThrows, Rejects, EngineDown, StorageDown, WrongMetadata, WrongMatrix,
       NoHeightToRead

(* The "run" message.                                                      *)
LEMMA StartRunType ==
    ASSUME TypeOK, NEW r \in Run, NEW tamper \in BOOLEAN,
           RunOnBadUrl(r, tamper) \/ RunOnDefault(r, tamper)
           \/ \E url \in Source : RunOnOwnSource(r, tamper, url)
    PROVE  TypeOK'
<1>1. rpcUrl' \in Source
  BY WorkerConstants DEF RunOnBadUrl, RunOnDefault, RunOnOwnSource
<1>2. engine' \in {"off", "starting", "on", "broken"} /\ pools' \in Nat
  BY DEF RunOnBadUrl, RunOnDefault, RunOnOwnSource, StartEngine, TypeOK
<1>3. [status |-> "failed", error |-> "url"] \in Verdicts
  BY DEF Verdicts
<1>4. ASSUME NEW pc \in {"done", "engine", "probing"}
      PROVE  /\ RunFits(Started(r, tamper, pc))
             /\ RunFits([Started(r, tamper, pc) EXCEPT
                            !.verdict = [status |-> "failed", error |-> "url"]])
  <2>1. deleting \in BOOLEAN
    BY DEF TypeOK
  <2> QED
    BY <1>1, <1>3, <2>1, StartedFits, ZenonT(40) DEF Started
<1>5. RunTypes(run')
  BY <1>4, RunFitsNow, RunTypesUpdate DEF RunOnBadUrl, RunOnDefault, RunOnOwnSource
<1> QED
  BY <1>1, <1>2, <1>5, TypeOKRuns
     DEF RunOnBadUrl, RunOnDefault, RunOnOwnSource, Supersede, siteVars, storeVars,
         TypeOK, RunTypes, RunFits, WalkTypes, WalkFits

----------------------------------------------------------------------------
(* The steps of a walk.                                                    *)
LEMMA WalkUpdateType ==
    ASSUME TypeOK, NEW w \in Walkers, NEW x, WalkFits(x),
           walk' = [walk EXCEPT ![w] = x], UNCHANGED walkOnly
    PROVE  TypeOK'
<1>1. x \in WalkRecords
  BY DEF WalkFits
<1>2. walk' \in [Walkers -> WalkRecords]
  BY <1>1 DEF TypeOK
<1>3. \A v \in Walkers : walk'[v].pc \in {"batch", "single"} => walk'[v].at < walk'[v].from
  BY DEF WalkFits, TypeOK
<1> QED
  BY <1>2, <1>3 DEF TypeOK, walkOnly, siteVars, storeVars

LEMMA NothingYet == NoHeaders \in Seq(Served) /\ NoAnswer \in Answers
BY DEF Answers, NoHeaders

LEMMA IdleWalkType == IdleWalk \in WalkRecords /\ IdleWalk.pc = "idle"
BY NothingYet, WorkerConstants DEF IdleWalk, WalkRecords

LEMMA AnsweredFits ==
    ASSUME TypeOK, NEW w \in Walkers, NEW answer \in Answers, NEW proof \in Terminal \cup {None}
    PROVE  WalkFits(Answered(w, answer, proof))
<1>1. walk[w].target \in Int /\ walk[w].from \in Int
  BY DEF TypeOK, WalkRecords
<1>2. Answered(w, answer, proof) \in WalkRecords /\ Answered(w, answer, proof).pc = "done"
  BY <1>1, IdleWalkType DEF Answered, WalkRecords
<1> QED
  BY <1>2 DEF WalkFits

LEMMA FailedFits ==
    ASSUME TypeOK, NEW w \in Walkers
    PROVE  WalkFits(Answered(w, WalkFailed, None))
BY AnsweredFits DEF Answers

LEMMA InChainCase ==
    ASSUME NEW x \in Tips, NEW target \in Int, NEW hs \in Seq(Served),
           Walk(x.height, x.parent, target, hs).kind = "InChain"
    PROVE  /\ target < x.height /\ Len(hs) = x.height - target
           /\ Walk(x.height, x.parent, target, hs) = InChain(hs[1])
<1> DEFINE a == Walk(x.height, x.parent, target, hs)
<1>0. x.height \in Int
  BY DEF Tips
<1>1. ~(target >= x.height)
  BY DEF Walk, NotBelowTip
<1>2. ~(Len(hs) # x.height - target)
  BY <1>1 DEF Walk, Count
<1>3. ~(Misplaced(target, hs) # {})
  <2>1. SUFFICES ASSUME Misplaced(target, hs) # {}
                 PROVE  a.kind = "Height"
    OBVIOUS
  <2>2. a = WrongHeight(ExpectedHeight(target, Lowest(Misplaced(target, hs))),
                        HeightOf[hs[Lowest(Misplaced(target, hs))]])
    BY <1>1, <1>2, <2>1 DEF Walk
  <2> QED
    BY <2>2 DEF WrongHeight
<1>4. ~(Unlinked(x.parent, hs) # {})
  BY <1>1, <1>2, <1>3 DEF Walk, BrokenLink
<1>5. a = InChain(hs[1])
  BY <1>1, <1>2, <1>3, <1>4 DEF Walk
<1> QED
  BY <1>0, <1>1, <1>2, <1>5

LEMMA WalkKinds ==
    ASSUME NEW tipHeight, NEW parent, NEW target, NEW hs
    PROVE  Walk(tipHeight, parent, target, hs).kind
                \in {"InChain", "NotBelowTip", "Count", "Height", "Link"}
BY DEF Walk, InChain, NotBelowTip, Count, WrongHeight, BrokenLink

LEMMA WalkToType ==
    ASSUME NEW x \in Tips, NEW target \in Int, NEW hs \in Seq(Served)
    PROVE  /\ WalkTo(x, target, hs) \in Answers
           /\ WalkTo(x, target, hs).status = "in_chain" =>
                /\ x.root <= target /\ target < x.height /\ Len(hs) = x.height - target
                /\ AllDecode(hs)
                /\ Walk(x.height, x.parent, target, hs) = InChain(hs[1])
                /\ WalkTo(x, target, hs) = Shown(hs[1])
<1> DEFINE a == Walk(x.height, x.parent, target, hs)
<1>1. CASE target < x.root \/ ~AllDecode(hs)
  BY <1>1 DEF WalkTo, NotShown, Answers
<1>2. CASE ~(target < x.root) /\ AllDecode(hs)
  <2>1. CASE a.kind = "InChain"
    <3>1. target < x.height /\ Len(hs) = x.height - target /\ a = InChain(hs[1])
      BY <2>1, InChainCase
    <3>2. x.height \in Int /\ x.root \in Int
      BY DEF Tips
    <3>3. 1 \in 1..Len(hs)
      BY <3>1, <3>2
    <3>4. hs[1] \in Header
      BY <3>3, <1>2 DEF AllDecode
    <3>5. a.found = hs[1]
      BY <3>1 DEF InChain
    <3>6. WalkTo(x, target, hs) = Shown(hs[1])
      BY <2>1, <1>2, <3>5 DEF WalkTo
    <3>7. Shown(hs[1]) \in Answers
      BY <3>4 DEF Shown, Answers
    <3> QED
      BY <1>2, <3>1, <3>2, <3>6, <3>7
  <2>2. CASE a.kind # "InChain"
    <3>1. a.kind \in {"NotBelowTip", "Count", "Height", "Link"}
      BY <2>2, WalkKinds
    <3>2. WalkTo(x, target, hs) = [status |-> "not_shown", reason |-> a.kind]
      BY <2>2, <1>2 DEF WalkTo, NotShown
    <3> HIDE DEF a
    <3>3. [status |-> "not_shown", reason |-> a.kind]
            \in [status : {"not_shown"}, reason : {"below root", "undecodable",
                            "NotBelowTip", "Count", "Height", "Link"}]
      BY <3>1
    <3>5. WalkTo(x, target, hs) \in Answers
      BY <3>2, <3>3 DEF Answers
    <3>4. WalkTo(x, target, hs).status = "not_shown"
      BY <3>2
    <3> QED
      BY <3>4, <3>5
  <2> QED
    BY <2>1, <2>2
<1> QED
  BY <1>1, <1>2

LEMMA ReceivedFits ==
    ASSUME TypeOK, NEW w \in Walkers, NEW hs \in Seq(Served), NEW pc \in {"batch", "single"}
    PROVE  WalkFits(Received(w, hs, pc))
<1>1. walk[w] \in WalkRecords /\ rpcUrl \in Source /\ tip \in Tips \cup {None}
  BY DEF TypeOK
<1> DEFINE got == walk[w].got \o hs
           at  == walk[w].at + Len(hs)
<1>2. got \in Seq(Served) /\ at \in Int
  BY <1>1 DEF WalkRecords
<1>3. CASE at < walk[w].from
  <2>1. Received(w, hs, pc)
            = [walk[w] EXCEPT !.pc = pc, !.got = got, !.at = at, !.asked = rpcUrl]
    BY <1>3 DEF Received
  <2> HIDE DEF got, at
  <2> QED
    BY <1>1, <1>2, <1>3, <2>1, ZenonT(40) DEF WalkRecords, WalkFits
<1>4. CASE ~(at < walk[w].from)
  <2>1. Received(w, hs, pc) = Assembled(w, got)
    BY <1>4 DEF Received
  <2> HIDE DEF got
  <2>2. ASSUME tip # None
        PROVE  /\ WalkTo(tip, walk[w].target, got) \in Answers
               /\ tip.proof \in Terminal \cup {None}
    <3>1. walk[w].target \in Int /\ tip \in Tips
      BY <1>1, <2>2 DEF WalkRecords
    <3> QED
      BY <1>2, <3>1, WalkToType DEF Tips
  <2> QED
    BY <2>1, <2>2, AnsweredFits, FailedFits DEF Assembled
<1> QED
  BY <1>3, <1>4

LEMMA ServedRunsType ==
    ASSUME NEW w \in Walkers, NEW n \in Nat, NEW hs \in RunsServed(w, n)
    PROVE  hs \in Seq(Served) /\ Len(hs) = n
BY DEF RunsServed

LEMMA BatchIsNat ==
    ASSUME TypeOK, NEW w \in Walkers, walk[w].pc = "batch"
    PROVE  Batch(w) \in Nat \ {0} /\ Batch(w) <= walk[w].from - walk[w].at
BY WorkerConstants DEF Batch, TypeOK, WalkRecords

LEMMA StartWalkType ==
    ASSUME TypeOK, NEW w \in Walkers, NEW target \in Int, StartWalk(w, target)
    PROVE  TypeOK'
<1>1. CASE Refused(target)
  BY <1>1, FailedFits, WalkUpdateType DEF StartWalk
<1>2. CASE ~Refused(target)
  <2>1. tip \in Tips /\ target \in WalkFrom..(tip.height - 1)
    BY <1>2 DEF Refused, TypeOK
  <2>2. tip.height \in Int /\ WalkFrom \in Int /\ rpcUrl \in Source
    BY <2>1, WorkerConstants DEF Tips, WalkFrom, TypeOK
  <2>3. target < tip.height
    BY <2>1, <2>2
  <2> DEFINE x == [IdleWalk EXCEPT !.pc = "batch", !.target = target, !.from = tip.height,
                                   !.at = target, !.asked = rpcUrl]
  <2>4. x \in WalkRecords /\ x.at = target /\ x.from = tip.height
    BY <2>2, IdleWalkType DEF WalkRecords
  <2>5. WalkFits(x)
    BY <2>3, <2>4 DEF WalkFits
  <2>6. walk' = [walk EXCEPT ![w] = x] /\ UNCHANGED walkOnly
    BY <1>2 DEF StartWalk
  <2> HIDE DEF x
  <2> QED
    BY <2>5, <2>6, WalkUpdateType
<1> QED
  BY <1>1, <1>2

LEMMA WalkStepType ==
    ASSUME TypeOK, NEW w \in Walkers, WalkStep(w)
    PROVE  TypeOK'
<1>1. CASE RangeArrives(w)
  BY <1>1, BatchIsNat, ServedRunsType, ReceivedFits, WalkUpdateType DEF RangeArrives
<1>2. CASE NoRangeMethod(w)
  <2>1. walk[w] \in WalkRecords /\ rpcUrl \in Source /\ walk[w].at < walk[w].from
    BY <1>2 DEF NoRangeMethod, TypeOK
  <2>2. WalkFits([walk[w] EXCEPT !.pc = "single", !.asked = rpcUrl])
    BY <2>1 DEF WalkFits, WalkRecords
  <2> QED
    BY <1>2, <2>2, FailedFits, WalkUpdateType DEF NoRangeMethod
<1>3. CASE SingleArrives(w)
  BY <1>3, ServedRunsType, ReceivedFits, WalkUpdateType DEF SingleArrives
<1>4. CASE WalkThrows(w)
  BY <1>4, FailedFits, WalkUpdateType DEF WalkThrows
<1> QED
  BY <1>1, <1>2, <1>3, <1>4 DEF WalkStep

----------------------------------------------------------------------------
(* The page and the server.                                                *)
LEMMA SurroundingsType ==
    ASSUME TypeOK, EngineSettles \/ Probe \/ ClearStorage \/ Publish
    PROVE  TypeOK'
<1>1. db' \in [Image -> Image \cup {None}]
  BY DEF EngineSettles, Probe, ClearStorage, Publish, Empty, TypeOK, storeVars
<1> QED
  BY <1>1 DEF EngineSettles, Probe, ClearStorage, Publish, storeVars, siteVars, TypeOK

LEMMA IdleWalkFits ==
    ASSUME NEW pc \in {"idle", "lost"}
    PROVE  WalkFits([IdleWalk EXCEPT !.pc = pc]) /\ WalkFits(IdleWalk)
<1>1. /\ [IdleWalk EXCEPT !.pc = pc] \in WalkRecords
      /\ [IdleWalk EXCEPT !.pc = pc].pc = pc
  BY IdleWalkType DEF WalkRecords
<1> QED
  BY <1>1, IdleWalkType DEF WalkFits

LEMMA ReloadType ==
    ASSUME TypeOK, Reload
    PROVE  TypeOK'
<1>1. RunTypes(run')
  BY IdleRunFits DEF Reload, RunTypes, RunFits
<1>2. WalkTypes(walk')
  BY IdleWalkFits DEF Reload, WalkTypes, WalkFits
<1>3. loads' \in 0..Reloads
  BY WorkerConstants DEF Reload, TypeOK
<1>4. db' \in [Image -> Image \cup {None}]
  BY DEF Reload, TypeOK, Empty
<1> QED
  BY <1>1, <1>2, <1>3, <1>4, WorkerConstants DEF Reload, TypeOK, RunTypes, RunFits, WalkTypes, WalkFits

LEMMA TypeOKInit == Init => TypeOK
<1> SUFFICES ASSUME Init PROVE TypeOK
  OBVIOUS
<1>1. RunTypes(run)
  BY IdleRunFits DEF Init, RunTypes, RunFits
<1>2. WalkTypes(walk)
  BY IdleWalkFits DEF Init, WalkTypes, WalkFits
<1>3. db \in [Image -> Image \cup {None}]
  BY DEF Init, Empty
<1>4. loads \in 0..Reloads
  BY WorkerConstants DEF Init
<1>5. /\ pin \in Pin /\ assets \in Pin
      /\ conn \in {"closed", "open", "refused"} /\ deleting \in BOOLEAN
      /\ engine \in {"off", "starting", "on", "broken"} /\ pools \in Nat
      /\ rpcUrl \in Source /\ tip \in Tips \cup {None}
  BY WorkerConstants DEF Init
<1> QED
  BY <1>1, <1>2, <1>3, <1>4, <1>5, TypeOKRuns

LEMMA ServedHeightsAreInts ==
    ASSUME NEW target \in DOMAIN Serves[Default]
    PROVE  target \in Int
BY WorkerConstants

LEMMA TypeOKStep == TypeOK /\ [Next]_vars => TypeOK'
<1> SUFFICES ASSUME TypeOK, [Next]_vars PROVE TypeOK'
  OBVIOUS
<1>1. CASE UNCHANGED vars
  BY <1>1 DEF vars, siteVars, storeVars, TypeOK
<1>2. CASE Visit
  BY <1>2, StartRunType, StartWalkType, ServedHeightsAreInts, SurroundingsType, ReloadType
     DEF Visit
<1>3. CASE Probe \/ EngineSettles
  BY <1>3, SurroundingsType
<1>4. CASE \E r \in Run : RunStep(r)
  BY <1>4, RunStepType
<1>5. CASE \E w \in Walkers : WalkStep(w)
  BY <1>5, WalkStepType
<1> QED
  BY <1>1, <1>2, <1>3, <1>4, <1>5 DEF Next

(* The worker's state keeps its shape, for any number of runs, walks,      *)
(* endpoints, releases and page loads.                                     *)
THEOREM WorkerTypeOK == Spec => []TypeOK
BY TypeOKInit, TypeOKStep, PTL DEF Spec
=============================================================================
