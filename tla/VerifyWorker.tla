---------------------------- MODULE VerifyWorker ----------------------------
(***************************************************************************)
(* The engine worker, src/web/verify-worker.js: the onmessage handler for  *)
(* "run" and "walk", the engine and the IndexedDB cache it shares between  *)
(* messages, and the page operations that act on them from outside.        *)
(*                                                                         *)
(* A handler runs alone until it awaits, so each action below is one       *)
(* stretch between two awaits: it begins with the settlement of the        *)
(* promise awaited and ends by issuing the next request.  Handlers of      *)
(* several messages interleave at those points and share rpcUrl,           *)
(* verifiedTip, the engine promise and the database.                       *)
(***************************************************************************)
EXTENDS HistoryVerifier, FiniteSets

CONSTANTS
    Runs,        \* at most this many "run" messages
    Walks,       \* and this many "walk" messages
    Classes,     \* HISTORY_STEP_CLASS_COUNT
    Pin,         \* release digests: the PIN of a page and its assets
    RelationOf,  \* the relation a pin's parameters belong to
    Source,      \* RPC endpoints
    Default,     \* the same-origin one
    BadUrl,      \* something typed that is not an http(s) url
    Offers,      \* terminals an endpoint may return
    Serves,      \* headers an endpoint may return for a height
    HasRange,    \* does it implement jetsam_getHeadersByHeightRange?
    Tampered,    \* a terminal with one bit of its body flipped
    MaxWalk,     \* MAX_WALK
    RangeMax,    \* RANGE_MAX
    MaxSingle,   \* MAX_WALK_SINGLE
    Faults,      \* may requests, storage and the engine fail?
    Reloads,     \* at most this many page loads after the first
    None         \* null

Malformed == "malformed"     \* a header that is not 424 hex digits

(* What an endpoint may put where a header is expected; null for a height  *)
(* it does not know.                                                       *)
Served == Header \cup {Missing, Undecodable, Malformed}

ServedBy(s, h) == IF h \in DOMAIN Serves[s] THEN Serves[s][h] ELSE {Missing}

ASSUME WorkerConstants ==
    /\ Runs \in Nat /\ Walks \in Nat /\ Classes \in Nat \ {0} /\ Reloads \in Nat
    /\ MaxWalk \in Nat \ {0} /\ RangeMax \in Nat \ {0} /\ MaxSingle \in Nat \ {0}
    /\ Faults \in BOOLEAN
    /\ None \notin Terminal /\ BadUrl \notin Source /\ Default \in Source
    /\ \A p \in Pin : RelationOf[p] \in Generations
    /\ \A s \in Source : Offers[s] \subseteq Terminal /\ HasRange[s] \in BOOLEAN
    /\ Header \cap {Missing, Undecodable, Malformed} = {}
    /\ \A s \in Source : \A h \in DOMAIN Serves[s] :
            h \in Nat /\ Serves[s][h] \subseteq Served

(* A flipped bit does not leave a proof that holds.                        *)
ASSUME TamperingBreaksProofs ==
    /\ Tampered \in [Terminal -> Terminal]
    /\ \A t \in Terminal : ~Sound[Tampered[t]]

ASSUME ForkSplitsTheRelations ==
    Activation \in Nat \cup {NotScheduled}

VARIABLES
    pin,        \* PIN of the worker script the page loaded
    assets,     \* the release whose assets the server holds
    db,         \* IndexedDB "matrices": key |-> packed image or None
    conn,       \* openDb(): "closed", "open", or "refused" for good
    deleting,   \* a deleteDatabase the worker's connection blocks
    engine,     \* startEngine(): "off", "starting", "on", "broken"
    pools,      \* initThreadPool calls since the worker started
    rpcUrl,     \* global of the same name
    tip,        \* verifiedTip: None or the VerifiedTip
    run,        \* the "run" messages, in the order they were sent
    walk,       \* the "walk" messages
    loads       \* page loads so far

storeVars == <<db, conn, deleting>>
siteVars  == <<pin, assets, loads>>
vars == <<siteVars, storeVars, engine, pools, rpcUrl, tip, run, walk>>

Run  == 1..Runs
Walkers == 1..Walks
Class == 1..Classes

(* A cached image is known by the digest and the class it was derived for. *)
Image == Pin \X Class
(* Mutant: the digest is left out of the key.                              *)
KeyOfTheClass(p, c) == <<CHOOSE q \in Pin : TRUE, c>>

Key(p, c) == <<p, c>>
Empty == [k \in Image |-> None]

NoVerdict  == [status |-> "none"]
IdleRun == [pc |-> "idle", tamper |-> FALSE, asked |-> Default, class |-> 1,
            mats |-> {}, restored |-> {}, trust |-> "full", cleared |-> FALSE,
            terminal |-> None, trio |-> None, verdict |-> NoVerdict]

NoAnswer  == [status |-> "none"]
NoHeaders == <<>>
IdleWalk == [pc |-> "idle", target |-> 0, from |-> 0, at |-> 0, asked |-> Default,
             got |-> NoHeaders, answer |-> NoAnswer, proof |-> None]

Init ==
    /\ pin \in Pin /\ assets \in Pin /\ loads = 0
    /\ db = Empty /\ conn = "closed" /\ deleting = FALSE
    /\ engine = "off" /\ pools = 0
    /\ rpcUrl = Default /\ tip = None
    /\ run = [r \in Run |-> IdleRun]
    /\ walk = [w \in Walkers |-> IdleWalk]

----------------------------------------------------------------------------
(* How a run ends.  Its matrices are freed with the verifier that consumed *)
(* them; before there is one, nothing frees them.                          *)
Ended(r, verdict) ==
    [run[r] EXCEPT !.pc = "done", !.verdict = verdict,
                   !.asked = Default, !.trio = None, !.class = 1,
                   !.mats = IF run[r].class > Classes THEN {} ELSE @]

(* The catch of the handler: the step that threw is all that is known.     *)
FailedAt(r) == [status |-> "failed", error |-> run[r].pc]

Fail(r) ==
    /\ run' = [run EXCEPT ![r] = Ended(r, FailedAt(r))]
    /\ UNCHANGED <<siteVars, storeVars, engine, pools, rpcUrl, tip, walk>>

(* rpc() reads the global at the call: the request goes to the endpoint of *)
(* the newest run, whoever makes it.                                       *)
Ask(r, pc) == [run EXCEPT ![r].pc = pc, ![r].asked = rpcUrl]

(* Mutant: only an engine that is already up is reused.                    *)
StartEngineUnlessUp ==
    IF engine # "on" THEN engine' = "starting" /\ pools' = pools + 1
    ELSE UNCHANGED <<engine, pools>>

(* startEngine(): `engine ??=`, so whoever comes second shares the first   *)
(* one's promise.                                                          *)
StartEngine ==
    IF engine = "off" THEN engine' = "starting" /\ pools' = pools + 1
    ELSE UNCHANGED <<engine, pools>>

----------------------------------------------------------------------------
(* The "run" message, up to its first await.                               *)
Supersede(r) ==
    /\ run[r].pc = "idle" /\ \A q \in Run : q < r => run[q].pc # "idle"
    /\ tip' = None
    /\ UNCHANGED <<siteVars, storeVars, walk>>

Started(r, tamper, pc) ==
    [IdleRun EXCEPT !.pc = pc, !.tamper = tamper, !.cleared = deleting,
                    !.asked = rpcUrl']

(* Mutant: what was typed becomes the endpoint before it is examined.      *)
RunOnBadUrlKept(r, tamper) ==
    /\ Supersede(r)
    /\ rpcUrl' = BadUrl
    /\ run' = [run EXCEPT ![r] = [Started(r, tamper, "done") EXCEPT
                                    !.verdict = [status |-> "failed", error |-> "url"]]]
    /\ UNCHANGED <<engine, pools>>

RunOnBadUrl(r, tamper) ==
    /\ Supersede(r)
    /\ rpcUrl' = Default
    /\ run' = [run EXCEPT ![r] = [Started(r, tamper, "done") EXCEPT
                                    !.verdict = [status |-> "failed", error |-> "url"]]]
    /\ UNCHANGED <<engine, pools>>

RunOnDefault(r, tamper) ==
    /\ Supersede(r)
    /\ rpcUrl' = Default
    /\ run' = [run EXCEPT ![r] = Started(r, tamper, "engine")]
    /\ StartEngine

RunOnOwnSource(r, tamper, url) ==
    /\ Supersede(r)
    /\ url # Default
    /\ rpcUrl' = url
    /\ run' = [run EXCEPT ![r] = Started(r, tamper, "probing")]
    /\ UNCHANGED <<engine, pools>>

(* The one request that tests a custom endpoint before anything expensive. *)
SourceAnswers(r) ==
    /\ run[r].pc = "probing"
    /\ run' = [run EXCEPT ![r].pc = "engine"]
    /\ StartEngine
    /\ UNCHANGED <<siteVars, storeVars, rpcUrl, tip, walk>>

(* init and initThreadPool settle once, for every run that waits on them.  *)
EngineSettles ==
    /\ engine = "starting"
    /\ engine' \in {"on"} \cup (IF Faults THEN {"broken"} ELSE {})
    /\ UNCHANGED <<siteVars, storeVars, pools, rpcUrl, tip, run, walk>>

EngineUp(r) ==
    /\ run[r].pc = "engine" /\ engine = "on"
    /\ run' = [run EXCEPT ![r].pc = "metadata"]
    /\ UNCHANGED <<siteVars, storeVars, engine, pools, rpcUrl, tip, walk>>

(* new Parameters(meta, PIN) authenticates the metadata, or throws.        *)
ParametersDecode ==
    assets = pin /\ RecursionRootHeight(RelationOf[pin]) # NoRoot

MetadataArrives(r) ==
    /\ run[r].pc = "metadata" /\ ParametersDecode
    /\ run' = [run EXCEPT ![r].pc = "lookup"]
    /\ UNCHANGED <<siteVars, storeVars, engine, pools, rpcUrl, tip, walk>>

(* A class is done: look the next one up, or consume the matrices into a   *)
(* verifier and ask for the terminal.                                      *)
AfterClass(r) ==
    IF run[r].class = Classes THEN Ask(r, "terminal")
    ELSE [run EXCEPT ![r].pc = "lookup"]

WithMatrix(runs, r, image) ==
    [runs EXCEPT ![r].class = @ + 1,
                 ![r].mats = @ \cup {<<run[r].class, image>>}]

(* A hit is loaded as it is: load_cached_matrix seals it without a rescan. *)
CacheHit(r) ==
    LET k == Key(pin, run[r].class) IN
    /\ run[r].pc = "lookup" /\ conn = "open" /\ db[k] # None
    /\ run' = [WithMatrix(AfterClass(r), r, db[k]) EXCEPT
                    ![r].trust = "cached", ![r].restored = @ \cup {run[r].class}]
    /\ UNCHANGED <<siteVars, storeVars, engine, pools, rpcUrl, tip, walk>>

CacheMiss(r) ==
    /\ run[r].pc = "lookup" /\ conn = "open" /\ db[Key(pin, run[r].class)] = None
    /\ run' = [run EXCEPT ![r].pc = "asset"]
    /\ UNCHANGED <<siteVars, storeVars, engine, pools, rpcUrl, tip, walk>>

(* scan_matrix accepts the artifact of this release only.                  *)
AssetArrives(r) ==
    /\ run[r].pc = "asset" /\ assets = pin
    /\ run' = [run EXCEPT ![r].pc = "banking",
                          ![r].mats = @ \cup {<<run[r].class, <<pin, run[r].class>>>>}]
    /\ UNCHANGED <<siteVars, storeVars, engine, pools, rpcUrl, tip, walk>>

Banked(r) ==
    LET image == <<pin, run[r].class>> IN
    /\ run[r].pc = "banking"
    /\ db' = [db EXCEPT ![Key(pin, run[r].class)] = image]
    /\ run' = WithMatrix(AfterClass(r), r, image)
    /\ UNCHANGED <<siteVars, conn, deleting, engine, pools, rpcUrl, tip, walk>>
----------------------------------------------------------------------------
(* The terminal, then the headers the relation needs for it.               *)
Relation == RelationOf[pin]

(* Mutant: the bit is flipped in a copy that is then left unused.          *)
NotFlipped(r, t) == t

Flipped(r, t) == IF run[r].tamper THEN Tampered[t] ELSE t

TerminalArrives(r) ==
    /\ run[r].pc = "terminal"
    /\ \E t \in Offers[run[r].asked] :
        /\ WireHeight[Flipped(r, t)] # TooShort
        /\ run' = [Ask(r, "headers") EXCEPT ![r].terminal = Flipped(r, t)]
    /\ UNCHANGED <<siteVars, storeVars, engine, pools, rpcUrl, tip, walk>>

(* Three headers from the endpoint asked, at the heights the verifier      *)
(* named; one the relation does not need is not fetched.                   *)
Fetched(r, need) ==
    LET serves(h) == IF h = NoHeight THEN {Missing} ELSE ServedBy(run[r].asked, h)
    IN  {Trio(h, e, p) : h \in serves(need.height), e \in serves(need.epoch),
                         p \in serves(need.previous)}

Needed(r) == RequiredHeights(Relation, WireHeight[run[r].terminal])

(* The relation is its own matrices'.                                      *)
Genuine(r) == \A m \in run[r].mats : m[2] = <<pin, m[1]>>

(* hex() throws on a tip or anchor header that is null, before the replay. *)
Replay(r, trio, boundary, checks) ==
    IF Missing \in {trio.header, trio.epoch} THEN Throws
    ELSE Verify(Relation, run[r].terminal, trio, boundary, checks)

(* Step 4 of the handler: the replay, its verdict and the tip it leaves,   *)
(* which nothing interrupts.                                               *)
Conclude(r, trio, boundary) ==
    /\ \E checks \in ProofChecks(run[r].terminal, Genuine(r)) :
        LET out == Replay(r, trio, boundary, checks) IN
        /\ tip' = IF out.status = "verified" THEN out.tip ELSE tip
        /\ run' = [run EXCEPT ![r] =
                    Ended(r, IF out.status = "throws" THEN FailedAt(r) ELSE out)]
    /\ UNCHANGED <<siteVars, storeVars, engine, pools, rpcUrl, walk>>

HeadersArrive(r) ==
    /\ run[r].pc = "headers"
    /\ \E trio \in Fetched(r, Needed(r).terminal) :
        IF NeedsBoundary(Relation)
        THEN /\ run' = [Ask(r, "boundary") EXCEPT ![r].trio = trio]
             /\ UNCHANGED <<siteVars, storeVars, engine, pools, rpcUrl, tip, walk>>
        ELSE Conclude(r, trio, Missing)

BoundaryArrives(r) ==
    /\ run[r].pc = "boundary"
    /\ \E need \in Needed(r).root : \E boundary \in Fetched(r, need) :
        Conclude(r, run[r].trio, boundary)

(* Any promise awaited may reject.                                         *)
Rejects(r) ==
    /\ Faults /\ run[r].pc \notin {"idle", "done", "lost", "engine"}
    /\ Fail(r)

(* Mutant: nobody waits for init() to fail.                                *)
EngineDownUnheard(r) == FALSE

(* An engine or a database that did not start stays that way.              *)
EngineDown(r) == run[r].pc = "engine" /\ engine = "broken" /\ Fail(r)
StorageDown(r) == run[r].pc = "lookup" /\ conn = "refused" /\ Fail(r)

(* Assets of another release do not authenticate.                          *)
WrongMetadata(r) == run[r].pc = "metadata" /\ ~ParametersDecode /\ Fail(r)
WrongMatrix(r) == run[r].pc = "asset" /\ assets # pin /\ Fail(r)

(* A terminal of less than nine bytes has no height to read.               *)
NoHeightToRead(r) ==
    /\ run[r].pc = "terminal"
    /\ \E t \in Offers[run[r].asked] : WireHeight[Flipped(r, t)] = TooShort
    /\ Fail(r)

RunThrows(r) ==
    Rejects(r) \/ EngineDown(r) \/ StorageDown(r) \/ WrongMetadata(r)
        \/ WrongMatrix(r) \/ NoHeightToRead(r)

----------------------------------------------------------------------------
(* The "walk" message.                                                     *)
WalkFrom == LET cap == tip.height - MaxWalk
            IN  IF cap > tip.root THEN cap ELSE tip.root

Answered(w, answer, proof) ==
    [IdleWalk EXCEPT !.pc = "done", !.target = walk[w].target, !.from = walk[w].from,
                     !.answer = answer, !.proof = proof]

WalkFailed == [status |-> "failed"]

walkOnly == <<siteVars, storeVars, engine, pools, rpcUrl, tip, run>>

(* Only from an accepted tip, and only within its reach.                   *)
Refused(target) == tip = None \/ (tip # None /\ target \notin WalkFrom..(tip.height - 1))

StartWalk(w, target) ==
    /\ walk[w].pc = "idle" /\ \A v \in Walkers : v < w => walk[v].pc # "idle"
    /\ walk' = [walk EXCEPT ![w] =
         IF Refused(target) THEN Answered(w, WalkFailed, None)
         ELSE [IdleWalk EXCEPT !.pc = "batch", !.target = target, !.from = tip.height,
                               !.at = target, !.asked = rpcUrl]]
    /\ UNCHANGED walkOnly

(* The last header is in.  The handler has kept the height it started from *)
(* but reads verifiedTip again: null by now if a run superseded it.        *)
Assembled(w, hs) ==
    IF tip = None \/ (\E i \in 1..Len(hs) : hs[i] \in {Malformed, Missing})
    THEN Answered(w, WalkFailed, None)
    ELSE Answered(w, WalkTo(tip, walk[w].target, hs), tip.proof)

Batch(w) == IF walk[w].from - walk[w].at < RangeMax THEN walk[w].from - walk[w].at
            ELSE RangeMax

(* Append what arrived; ask for the rest, or assemble.                     *)
Received(w, hs, pc) ==
    LET got == walk[w].got \o hs
        at  == walk[w].at + Len(hs)
    IN  IF at < walk[w].from
        THEN [walk[w] EXCEPT !.pc = pc, !.got = got, !.at = at, !.asked = rpcUrl]
        ELSE Assembled(w, got)

RunsServed(w, n) ==
    {hs \in [1..n -> Served] :
        \A i \in 1..n : hs[i] \in ServedBy(walk[w].asked, walk[w].at + i - 1)}

RangeArrives(w) ==
    /\ walk[w].pc = "batch" /\ HasRange[walk[w].asked]
    /\ \E hs \in RunsServed(w, Batch(w)) :
        walk' = [walk EXCEPT ![w] = Received(w, hs, "batch")]
    /\ UNCHANGED walkOnly

(* Mutant: -32601 is taken for a passing fault, and the batch asked again. *)
NoRangeMethodRetried(w) ==
    /\ walk[w].pc = "batch" /\ ~HasRange[walk[w].asked]
    /\ walk' = [walk EXCEPT ![w].asked = rpcUrl]
    /\ UNCHANGED walkOnly

(* -32601: one header at a time from here on, if the whole walk is short.  *)
NoRangeMethod(w) ==
    /\ walk[w].pc = "batch" /\ ~HasRange[walk[w].asked]
    /\ walk' = [walk EXCEPT ![w] =
         IF walk[w].from - walk[w].target > MaxSingle THEN Answered(w, WalkFailed, None)
         ELSE [walk[w] EXCEPT !.pc = "single", !.asked = rpcUrl]]
    /\ UNCHANGED walkOnly

SingleArrives(w) ==
    /\ walk[w].pc = "single"
    /\ \E hs \in RunsServed(w, 1) :
        walk' = [walk EXCEPT ![w] = Received(w, hs, "single")]
    /\ UNCHANGED walkOnly

(* A request fails, or a batch is not an array of the length asked for.    *)
WalkThrows(w) ==
    /\ Faults /\ walk[w].pc \in {"batch", "single"}
    /\ walk' = [walk EXCEPT ![w] = Answered(w, WalkFailed, None)]
    /\ UNCHANGED walkOnly
----------------------------------------------------------------------------
(* The page and the server around the worker.                              *)

(* "probe", sent at load: cacheState opens the database the kv calls use.  *)
Probe ==
    /\ conn = "closed"
    /\ conn' \in {"open"} \cup (IF Faults THEN {"refused"} ELSE {})
    /\ UNCHANGED <<siteVars, db, deleting, engine, pools, rpcUrl, tip, run, walk>>

(* Clear and re-derive both call deleteDatabase from the page.  It waits   *)
(* for open connections, and the worker's has no versionchange handler.    *)
ClearStorage ==
    /\ IF conn = "open" THEN deleting' = TRUE /\ UNCHANGED db
       ELSE db' = Empty /\ UNCHANGED deleting
    /\ UNCHANGED <<siteVars, conn, engine, pools, rpcUrl, tip, run, walk>>

(* A new page load: a new worker, perhaps of a new release.  The old       *)
(* connection is gone, and a delete that waited for it may go ahead.       *)
Reload ==
    /\ loads < Reloads
    /\ loads' = loads + 1
    /\ pin' \in Pin
    /\ db' \in {db} \cup (IF deleting THEN {Empty} ELSE {})
    /\ conn' = "closed" /\ deleting' = FALSE
    /\ engine' = "off" /\ pools' = 0 /\ rpcUrl' = Default /\ tip' = None
    /\ run' = [r \in Run |-> IF run[r].pc = "idle" THEN IdleRun
                             ELSE [IdleRun EXCEPT !.pc = "lost"]]
    /\ walk' = [w \in Walkers |-> IF walk[w].pc = "idle" THEN IdleWalk
                                  ELSE [IdleWalk EXCEPT !.pc = "lost"]]
    /\ UNCHANGED assets

(* A release is deployed, or another one is still being served.            *)
Publish ==
    /\ assets' \in Pin \ {assets}
    /\ UNCHANGED <<pin, loads, storeVars, engine, pools, rpcUrl, tip, run, walk>>

----------------------------------------------------------------------------
RunStep(r) ==
    \/ SourceAnswers(r) \/ EngineUp(r) \/ MetadataArrives(r)
    \/ CacheHit(r) \/ CacheMiss(r) \/ AssetArrives(r) \/ Banked(r)
    \/ TerminalArrives(r) \/ HeadersArrive(r) \/ BoundaryArrives(r)
    \/ RunThrows(r)

WalkStep(w) == RangeArrives(w) \/ NoRangeMethod(w) \/ SingleArrives(w) \/ WalkThrows(w)

Visit ==
    \/ \E r \in Run, tamper \in BOOLEAN :
        RunOnBadUrl(r, tamper) \/ RunOnDefault(r, tamper)
        \/ \E url \in Source : RunOnOwnSource(r, tamper, url)
    \/ \E w \in Walkers, target \in DOMAIN Serves[Default] : StartWalk(w, target)
    \/ ClearStorage \/ Reload \/ Publish

Next ==
    \/ Visit
    \/ Probe \/ EngineSettles
    \/ \E r \in Run : RunStep(r)
    \/ \E w \in Walkers : WalkStep(w)

Spec == Init /\ [][Next]_vars

(* Every promise the worker awaits settles in the end: fetch, IndexedDB    *)
(* and the engine each resolve or reject.  What a visitor does is not      *)
(* forced.                                                                 *)
Settlement ==
    /\ WF_vars(Probe) /\ WF_vars(EngineSettles)
    /\ \A r \in Run : WF_vars(RunStep(r))
    /\ \A w \in Walkers : WF_vars(WalkStep(w))

FairSpec == Spec /\ Settlement

----------------------------------------------------------------------------
(* Types.                                                                  *)
Tips == [height : Int, parent : Hash, root : Int, proof : Terminal]

CheckErrors == {"Verify(Branch)", "Verify(Auxiliary)"}

RunPcs == {"idle", "probing", "engine", "metadata", "lookup", "asset", "banking",
           "terminal", "headers", "boundary", "done", "lost"}

BeforeVerifier == {"idle", "probing", "engine", "metadata", "lookup", "asset", "banking"}

Verdicts ==
    {NoVerdict} \cup [status : {"verified"}, tip : Tips]
    \cup [status : {"stale"}, certain : BOOLEAN]
    \cup [status : {"failed"}, error : {"url"} \cup RunPcs \cup CheckErrors]

RunRecords ==
    [pc : RunPcs, tamper : BOOLEAN, asked : Source, class : 1..(Classes + 1),
     mats : SUBSET (Class \X Image), restored : SUBSET Class,
     trust : {"full", "cached"}, cleared : BOOLEAN,
     terminal : Terminal \cup {None},
     trio : [header : Served, epoch : Served, previous : Served] \cup {None},
     verdict : Verdicts]

Answers ==
    {NoAnswer, WalkFailed} \cup [status : {"in_chain"}, found : Header]
    \cup [status : {"not_shown"}, reason : {"below root", "undecodable",
                            "NotBelowTip", "Count", "Height", "Link"}]

WalkRecords ==
    [pc : {"idle", "batch", "single", "done", "lost"}, target : Int, from : Int,
     at : Int, asked : Source, got : Seq(Served), answer : Answers,
     proof : Terminal \cup {None}]

(* Type invariant of the worker.                                           *)
TypeOK ==
    /\ pin \in Pin /\ assets \in Pin /\ loads \in 0..Reloads
    /\ db \in [Image -> Image \cup {None}]
    /\ conn \in {"closed", "open", "refused"} /\ deleting \in BOOLEAN
    /\ engine \in {"off", "starting", "on", "broken"} /\ pools \in Nat
    /\ rpcUrl \in Source /\ tip \in Tips \cup {None}
    /\ run \in [Run -> RunRecords] /\ walk \in [Walkers -> WalkRecords]
    /\ \A r \in Run :
        /\ run[r].pc \in {"headers", "boundary"} => run[r].terminal # None
        /\ run[r].pc \in BeforeVerifier => run[r].class \in Class
    /\ \A w \in Walkers : walk[w].pc \in {"batch", "single"} => walk[w].at < walk[w].from
----------------------------------------------------------------------------
(* The tip a walk may start from is one whose proof holds under this       *)
(* page's relation, at that proof's height and with the parent link it     *)
(* binds, however runs overlapped and whatever the endpoints served        *)
(* (verify-worker.js l.107-108, 322).                                      *)
TipIsProven ==
    tip # None =>
        /\ Sound[tip.proof] /\ Frame[tip.proof] = Relation
        /\ tip.height = WireHeight[tip.proof]
        /\ tip.parent = ParentOf[Statement[tip.proof].header]
        /\ tip.root = RecursionRootHeight(Relation)

(* "That settles it" (README.md l.226-234): a block the page says is in    *)
(* the chain is that block of the history of a proof that holds, and of    *)
(* the proof it names: the message carries the tip's height from before    *)
(* the headers were awaited, the answer comes from the tip after.          *)
InChainIsHistory ==
    \A w \in Walkers : walk[w].answer.status = "in_chain" =>
        /\ Sound[walk[w].proof]
        /\ walk[w].answer.found = History[walk[w].proof][walk[w].target]
        /\ walk[w].from = WireHeight[walk[w].proof]

(* The label of a result (README.md l.251-255): FULL only if this run      *)
(* derived every matrix itself, CACHED if it restored one; and none was    *)
(* restored from another release's parameters (l.257).                     *)
TrustLabelIsTrue ==
    \A r \in Run :
        /\ run[r].verdict.status = "verified" =>
            (run[r].trust = "full" <=> run[r].restored = {})
        /\ \A m \in run[r].mats : m[2] = <<pin, m[1]>>

(* A pass means the proof holds, and a tampered one never passes.          *)
VerifiedIsSound ==
    \A r \in Run : run[r].verdict.status = "verified" =>
        Sound[run[r].terminal] /\ ~run[r].tamper

(* README.md l.261-267: the split is where it failed.  Amber only if no    *)
(* cryptography ran on the bytes, because they are another relation's or   *)
(* no terminal at all; a proof check that failed is never shown as amber.  *)
AmberMeansUnread ==
    \A r \in Run : run[r].verdict.status = "stale" =>
        \/ Frame[run[r].terminal] # Relation
        \/ Governing(WireHeight[run[r].terminal]) # Relation

(* rayon's global pool can be built once (verify-worker.js l.141-147):     *)
(* however many runs start, together or after each other.                  *)
PoolBuiltOnce == pools <= 1

(* Every run ends in a verdict, if no page load takes it away.             *)
RunsConclude ==
    \A r \in Run : run[r].pc = "probing" \/ run[r].pc = "engine"
        ~> run[r].pc = "lost" \/ run[r].verdict # NoVerdict

(* Every walk is answered.                                                 *)
WalksConclude ==
    \A w \in Walkers : walk[w].pc = "batch"
        ~> walk[w].pc = "lost" \/ walk[w].answer # NoAnswer

(* Nothing but a fault or a forgery stands between a visitor and the       *)
(* verdict: where nothing fails and every endpoint is honest, every run    *)
(* that is not a tamper test is verified, whatever other runs, walks and   *)
(* cleared caches it is interleaved with.                                  *)
HonestRunsVerify ==
    \A r \in Run : run[r].pc = "engine" /\ ~run[r].tamper
        ~> run[r].verdict.status = "verified"

(* What the worker does to its tip and its answers is what LightClient     *)
(* promises.                                                               *)
LC == INSTANCE LightClient WITH
        Asker <- Walkers,
        accepted <- IF tip = None THEN None ELSE tip.proof,
        shown <- [w \in Walkers |->
                    IF walk[w].answer.status = "in_chain"
                    THEN <<walk[w].target, walk[w].answer.found>> ELSE None]

(* The worker implements the promise (README.md l.226-234).                *)
KeepsThePromise == LC!Spec
----------------------------------------------------------------------------
(* What the page or a comment says and the code does not do.               *)

(* index.html l.626, 881: after the parameters are cleared the next run    *)
(* re-derives everything.                                                  *)
ClearedRunsRederive ==
    \A r \in Run : run[r].cleared => run[r].restored = {}
=============================================================================
