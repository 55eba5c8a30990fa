# A formal model of jetsam-verify

jetsam-verify is a web page that checks one recursive proof of the Jetsam chain
in the visitor's browser. It trusts neither the server it loads proofs and
headers from nor, beyond one pinned digest, the parameters it verifies with.
This directory models the parts whose correctness depends on order, failure and
hostile data: the worker that drives a verification, the verifier's decisions,
the parent-link walk, the page's screen, the read-only gateway, the command-line
verifier and the scripts that bring a release's parameters to a visitor. TLC checks
each module on small instances, and TLAPS proves the main safety properties for
all values of the constants.

Line numbers refer to the repository: `worker` is `web/verify-worker.js`,
`page` is `web/index.html`, `gateway` is `rpc-proxy.mjs`, `lib` is `src/lib.rs`, `native` is
`src/bin/verify_terminal.rs`.

## 1. Inventory

| Component | State it keeps | Operations | Talks to |
|---|---|---|---|
| Ancestry walk, `src/ancestry.rs` | none; two loops over a run of headers | `walk` | called by `VerifiedTip::walk_to` and `verify_terminal` |
| Verifier (wasm), `lib` | `Parameters`, `LoadedMatrices`, `Verifier`, `VerifiedTip` objects | `decode_metadata`, `scan_matrix`, `load_cached_matrix`, `required_heights_json`, `verify`, `verified_tip`, `walk_to` | called by the worker; calls the upstream prover |
| Engine worker, `worker` | `rpcUrl`, `verifiedTip`, `engine` and `dbPromise` (promises), the IndexedDB cache | messages `probe`, `run`, `walk` | page (messages), gateway or another endpoint (fetch), IndexedDB, wasm |
| Page script, `page` | `#stagebody`, screens appended over it, trust chip, `jobRunning`, walk form | one handler per worker message; buttons go, fresh, tamper, walk, clear | worker, IndexedDB (delete), storage estimate |
| Gateway, `gateway` | `buckets`: visitor to window start, requests, headers; a sweeping timer | request handler, `headerRange`, `upstreamCall`, `rateLimited`, `overHeaderBudget` | visitors (HTTP), the node (RPC) |
| Re-pointing, `repoint.sh`, `mainnet/extract.py` | packs in `mainnet/`, the pack in `assets/` | extract a release's packs, ask the node's height and the schedule, pick a pack, promote it, compare pins | `print_pins`, the operator, who sets `PIN` and runs the acceptance test |
| Deployment, `deploy.sh` | files under the web root | copies matrices, metadata, page and worker, one by one | seen by pages, loaded before and meanwhile |
| Native verifier, `native` | its local variables; matrices loaded on demand | metadata, terminal, headers, boundary, replay, walk | `assets/`, a gateway or another endpoint (curl) |
| Pin printer, `src/bin/print_pins.rs` | none | prints a pack's generation and digest, or the generation at a height | called by `repoint.sh` |
| Test tools, `web/server.mjs`, `web/drive.mjs` | none | serve files, drive a browser | the page |
| Patches to the upstream prover, `patches/` | none | storage optional, CLMUL, parallel hashing, clock | the prover |

Where it is hard:

* **Interleaving at awaits.** A worker handler stops at every `await` while other
  messages are served. `rpcUrl` and `verifiedTip` are globals that every run and
  walk shares, and the walk reads `verifiedTip` again after its headers have come.
* **Stale state.** Matrices cached under one release; assets of another release
  served to a page already loaded; a tip superseded under a walk; a bucket swept
  while a request's body is on its way.
* **Partial failure.** A rejected promise that is kept (`engine`, `dbPromise`); a
  run that throws between loading matrices and freeing them; one upstream call of
  a range failing while others are in flight.
* **Order of decisions.** Amber (unread) against crimson (a failed check) depends
  on which test comes first; the fork boundary decides which headers are needed.
* **Messages that name no run.** Verdicts, stages and walk answers reach a screen
  that may already belong to another run.
* **Time.** Fixed windows, a sweeper and timeouts in the gateway; none in the
  worker's `rpc`.
* **Scripts that stop half way.** Extraction, promotion and deployment write file
  by file, with what earlier releases left around them, while pages load.
* **Two copies of one decision.** The split of errors, the anchors and the fetching
  of headers exist in `lib` and the worker, and again in the native tool.

What makes each component correct:

* walk: an accepted run of headers is the sealed history; an error names where it
  leaves it; the sealed headers are never refused.
* verifier and worker: the tip is a sound proof's, a block "in the chain" is that
  proof's history, a pass means a sound and untampered proof, amber means that no
  check ran, the trust label is true, the pool is built once, runs end.
* page: what is shown as verified is the last verdict and earned its label; a
  walk's answer stands under its own result; one guarded run at a time.
* header range: each height is asked once, answers are whole and in order, the
  height named in an error is one the node lacked.
* native tool: CHAIN VERIFIED means a proof that holds, a block in the chain is the
  proof's history, the verdict is the page's on the same bytes, it ends.
* release: a page builds a verifier of one pack, the pinned one; a passed acceptance
  test speaks for what is then published; a published page finds its files.
* rate and budget: "rate limited" is only for more than the limit of one's own
  requests within a window's time; a minute admits no more requests, and charges no
  more headers, than two windows do.

## 2. Modules

```
Ancestry ── AncestryWalk ── MCAncestryWalk
   │             └───────── AncestryWalkProofs ─┐
   ├── AncestryLemmas ──────────────────────────┴── VerifyWorkerSafety
   └── HistoryVerifier ── LightClient (abstract)         │
             ├── VerifyWorker ── MCVerifyWorker          │
             │        └── VerifyWorkerProofs ────────────┘
             └── NativeVerifier ┐
                 MetadataFrame ─┴─ Release ── MCRelease
                                      └────── ReleaseProofs (and AncestryLemmas)
MCChain: the chain and the proofs MCVerifyWorker and MCRelease share
Page ── MCPage          HeaderRange ── MCHeaderRange     Gateway ── MCGateway
  └── PageProofs             └── HeaderRangeProofs          └── GatewayProofs
```

### Ancestry, AncestryWalk

`Ancestry` holds headers as an uninterpreted set with a height, a parent link and
a block id, and states what `walk` answers without its loops: the lowest
misplaced header, else the highest that does not hash to its child's link, else
the target's header. `AncestryWalk` is the loop of `ancestry.rs` itself, one
action per check (`CheckRange`, `CheckCount`) and per pass step (`CheckHeight`
ascending, `CheckLink` descending), with `at` and `link` as its local variables.
`SealedHistory` is what a proof fixes: one header per height, each sealed by its
child's parent link.

### HistoryVerifier

The decisions of `lib` as pure operators, in the code's order: the relation that
governs a height, `RequiredHeights`, the tests of `verify` before and after the
upstream call, `IsUnreadableFrame`, `VerifiedTip` and `WalkTo`. The upstream
prover is external. A terminal is known by its frame, the statement its public IO
binds and whether its proof holds (`Sound`); over matrices that are not the
relation's the prover may say anything (`ProofChecks`).

### VerifyWorker

One action per stretch between two awaits of the worker's handlers.

| Model | Code |
|---|---|
| `rpcUrl`, `tip`, `engine`, `conn`, `db` | `rpcUrl`, `verifiedTip`, `engine`, `dbPromise`, the IndexedDB store |
| `run[r]`, `walk[w]` | the local variables of one "run" or "walk" handler; `pc` is the await it stands at |
| `RunOnBadUrl`, `RunOnDefault`, `RunOnOwnSource` | from the message to the first await, l.184-213 |
| `SourceAnswers`, `EngineUp`, `MetadataArrives` | the probe of an own source, `startEngine`, the metadata |
| `CacheHit`, `CacheMiss`, `AssetArrives`, `Banked` | the loop over classes, l.236-259 |
| `TerminalArrives`, `HeadersArrive`, `BoundaryArrives` | from the terminal to the verdict, l.261-331 |
| `RunThrows` | the catch, l.332; the failed run carries the await at which it threw |
| `StartWalk`, `RangeArrives`, `NoRangeMethod`, `SingleArrives`, `WalkThrows` | the walk, l.165-183, and `headersBetween`, l.75-105 |
| `Probe`, `EngineSettles` | the probe's first use of the database; the shared engine promise settling |
| `ClearStorage`, `Reload`, `Publish` | the page's deletes, a page load (a new worker), a deployment |

Terminals and headers are what the endpoint picks from a set of its own
(`Offers`, `Serves`), so an endpoint may lie, forget and change its mind.

### MetadataFrame

`decode_metadata` of `lib`: the frame `magic | version | body_len | body | digest`
and its checks in order. The digest covers the body only, so the header is
whatever a server wrote; `body_len` is cut to a word of the platform before it is
compared (`BodyLength`, `% word`), 32 bits in wasm. `SlicesFit` is what the slices
taken afterwards need. A body is a member of a set; the digest is injective.

### NativeVerifier

The sequential program `native`, one action per request or stretch between two:
`Start` (arguments and metadata), `TerminalComes`, `HeadersCome`, `BoundaryComes`,
`Load` (`LazyMatrices::load`, once per class the replay asks for), `Replays`, and
for `--block` `RangeComes`, `RangePanics`, `RangeUnknown`, `SingleComes`. `job` is
its local variables; a `Panic` ends it, leaving what it printed. It uses
`HistoryVerifier` where it calls the same functions of `lib` and `ancestry.rs`, and
has operators of its own where it has code of its own: `VerdictOf` and
`NeverParsed` are the second copy of the page's split of errors, which `TwinAgrees`
compares with the first (`Verify` of `HistoryVerifier`). A file of `assets/` is known
by the pack it was extracted from, so files of two packs can lie side by side.

### Release

The files from a release's binary to a visitor, and the programs that move them:

| Model | Code |
|---|---|
| `work`, `assets`, `site` | `mainnet/gen*-*`, `assets/`, the web root |
| `pin`, `op` | `PIN` in the working tree; the script under way, and where |
| `last` | of the last deployment: its pin, whether `assets/` was that pack, whether its worker is out |
| `page` | one page load: its `PIN`, the metadata, the matrices so far |
| `Extract` | `extract.py`, which may exit after any number of files and removes none |
| `Choose`, `PromoteMetadata`, `PromoteMatrix`, `ComparePins`, `ScriptAborts` | `repoint.sh` |
| `SetPin`, `RunAcceptanceTest`, `HeedTheTest`, `DeployAnyway` | what it tells the operator to do, and the operator who does otherwise |
| `DeployBegins`, `Copy` | `deploy.sh`, one file per step |
| `OpenPage`, `MetadataComes`, `MatrixComes` | a page load that finds files whole or half written, and a frame header that is not the digest's to vouch for |

`GenerationAt` may answer with the launch generation at any height: `print_pins` is
built from the tree under `jetsam/`, which the script asks to bring to the release
only after the choice (`repoint.sh` l.37-45, 87-91).

### LightClient

What the page promises, apart from how: it stands behind at most one proof, which
holds, and shows only blocks of that proof's history. `VerifyWorker` implements
it under the mapping `accepted <- tip.proof`, `shown <-` the walks answered
"in_chain" (`KeepsThePromise`). The point of the refinement is the moment: a
block may be shown only in a step in which the proof is still accepted, although
the walk began under an earlier state.

### Page

One action per message handler and per button. The stage is what `paint()` put in
`#stagebody`; `takeover` is the crimson screen appended last to `#stage`, which
lies over it; `chip`, `jobRunning` and the walk form are the page's variables.
Messages are in order in two queues, `posted` to the worker and `inbox` back. The
worker is cut down to what its messages tell the page; its verdicts are
unconstrained (a tampered proof may pass, since the page has a branch for it),
while the tip that answers a walk is as in the code. `last` is the last verdict
shown, kept for the properties. Progress bars, clocks, the transcript, the copy
button and the text of results are left out. A button under a crimson screen can
still be pressed: focus and the keyboard reach it.

### HeaderRange

`headerRange`: lanes that take offsets from a shared counter around an await,
`Promise.all` over them, and the scan for the first missing header. The node's
tip moves at any moment (`ChainMoves`), any call may fail or time out (`Failed`).

### Gateway

The request handler in its three callbacks (`Arrives`, the end of the body,
`Settles`), the bucket arithmetic of `rateLimited` and `overHeaderBudget`, and
`Sweep`. Time is counted in units of which a window has `RateMs`. A reply is what
the properties tell apart: limited, over budget, answered (result or other error),
or none. OPTIONS, other HTTP methods, CORS headers and reply texts are left out.

## 3. Runs

Passing runs:

| Run | Instance | What it shows |
|---|---|---|
| `ancestry_walk` | 7 headers: a chain, a fork, a nonce twin, a header of a false height; runs of up to 3; every target and tip in 0..3, every parent link | the loops compute the declared answer, accept exactly the sealed history, pinpoint the break and return |
| `worker_overlap` | 2 runs, 1 walk, 1 class, an honest and a hostile source, faults | soundness of tip, walk, verdict and amber; one pool; `LightClient` is implemented |
| `worker_cache` | 2 runs, 2 classes, 2 releases, 1 reload, deploys and clears at any time | FULL and CACHED are true of a run, over two releases' matrices in one cache |
| `worker_settles` | 1 run and 1 walk, both releases, faults, 1 reload | a run ends in a verdict or with its page |
| `worker_honest` | 2 runs and 1 walk, two honest sources, one of them without the range method; proofs of the tip and of the first block of the fork | honest runs verify and walks are answered |
| `page` | 3 runs, 1 walk, 1 clear, 2 heights | the stamp and chip are the last verdict's, a walk's answer is under its result, one guarded run without clear |
| `header_range` | 5 heights, 3 lanes, tips below, inside and at the end of the range | each height once, whole answers, true errors; the request and its lanes end |
| `gateway` | 2 visitors, 3 requests, windows of 2 units in 7 moments | "rate limited" only for one's own excess within a window's time; at most two windows' requests and headers in any window's time |
| `release` | 3 packs of two relations, 2 releases of one and two packs, 2 classes; seven terminals (sound, broken, of another relation, of another pack, unreadable, cut short), headers forged, of the other fork and undecodable, from call to call; words of 16 | accepted proofs and shown blocks are true, the native verdict is the page's, one pack per page, a passed test speaks for what is published, published pages find their files, the native tool ends |

Runs whose property the code does not have, each stating what the repository says:

| Run | Statement | What happens |
|---|---|---|
| `cleared_runs_rederive` | "next run re-derives everything" (page l.626) | the worker's open connection blocks `deleteDatabase`, so the next run of the same page restores the matrices |
| `crimson_is_the_last_verdict` | a false alarm on "the one page that must not cry wolf" (page l.793) | the crimson screen is never removed: a later amber or verified result lies under it |
| `gateway_answers` | "Headers start..start+count, ascending, or an error" (gateway l.67) | a bucket swept between a request's arrival and the end of its body is dereferenced; the request is never answered, and the rejection nobody handles ends the process |

Seen while modelling and not given a run:

* Every exception of a run is reported the same way (worker l.333), so an asset of
  another release, a storage error or an endpoint that is down is shown as crimson,
  "This proof did not check out on this machine" (page l.862), and a tamper test
  that fails before any proof is fetched as "the check caught it" (page l.857).
* The matrices a run loaded are not freed if it throws before `into_verifier`
  (worker l.332-336), against the comment at l.218.
* The "2,000 a minute" of the project's README l.180 is per fixed window, so two
  meeting windows admit twice that; the gateway's bounds say `2 *`.
* A bucket that has expired and is neither swept nor replaced goes on adding the
  headers of ranges whose bodies end late (gateway l.47-51), so a visitor may be
  refused as over budget for headers of more than one window's time.
  `LimitedOnlyWhenOver` therefore speaks of the rate only.
* A run fails when a matrix it has already authenticated cannot be stored (worker
  l.255). Nothing in the repository promises otherwise; `RunsConclude` says only that
  such a run ends.
* With the clear button, two runs may be under way with `jobRunning` false (page
  l.882); `OneGuardedRun` says `clears = 0`.
* The native tool does not look at the height of the boundary header (native l.234),
  which the page refuses unread; and it prints CHAIN VERIFIED for a proof that holds
  at a height its relation does not govern, since it asks the schedule only of a
  failure (native l.281). `TwinAgrees` excepts both, and a matrix file that is not
  the pack's, which the page meets before any proof.
* "If this passes against a live node, the parameters in assets/ are the ones the
  chain is running" (native l.4-6) holds of the metadata and of the matrices that one
  proof's replay asked for. Files of other classes are never read, and
  `AcceptedIsTheChains` claims nothing of them.
* The pack `repoint.sh` chooses may be one that an earlier release left (l.55-60),
  and the comparison may then end in "pin UNCHANGED" (l.78). The acceptance test passes
  with any pack that the served proof holds under, so it stops this, or the choice of
  the wrong relation (l.45), only where the source serves the chain's own proofs.
* `deploy.sh` asks nothing: it publishes an `assets/` promoted half way, which pages
  then refuse. `PublishedPagesFindTheirFiles` is about deployments of one whole pack,
  the pin's.

### Why the bounds are enough

* Headers: a walk distinguishes the two ends and the middle of a run, so runs of
  three headers show every position; the twin differs only in what a proof does
  not bind, the fork only in its links, the last only in its height. The proofs
  remove the bound.
* Worker: two runs make every pair of stretches meet; the globals hold one value,
  so a third run meets them in a state two can produce. A walk over at most 3
  links with ranges of 2 and single fetches of 2 crosses every branch of
  `headersBetween`: a full batch, a short one, a fallback, a refusal for length.
  The proofs remove these bounds for the safety properties.
* Page: a third run is there so that one result can stand while two overlap.
* Range: three lanes over five heights make lanes finish at different times, with
  more heights than lanes; the proofs hold for any numbers.
* Gateway: three requests of one visitor are enough to exceed twice a limit of
  one; seven moments hold two whole windows and the start of a third.

* Release: three packs are the least that make a leftover, a right and a wrong
  choice differ; two classes make a promotion, a copy or a load stop between two
  matrices. Only one of the two classes is needed by most proofs, so there are
  files nobody reads. A frame's length may exceed the truth by one word, so that the
  truncation is met. `ApartSpec` runs the native tool by hand only on the first
  state of the files, the acceptance test only before a first publication, and a
  page only beside `deploy.sh`: what they share is then still met (the acceptance
  test against every mix of files, the page against every copy), and the product of
  what they do not share is left out. The proofs are of `FairSpec`, where nothing
  is kept apart.

`MCAncestryWalk`, `MCPage` and `MCGateway` run without deadlock checking: a walk
returns, a page's bounded visit ends, a gateway's process may end and its time is
bounded. The worker's state always allows a clear, the range's node always moves,
and a release always has a step left (an extraction, an abort, a page load).
`MCGateway` uses symmetry over requests and visitors (invariants only).

### Fairness

* `AncestryWalk`: weak fairness of its step; it is a loop.
* `VerifyWorker`: every promise awaited settles (`Settlement`): fetch, IndexedDB,
  wasm. **The code does not enforce this for `rpc`**: it has no timeout (worker
  l.34-62), so a server that holds a request open leaves the run without a
  verdict. `RunsConclude` and `WalksConclude` show that nothing else can. No
  visitor, deployment or reload is forced.
* `HeaderRange`: weak fairness of the settlement of `Promise.all` and of each
  lane's timeout only. `AbortSignal.timeout` (gateway l.58) justifies it; answers
  are never assumed to come.
* `Release`: weak fairness of the native tool's steps. Every request it makes is
  curl's with `-m 60` (native l.107), and the replay is a computation. Nobody is
  made to run, test or publish anything.
* `Page` and `Gateway` state safety only.

## 4. Proofs

Checked by TLAPS, for every value of the constants that satisfies the
assumptions named in the modules.

Assumptions: `HeaderFields` and the other constant assumptions type the
constants; `BlockIdInjective` is collision resistance of the block id;
`SoundProofs` is what a proof that holds means (a sealed history below its
statement); `TamperingBreaksProofs` that a flipped bit leaves no valid proof;
`ForeignFrames` that another relation's decoder stops while reading the frame;
`ProjectionCoversParent` that the semantic projection a proof binds includes the
parent link; `DigestInjective` is collision resistance of the metadata's digest.
`FrameConstants`, `NativeConstants` and `ReleaseConstants` type the constants and say
that a body's length is less than a word. That `None` is no message (`PageConstants`)
and `NoBucket` no bucket (`GatewayConstants`) is what `null` and a missing key are. None of them is about this repository's control.

| Theorem | Says |
|---|---|
| `AncestryLemmas!WalkIsSound`, `WalkIsComplete` | whatever run is served, an accepted walk found the sealed history's block; the sealed history is accepted |
| `AncestryWalkProofs!WalkTypeOK`, `LoopComputesWalk`, `LoopAcceptsOnlySealed`, `LoopAcceptsTheSealed`, `LoopPinpointsTheBreak` | the loops of `ancestry.rs` compute the declared answer for every input, and what follows |
| `VerifyWorkerProofs!WorkerTypeOK` | the worker's type invariant |
| `VerifyWorkerSafety!TheTipIsProven`, `ShownBlocksAreHistory`, `VerifiedRunsAreSound`, `AmberRunsAreUnread`, `TrustLabelsAreTrue`, `ThePoolIsBuiltOnce` | the worker's safety, for any number of runs, walks, releases, sources |
| `HeaderRangeProofs!RangeTypeOK`, `LanesShareTheCounter`, `RangeIsWhole`, `TheFirstMissingIsNamed` | the range, for any numbers of lanes and heights |
| `VerifyWorkerSafety!WorkerKeepsThePromise` | the worker implements `LightClient` |
| `PageProofs!TheStampIsTheLastVerdict`, `TheChipIsEarned` | the screen, for any number of overlapping runs |
| `PageProofs!PageTypeOK`, `WalksAreUnderTheirResult`, `RunsAreGuardedOneByOne` | the page with its two queues, for any number of runs, walks and clears |
| `GatewayProofs!GatewayInvariant`, `GatewayTypes`, `LimitsAreEarned`, `AdmittedInAnyWindow`, `HeadersInAnyWindow` | the rate limit is earned, and two windows' requests and headers in any window's time are the most, for any visitors, requests, limits and window |
| `ReleaseProofs!SlicesLieInTheFile`, `AcceptedBodyIsThePinned` | the metadata frame, for every header and width of a word |
| `ReleaseProofs!ReleaseFrameIsAccepted` | the frame a release writes is accepted under its own digest |
| `ReleaseProofs!NativeVerdictIsSound`, `NativeWalksTruly`, `TheTwinsAgree` | the native tool, for any packs, proofs, headers and sources |
| `ReleaseProofs!ReleaseTypes`, `PagesBuildOnePack`, `AcceptanceSaysSo`, `PublishedFilesAreFound` | the scripts, deployments and page loads, in any interleaving |

The arguments:

* **Walk.** `LoopInv` says what the passes have established so far: below `at`
  nothing is misplaced; above it everything is linked and `link` is the link the
  next header must hash to. Soundness is a descent along the links:
  `LinkedSuffixIsSealed` takes a linked suffix to the sealed history by
  injectivity of the block id, by way of a least counterexample, since induction
  over data is not available as a rule (below).
* **Worker.** `TipIsProven` is not inductive alone: that a verdict is sound
  depends on the matrices being the pinned release's, which depends on the cache.
  `WorkerInv` adds `CacheHolds` (an image is stored under the digest and class
  it was derived for), `RunsHold` (a run's matrices, label, terminal and verdict
  agree), `WalksHold` (what has been fetched, and what an answer claims) and
  `PoolHolds`. Each action is one lemma; `RunsHoldUpdate` and `WalksHoldUpdate`
  reduce the others to the record that changed.
* **Range.** `AskedOnce` says that the asked offsets are those below the counter
  and that no two lanes hold one. `RangeInv` adds that lanes and offsets are
  accounted for, that a stored answer is one the node gave for that height, and
  that what settled is true.
* **The promise.** `KeepsThePromise` is a simulation, stretch by stretch
  (`WorkerStepRefines`). Most stretches change neither the accepted proof nor what
  is shown. A verdict of "verified" is a step that accepts the proof (`RunStepAccepts`),
  sound by `WorkerInv`; a new run or a reload drops it. A walk's answer is a step that
  shows a block: `WalksHold` says that the headers it assembled are the history
  of the tip there is now, not of the one it started from, or the walk shows nothing
  (`ReceivedShows`). `WalksUnanswered` is added to the invariant, since an answer
  may only be given once.
* **Page: stamp and chip.** The two properties are inductive together: every handler that sets
  the last verdict also sets the chip and either repaints or covers the stage.
* **Page: walks.** Messages name no run, so an answer is shown under whatever
  result is on the screen when its turn comes. That is settled by the
  letters in front of it (`ResultAfter`): the last verdict among them or, if there is
  none, the result there already. `WalkInv` says that every claim in the queue, and any
  the worker could still make with its tip, fits in that sense, and that each
  "verified" letter stands behind the "stage" letter that takes the form of the result
  before off the screen (`Heralded`). Without the latter `AlarmShown`, which paints
  nothing, would leave an old form under a new tip.
* **Page: runs.** `Due` is the runs the page waits for: not over, or with a verdict
  on its way. `RunsInv` says that a run has one order or one verdict on its way
  at most, that only runs asked for have either, and, without a clear, that at
  most one run is due, `jobRunning` says whether one is, and no stage with buttons is
  shown meanwhile. The probe's answer, which paints buttons, is first in the
  queue on a blank stage before any run.
* **Gateway.** A window starts at a request, so nothing fixes where windows lie; but two
  starts of one visitor are more than `RateMs` apart, so an interval of that length
  meets at most two. `GatewayInv` says so without naming the windows that are gone:
  `Counted` bounds what came since `start - RateMs` by one window's limit plus what the
  bucket has counted, and what came after `start` by what it has counted; `Quiet`
  bounds what a visitor without a bucket sent of late by one window's limit; `WithinTwo`
  keeps what that gave for intervals that are over. Requests and headers are bounded
  apart, since a range is charged when its body ends, perhaps to a bucket of a later
  window or one long expired; `RangeCharged` takes its time from that moment.
* **Release.** `ReleaseInv` is six parts. `NativeInv` says of the tool's local
  variables what each stretch has established: what was loaded is the pack's own
  (`Own`), the verdict is the one the result calls for (`Judges`), the headers got so
  far are those served for the heights from the target up (`Fetches`).
  `NativeWalkIsTrue` also needs completeness: that a refused run is not the
  history follows from `WalkIsComplete`. `Promotes` and `PageHolds` keep count of the
  scripts' and the page's loops. `TestHolds` is why the acceptance test means
  anything: from its start to the end of the deployment nothing writes `assets/`,
  so what the test loaded still lies there when it is published. `PublishedHolds`
  says which files a deployment has copied; the worker being last, its pin is
  out only over its own files.

Checked by TLC only: liveness and everything that depends on fairness (`Returns`,
`RunsConclude`, `WalksConclude`, `HonestRunsVerify`, `Settles`, `LanesStop`,
`NativeEnds`), which is outside the prover. Every other property of a passing run is
a theorem. The inductive invariants were checked by TLC on the instances of the runs
before they were proved. Recursive operators are not used anywhere: the
proof system cannot reason about them, nor instantiate its induction theorems.

## 5. Not modelled

* The proof system, hashing and field arithmetic (upstream and `patches/`): what
  they promise is in the assumptions.
* Of the release: the download and its SHA256 check and the searches in the binary
  (`extract.py` l.30-72), which change nothing modelled; the wasm package and the
  fonts among `deploy.sh`'s copies; what the tools print.
* The order in which a replay asks for classes, and its threads: the native tool
  loads the needed matrices in any order, one at a time, as its lock makes it.
* The development server and the browser driver: they serve and press, and hold no
  state of the program's.
* A reorganisation between the requests of one run: `HonestRunsVerify` is checked
  on a chain that stands still while a run is under way; a real one makes an
  honest run fail, safely.
* The page's use of the source field by the tamper button (it keeps the last
  run's source); `rpcUrl` is the worker module's.

## 6. Plan

1. Walk, verifier, worker, range, gateway, page, native tool, release: done as above.
2. Proofs: every safety property of a passing run, and the refinement. Left are
   measures for the loops whose ends TLC checks (`Returns`, `NativeEnds`): that each
   step makes one smaller can be proved, unlike that the step is taken.
3. Modules next: a reorganising chain under `VerifyWorker`; `Page` composed with
   `VerifyWorker` instead of its cut-down worker.
