-------------------------- MODULE VerifyWorkerSafety --------------------------
(***************************************************************************)
(* The safety of the worker: one inductive invariant, and what follows     *)
(* from it.  What makes it inductive is what passes between the steps: a   *)
(* database that holds nothing but images of the key's own release, runs   *)
(* whose matrices are all their page's, and walks that have exactly the    *)
(* headers between their target and the next one they ask for.             *)
(*                                                                         *)
(* Last, the worker is shown to implement LightClient, stretch by stretch. *)
(***************************************************************************)
EXTENDS VerifyWorkerProofs

(* What is true of every run's record, on a page with digest p.            *)
RunHolds(p, x) ==
    /\ \A m \in x.mats : m[2] = <<p, m[1]>>
    /\ x.trust = "full" <=> x.restored = {}
    /\ x.tamper /\ x.terminal # None => ~Sound[x.terminal]
    /\ x.verdict.status = "verified" => Sound[x.terminal] /\ ~x.tamper
    /\ x.verdict.status = "stale" =>
        \/ Frame[x.terminal] # RelationOf[p]
        \/ Governing(WireHeight[x.terminal]) # RelationOf[p]

(* A run still on its way has no verdict yet.                              *)
Unfinished(x) == x.pc \notin {"done", "lost"} => x.verdict = NoVerdict

AnswerHolds(x) ==
    x.answer.status = "in_chain" =>
        /\ Sound[x.proof]
        /\ x.answer.found = History[x.proof][x.target]
        /\ x.from = WireHeight[x.proof]

(* Headers in hand reach from the target to the next one asked for.        *)
FetchHolds(x) ==
    x.pc \in {"batch", "single"} => x.target <= x.at /\ Len(x.got) = x.at - x.target

CacheHolds == \A k \in Image : db[k] \in {None, k}
PoolHolds  == pools <= 1 /\ (engine = "off" => pools = 0)

RunsHold  == \A r \in Run : RunHolds(pin, run[r]) /\ Unfinished(run[r])
WalksHold == \A w \in Walkers : AnswerHolds(walk[w]) /\ FetchHolds(walk[w])

WorkerInv ==
    TypeOK /\ CacheHolds /\ PoolHolds /\ TipIsProven /\ RunsHold /\ WalksHold

----------------------------------------------------------------------------
LEMMA RunsHoldUpdate ==
    ASSUME TypeOK, RunsHold, NEW r \in Run, NEW x, RunHolds(pin, x), Unfinished(x),
           run' = [run EXCEPT ![r] = x], pin' = pin
    PROVE  RunsHold'
<1>1. \A q \in Run : RunHolds(pin, run'[q]) /\ Unfinished(run'[q])
  BY DEF TypeOK, RunsHold
<1> QED
  BY <1>1 DEF RunsHold

LEMMA WalksHoldUpdate ==
    ASSUME TypeOK, WalksHold, NEW w \in Walkers, NEW x, AnswerHolds(x), FetchHolds(x),
           walk' = [walk EXCEPT ![w] = x]
    PROVE  WalksHold'
<1>1. \A v \in Walkers : AnswerHolds(walk'[v]) /\ FetchHolds(walk'[v])
  BY DEF TypeOK, WalksHold
<1> QED
  BY <1>1 DEF WalksHold

(* Nothing but the verdict, the matrices and their labels matter to it.    *)
LEMMA RunHoldsTransfer ==
    ASSUME NEW p, NEW x, NEW y, RunHolds(p, x), Unfinished(x),
           y.mats = x.mats, y.trust = x.trust, y.restored = x.restored,
           y.tamper = x.tamper, y.terminal = x.terminal, y.verdict = x.verdict,
           x.pc \notin {"done", "lost"}
    PROVE  RunHolds(p, y) /\ Unfinished(y)
BY DEF RunHolds, Unfinished

LEMMA EndedHolds ==
    ASSUME TypeOK, RunsHold, NEW r \in Run, NEW v \in Verdicts,
           v.status = "verified" => Sound[run[r].terminal] /\ ~run[r].tamper,
           v.status = "stale" =>
                \/ Frame[run[r].terminal] # Relation
                \/ Governing(WireHeight[run[r].terminal]) # Relation
    PROVE  RunHolds(pin, Ended(r, v)) /\ Unfinished(Ended(r, v))
<1>1. run[r] \in RunRecords /\ RunHolds(pin, run[r])
  BY DEF TypeOK, RunsHold
<1> DEFINE x == Ended(r, v)
<1>2. /\ x.pc = "done" /\ x.verdict = v /\ x.mats \subseteq run[r].mats
      /\ x.trust = run[r].trust /\ x.restored = run[r].restored
      /\ x.tamper = run[r].tamper /\ x.terminal = run[r].terminal
  BY <1>1 DEF Ended, RunRecords
<1> HIDE DEF x
<1>3. RunHolds(pin, x)
  BY <1>1, <1>2 DEF RunHolds, Relation
<1>4. Unfinished(x)
  BY <1>2 DEF Unfinished
<1> QED
  BY <1>3, <1>4 DEF x

LEMMA FailHolds ==
    ASSUME TypeOK, RunsHold, NEW r \in Run, Fail(r)
    PROVE  RunsHold'
<1>1. FailedAt(r) \in Verdicts
  BY DEF FailedAt, Verdicts, TypeOK, RunRecords
<1>2. FailedAt(r).status = "failed"
  BY DEF FailedAt
<1>3. RunHolds(pin, Ended(r, FailedAt(r))) /\ Unfinished(Ended(r, FailedAt(r)))
  BY <1>1, <1>2, EndedHolds
<1> QED
  BY <1>3, RunsHoldUpdate DEF Fail, siteVars

----------------------------------------------------------------------------
(* The steps of a run.                                                     *)
LEMMA NoVerdictIs == NoVerdict.status = "none"
BY DEF NoVerdict

LEMMA IdleRunHolds ==
    ASSUME NEW p, NEW x, x.mats = {}, x.trust = "full", x.restored = {},
           x.terminal = None, x.verdict.status \in {"none", "failed"},
           x.pc \notin {"done", "lost"} => x.verdict = NoVerdict
    PROVE  RunHolds(p, x) /\ Unfinished(x)
BY DEF RunHolds, Unfinished

LEMMA StartRunHolds ==
    ASSUME TypeOK, RunsHold, NEW r \in Run, NEW tamper \in BOOLEAN,
           RunOnBadUrl(r, tamper) \/ RunOnDefault(r, tamper)
           \/ \E url \in Source : RunOnOwnSource(r, tamper, url)
    PROVE  RunsHold'
<1> DEFINE bad(x) == [x EXCEPT !.verdict = [status |-> "failed", error |-> "url"]]
<1>1. ASSUME NEW pc \in {"engine", "probing"}
      PROVE  RunHolds(pin, Started(r, tamper, pc)) /\ Unfinished(Started(r, tamper, pc))
  <2> DEFINE x == Started(r, tamper, pc)
  <2>1. /\ x.mats = {} /\ x.trust = "full" /\ x.restored = {}
        /\ x.terminal = None /\ x.verdict = NoVerdict /\ x.pc = pc
    BY DEF Started, IdleRun
  <2> HIDE DEF x
  <2> QED
    BY <2>1, NoVerdictIs, IdleRunHolds DEF x
<1>2. RunHolds(pin, bad(Started(r, tamper, "done"))) /\ Unfinished(bad(Started(r, tamper, "done")))
  <2> DEFINE x == bad(Started(r, tamper, "done"))
  <2>1. /\ x.mats = {} /\ x.trust = "full" /\ x.restored = {}
        /\ x.terminal = None /\ x.verdict.status = "failed" /\ x.pc = "done"
    BY DEF Started, IdleRun
  <2> HIDE DEF x
  <2> QED
    BY <2>1, IdleRunHolds DEF x
<1>3. CASE RunOnBadUrl(r, tamper)
  <2>1. run' = [run EXCEPT ![r] = bad(Started(r, tamper, "done"))] /\ pin' = pin
    BY <1>3 DEF RunOnBadUrl, Supersede, siteVars
  <2> HIDE DEF bad
  <2> QED
    BY <1>2, <2>1, RunsHoldUpdate
<1>4. CASE RunOnDefault(r, tamper)
  BY <1>1, <1>4, RunsHoldUpdate DEF RunOnDefault, Supersede, siteVars
<1>5. CASE \E url \in Source : RunOnOwnSource(r, tamper, url)
  BY <1>1, <1>5, RunsHoldUpdate DEF RunOnOwnSource, Supersede, siteVars
<1> QED
  BY <1>3, <1>4, <1>5

(* Steps that only move on.                                                *)
LEMMA MoveHolds ==
    ASSUME TypeOK, RunsHold, NEW r \in Run, NEW pc,
           run[r].pc \notin {"done", "lost"}, run' = [run EXCEPT ![r].pc = pc], pin' = pin
    PROVE  RunsHold'
<1> DEFINE x == [run[r] EXCEPT !.pc = pc]
<1>1. run' = [run EXCEPT ![r] = x]
  OBVIOUS
<1>2. /\ run[r] \in RunRecords /\ RunHolds(pin, run[r]) /\ Unfinished(run[r])
  BY DEF TypeOK, RunsHold
<1>3. /\ x.mats = run[r].mats /\ x.trust = run[r].trust /\ x.restored = run[r].restored
      /\ x.tamper = run[r].tamper /\ x.terminal = run[r].terminal
      /\ x.verdict = run[r].verdict
  BY <1>2 DEF RunRecords
<1> HIDE DEF x
<1>4. RunHolds(pin, x) /\ Unfinished(x)
  BY <1>2, <1>3, RunHoldsTransfer
<1> QED
  BY <1>1, <1>4, RunsHoldUpdate

(* What WithMatrix(AfterClass(r), r, image) makes of the record.           *)
Grown(x, pc, asked, image) ==
    [x EXCEPT !.pc = pc, !.asked = asked, !.class = @ + 1,
              !.mats = @ \cup {<<x.class, image>>}]

LEMMA WithMatrixIs ==
    ASSUME TypeOK, NEW r \in Run, NEW image
    PROVE  \E pc, asked :
            WithMatrix(AfterClass(r), r, image)
                = [run EXCEPT ![r] = Grown(run[r], pc, asked, image)]
<1>1. run[r] \in RunRecords /\ run \in [Run -> RunRecords]
  BY DEF TypeOK
<1>2. CASE run[r].class = Classes
  <2>1. WithMatrix(AfterClass(r), r, image)
         = [run EXCEPT ![r] = Grown(run[r], "terminal", rpcUrl, image)]
    BY <1>1, <1>2, ZenonT(40) DEF WithMatrix, AfterClass, Ask, Grown
  <2> QED
    BY <2>1
<1>3. CASE run[r].class # Classes
  <2>1. WithMatrix(AfterClass(r), r, image)
         = [run EXCEPT ![r] = Grown(run[r], "lookup", run[r].asked, image)]
    BY <1>1, <1>3, ZenonT(40) DEF WithMatrix, AfterClass, RunRecords, Grown
  <2> QED
    BY <2>1
<1> QED
  BY <1>2, <1>3

(* A matrix of the page's own release leaves the record true.              *)
LEMMA OwnMatrixHolds ==
    ASSUME NEW p, NEW x, NEW y, NEW c, RunHolds(p, x), Unfinished(x),
           x.pc \notin {"done", "lost"},
           y.mats = x.mats \cup {<<c, <<p, c>>>>}, y.trust = "full" <=> y.restored = {},
           y.tamper = x.tamper, y.terminal = x.terminal, y.verdict = x.verdict
    PROVE  RunHolds(p, y) /\ Unfinished(y)
<1>1. \A m \in y.mats : m[2] = <<p, m[1]>>
  BY DEF RunHolds
<1> QED
  BY <1>1 DEF RunHolds, Unfinished

LEMMA AssetArrivesHolds ==
    ASSUME TypeOK, RunsHold, NEW r \in Run, AssetArrives(r)
    PROVE  RunsHold'
<1> DEFINE c == run[r].class
           x == [run[r] EXCEPT !.pc = "banking", !.mats = @ \cup {<<c, <<pin, c>>>>}]
<1>1. /\ run[r] \in RunRecords /\ RunHolds(pin, run[r]) /\ Unfinished(run[r])
      /\ run[r].pc = "asset"
  BY DEF TypeOK, RunsHold, AssetArrives
<1>2. /\ x.mats = run[r].mats \cup {<<c, <<pin, c>>>>}
      /\ x.trust = run[r].trust /\ x.restored = run[r].restored
      /\ x.tamper = run[r].tamper /\ x.terminal = run[r].terminal
      /\ x.verdict = run[r].verdict
  BY <1>1 DEF RunRecords
<1>3. run' = [run EXCEPT ![r] = x] /\ pin' = pin
  BY DEF AssetArrives, siteVars
<1>4. x.trust = "full" <=> x.restored = {}
  BY <1>1, <1>2 DEF RunHolds
<1> HIDE DEF x, c
<1>5. RunHolds(pin, x) /\ Unfinished(x)
  BY <1>1, <1>2, <1>4, OwnMatrixHolds
<1> QED
  BY <1>3, <1>5, RunsHoldUpdate

LEMMA BankedHolds ==
    ASSUME TypeOK, RunsHold, CacheHolds, NEW r \in Run, Banked(r)
    PROVE  RunsHold' /\ CacheHolds'
<1> DEFINE c == run[r].class
<1>1. /\ run[r] \in RunRecords /\ RunHolds(pin, run[r]) /\ Unfinished(run[r])
      /\ run[r].pc = "banking"
  BY DEF TypeOK, RunsHold, Banked
<1>2. PICK pc, asked :
        WithMatrix(AfterClass(r), r, <<pin, c>>)
          = [run EXCEPT ![r] = Grown(run[r], pc, asked, <<pin, c>>)]
  BY WithMatrixIs
<1> DEFINE x == Grown(run[r], pc, asked, <<pin, c>>)
<1>3. /\ x.mats = run[r].mats \cup {<<c, <<pin, c>>>>}
      /\ x.trust = run[r].trust /\ x.restored = run[r].restored
      /\ x.tamper = run[r].tamper /\ x.terminal = run[r].terminal
      /\ x.verdict = run[r].verdict
  BY <1>1 DEF RunRecords, Grown
<1>4. run' = [run EXCEPT ![r] = x] /\ pin' = pin
  BY <1>2 DEF Banked, siteVars
<1>5. x.trust = "full" <=> x.restored = {}
  BY <1>1, <1>3 DEF RunHolds
<1>6. CacheHolds'
  <2>1. db \in [Image -> Image \cup {None}] /\ Key(pin, c) = <<pin, c>>
    BY DEF TypeOK, Key
  <2>2. db' = [db EXCEPT ![<<pin, c>>] = <<pin, c>>]
    BY <2>1 DEF Banked
  <2> QED
    BY <2>1, <2>2 DEF CacheHolds
<1> HIDE DEF x, c
<1>7. RunHolds(pin, x) /\ Unfinished(x)
  BY <1>1, <1>3, <1>5, OwnMatrixHolds
<1> QED
  BY <1>4, <1>6, <1>7, RunsHoldUpdate

LEMMA CacheHitHolds ==
    ASSUME TypeOK, RunsHold, CacheHolds, NEW r \in Run, CacheHit(r)
    PROVE  RunsHold'
<1> DEFINE c == run[r].class
<1>1. /\ run[r] \in RunRecords /\ RunHolds(pin, run[r]) /\ Unfinished(run[r])
      /\ run[r].pc = "lookup" /\ run[r].class \in Class /\ pin \in Pin
      /\ run \in [Run -> RunRecords]
  BY DEF TypeOK, RunsHold, CacheHit, BeforeVerifier
<1>2. db[Key(pin, c)] = <<pin, c>>
  BY <1>1 DEF CacheHolds, CacheHit, Key, Image
<1>3. PICK pc, asked :
        WithMatrix(AfterClass(r), r, <<pin, c>>)
          = [run EXCEPT ![r] = Grown(run[r], pc, asked, <<pin, c>>)]
  BY WithMatrixIs
<1> DEFINE x == Grown(run[r], pc, asked, <<pin, c>>)
           y == [x EXCEPT !.trust = "cached", !.restored = @ \cup {c}]
<1>4. /\ y.mats = run[r].mats \cup {<<c, <<pin, c>>>>}
      /\ y.trust = "cached" /\ y.restored = run[r].restored \cup {c}
      /\ y.tamper = run[r].tamper /\ y.terminal = run[r].terminal
      /\ y.verdict = run[r].verdict
  BY <1>1 DEF RunRecords, Grown
<1>5. run' = [[run EXCEPT ![r] = x] EXCEPT ![r].trust = "cached", ![r].restored = @ \cup {c}]
        /\ pin' = pin
  BY <1>2, <1>3 DEF CacheHit, siteVars
<1> HIDE DEF x
<1>6. run' = [run EXCEPT ![r] = y]
  BY <1>1, <1>5
<1> HIDE DEF y, c
<1>7. RunHolds(pin, y) /\ Unfinished(y)
  BY <1>1, <1>4, OwnMatrixHolds
<1> QED
  BY <1>5, <1>6, <1>7, RunsHoldUpdate

LEMMA TerminalArrivesHolds ==
    ASSUME TypeOK, RunsHold, NEW r \in Run, TerminalArrives(r)
    PROVE  RunsHold'
<1>1. PICK t \in Offers[run[r].asked] :
        run' = [Ask(r, "headers") EXCEPT ![r].terminal = Flipped(r, t)]
  BY DEF TerminalArrives
<1>2. /\ run[r] \in RunRecords /\ RunHolds(pin, run[r]) /\ Unfinished(run[r])
      /\ run \in [Run -> RunRecords] /\ run[r].pc = "terminal" /\ run[r].asked \in Source
  BY DEF TypeOK, RunsHold, TerminalArrives, RunRecords
<1>3. t \in Terminal
  BY <1>2, WorkerConstants
<1>4. run[r].tamper => ~Sound[Flipped(r, t)]
  BY <1>3, TamperingBreaksProofs DEF Flipped
<1> DEFINE x == [run[r] EXCEPT !.pc = "headers", !.asked = rpcUrl, !.terminal = Flipped(r, t)]
<1>5. run' = [run EXCEPT ![r] = x] /\ pin' = pin
  BY <1>1, <1>2 DEF Ask, TerminalArrives, siteVars
<1>6. /\ x.mats = run[r].mats /\ x.trust = run[r].trust /\ x.restored = run[r].restored
      /\ x.tamper = run[r].tamper /\ x.terminal = Flipped(r, t)
      /\ x.verdict = NoVerdict
  BY <1>2 DEF RunRecords, Unfinished
<1> HIDE DEF x
<1>7. RunHolds(pin, x) /\ Unfinished(x)
  BY <1>2, <1>4, <1>6, NoVerdictIs DEF RunHolds, Unfinished
<1> QED
  BY <1>5, <1>7, RunsHoldUpdate

(* A replay over the relation's own matrices says "verified" only of a     *)
(* proof that holds, whose tip links where the statement does.             *)
LEMMA VerifiedMeansSound ==
    ASSUME NEW g, NEW t \in Terminal, NEW trio, NEW boundary, NEW checks, checks = Sound[t],
           NEW out, out = Verify(g, t, trio, boundary, checks), out.status = "verified"
    PROVE  /\ Sound[t] /\ Frame[t] = g
           /\ out.tip.height = WireHeight[t] /\ out.tip.proof = t
           /\ out.tip.parent = ParentOf[Statement[t].header]
           /\ out.tip.root = RecursionRootHeight(g)
<1>1. /\ out = Verified(TipOf(g, t, trio)) /\ Supplied(g, trio, boundary)
      /\ DecodeVerifyRooted(g, t, trio, boundary, checks) = "Ok"
  BY VerifyType
<1>2. "Ok" \notin UnreadableFrame
  BY DEF UnreadableFrame
<1>3. Frame[t] = g /\ BindsBranch(g, t, trio, boundary) /\ checks
  BY <1>1, <1>2, ForeignFrames DEF DecodeVerifyRooted
<1>4. Sound[t] /\ Statement[t].header \in Header
  BY <1>3, SoundProofs
<1>5. ParentOf[trio.header] = ParentOf[Statement[t].header]
  BY <1>1, <1>3, <1>4, ProjectionCoversParent DEF BindsBranch, Supplied, Decodes
<1> QED
  BY <1>1, <1>3, <1>4, <1>5 DEF Verified, TipOf

(* And "stale" only of bytes no cryptography ran on.                       *)
LEMMA StaleMeansUnread ==
    ASSUME NEW g, NEW t \in Terminal, NEW trio, NEW boundary, NEW checks,
           NEW out, out = Verify(g, t, trio, boundary, checks), out.status = "stale"
    PROVE  Frame[t] # g \/ Governing(WireHeight[t]) # g
<1>1. CASE OtherRelation(g, t)
  BY <1>1 DEF OtherRelation
<1>2. CASE ~OtherRelation(g, t)
  <2>1. IsUnreadableFrame(DecodeVerifyRooted(g, t, trio, boundary, checks))
    BY <1>2 DEF Verify, Throws, Verified, Rejected
  <2> QED
    BY <2>1 DEF IsUnreadableFrame, DecodeVerifyRooted, UnreadableFrame
<1> QED
  BY <1>1, <1>2

LEMMA ConcludeHolds ==
    ASSUME TypeOK, RunsHold, TipIsProven, NEW r \in Run, NEW trio, NEW boundary,
           run[r].pc \in {"headers", "boundary"}, Conclude(r, trio, boundary)
    PROVE  RunsHold' /\ TipIsProven'
<1>1. PICK checks \in ProofChecks(run[r].terminal, Genuine(r)) :
        LET out == Replay(r, trio, boundary, checks) IN
        /\ tip' = IF out.status = "verified" THEN out.tip ELSE tip
        /\ run' = [run EXCEPT ![r] =
                    Ended(r, IF out.status = "throws" THEN FailedAt(r) ELSE out)]
  BY DEF Conclude
<1> DEFINE t == run[r].terminal
           out == Replay(r, trio, boundary, checks)
           v == IF out.status = "throws" THEN FailedAt(r) ELSE out
<1>2. t \in Terminal /\ run[r].terminal # None
  BY DEF TypeOK, RunRecords
<1>3. RunHolds(pin, run[r])
  BY DEF RunsHold
<1>4. checks = Sound[t]
  BY <1>1, <1>3 DEF ProofChecks, Genuine, RunHolds
<1>5. pin' = pin /\ Relation = RelationOf[pin]
  BY DEF Conclude, siteVars, Relation
<1>6. /\ v \in Verdicts
      /\ out.status = "verified" =>
            /\ Sound[t] /\ Frame[t] = Relation
            /\ out.tip.height = WireHeight[t] /\ out.tip.proof = t
            /\ out.tip.parent = ParentOf[Statement[t].header]
            /\ out.tip.root = RecursionRootHeight(Relation)
      /\ v.status = "verified" => Sound[t]
      /\ v.status = "stale" => Frame[t] # Relation \/ Governing(WireHeight[t]) # Relation
  <2>0. FailedAt(r) \in Verdicts /\ FailedAt(r).status = "failed"
    BY DEF FailedAt, Verdicts, TypeOK, RunRecords
  <2>1. CASE Missing \in {trio.header, trio.epoch}
    BY <2>0, <2>1 DEF Replay, Throws
  <2>2. CASE Missing \notin {trio.header, trio.epoch}
    <3>1. out = Verify(Relation, t, trio, boundary, checks)
      BY <2>2 DEF Replay
    <3> HIDE DEF out, t
    <3>2. out.status = "verified" =>
            /\ Sound[t] /\ Frame[t] = Relation
            /\ out.tip.height = WireHeight[t] /\ out.tip.proof = t
            /\ out.tip.parent = ParentOf[Statement[t].header]
            /\ out.tip.root = RecursionRootHeight(Relation)
      BY <3>1, <1>2, <1>4, VerifiedMeansSound
    <3>3. out.status = "stale" => Frame[t] # Relation \/ Governing(WireHeight[t]) # Relation
      BY <3>1, <1>2, StaleMeansUnread
    <3>4. (out = Throws \/ out \in Verdicts) /\ (out.status = "throws" <=> out = Throws)
      BY <3>1, <1>2, VerifyType
    <3> QED
      BY <2>0, <3>2, <3>3, <3>4
  <2> QED
    BY <2>1, <2>2
<1>7. run' = [run EXCEPT ![r] = Ended(r, v)]
  BY <1>1
<1>8. tip' = IF out.status = "verified" THEN out.tip ELSE tip
  BY <1>1
<1> HIDE DEF out, v
<1>9. v.status = "verified" => ~run[r].tamper
  BY <1>2, <1>3, <1>6 DEF RunHolds
<1>10. RunHolds(pin, Ended(r, v)) /\ Unfinished(Ended(r, v))
  BY <1>6, <1>9, EndedHolds
<1>11. RunsHold'
  BY <1>5, <1>7, <1>10, RunsHoldUpdate
<1>12. TipIsProven'
  <2>1. Relation' = Relation
    BY <1>5 DEF Relation
  <2>2. CASE out.status = "verified"
    BY <1>6, <1>8, <2>1, <2>2 DEF TipIsProven
  <2>3. CASE out.status # "verified"
    BY <1>8, <2>1, <2>3 DEF TipIsProven
  <2> QED
    BY <2>2, <2>3
<1> QED
  BY <1>11, <1>12

LEMMA TipStays ==
    ASSUME TipIsProven, tip' = tip, pin' = pin
    PROVE  TipIsProven'
BY DEF TipIsProven, Relation

LEMMA HeadersArriveHolds ==
    ASSUME TypeOK, RunsHold, TipIsProven, NEW r \in Run, HeadersArrive(r)
    PROVE  RunsHold' /\ TipIsProven'
<1>1. PICK trio \in Fetched(r, Needed(r).terminal) :
        IF NeedsBoundary(Relation)
        THEN /\ run' = [Ask(r, "boundary") EXCEPT ![r].trio = trio]
             /\ UNCHANGED <<siteVars, storeVars, engine, pools, rpcUrl, tip, walk>>
        ELSE Conclude(r, trio, Missing)
  BY DEF HeadersArrive
<1>2. CASE ~NeedsBoundary(Relation)
  BY <1>1, <1>2, ConcludeHolds DEF HeadersArrive
<1>3. CASE NeedsBoundary(Relation)
  <2>1. /\ run[r] \in RunRecords /\ run \in [Run -> RunRecords]
        /\ RunHolds(pin, run[r]) /\ Unfinished(run[r]) /\ run[r].pc = "headers"
    BY DEF TypeOK, RunsHold, HeadersArrive
  <2> DEFINE x == [run[r] EXCEPT !.pc = "boundary", !.asked = rpcUrl, !.trio = trio]
  <2>2. run' = [run EXCEPT ![r] = x] /\ pin' = pin /\ tip' = tip
    BY <1>1, <1>3, <2>1 DEF Ask, siteVars
  <2>3. /\ x.mats = run[r].mats /\ x.trust = run[r].trust /\ x.restored = run[r].restored
        /\ x.tamper = run[r].tamper /\ x.terminal = run[r].terminal
        /\ x.verdict = run[r].verdict
    BY <2>1 DEF RunRecords
  <2> HIDE DEF x
  <2>4. RunHolds(pin, x) /\ Unfinished(x)
    BY <2>1, <2>3, RunHoldsTransfer
  <2> QED
    BY <2>2, <2>4, RunsHoldUpdate, TipStays
<1> QED
  BY <1>2, <1>3

LEMMA RunStepHolds ==
    ASSUME TypeOK, RunsHold, CacheHolds, TipIsProven, NEW r \in Run, RunStep(r)
    PROVE  RunsHold' /\ CacheHolds' /\ TipIsProven'
<1>1. CASE SourceAnswers(r) \/ EngineUp(r) \/ MetadataArrives(r) \/ CacheMiss(r)
  BY <1>1, MoveHolds, TipStays
     DEF SourceAnswers, EngineUp, MetadataArrives, CacheMiss, siteVars, storeVars, CacheHolds
<1>2. CASE CacheHit(r)
  BY <1>2, CacheHitHolds, TipStays DEF CacheHit, siteVars, storeVars, CacheHolds
<1>3. CASE AssetArrives(r)
  BY <1>3, AssetArrivesHolds, TipStays DEF AssetArrives, siteVars, storeVars, CacheHolds
<1>4. CASE Banked(r)
  BY <1>4, BankedHolds, TipStays DEF Banked, siteVars
<1>5. CASE TerminalArrives(r)
  BY <1>5, TerminalArrivesHolds, TipStays DEF TerminalArrives, siteVars, storeVars, CacheHolds
<1>6. CASE HeadersArrive(r)
  <2>1. UNCHANGED storeVars
    BY <1>6 DEF HeadersArrive, Conclude
  <2> QED
    BY <1>6, <2>1, HeadersArriveHolds DEF storeVars, CacheHolds
<1>7. CASE BoundaryArrives(r)
  <2>1. UNCHANGED storeVars
    BY <1>7 DEF BoundaryArrives, Conclude
  <2> QED
    BY <1>7, <2>1, ConcludeHolds DEF BoundaryArrives, storeVars, CacheHolds
<1>8. CASE RunThrows(r)
  <2>1. Fail(r)
    BY <1>8 DEF RunThrows, Rejects, EngineDown, StorageDown, WrongMetadata, WrongMatrix,
                NoHeightToRead
  <2> QED
    BY <2>1, FailHolds, TipStays DEF Fail, siteVars, storeVars, CacheHolds
<1> QED
  BY <1>1, <1>2, <1>3, <1>4, <1>5, <1>6, <1>7, <1>8 DEF RunStep

(* The pool is built on the first startEngine() of a page load only.       *)
LEMMA PoolStep ==
    ASSUME TypeOK, PoolHolds, [Next]_vars
    PROVE  PoolHolds'
<1>1. CASE UNCHANGED <<engine, pools>>
  BY <1>1 DEF PoolHolds
<1>2. CASE StartEngine
  BY <1>2 DEF StartEngine, PoolHolds, TypeOK
<1>3. CASE EngineSettles \/ Reload
  BY <1>3 DEF EngineSettles, Reload, PoolHolds
<1>4. \/ UNCHANGED <<engine, pools>> \/ StartEngine \/ EngineSettles \/ Reload
  <2>1. CASE Visit
    BY <2>1 DEF Visit, RunOnBadUrl, RunOnDefault, RunOnOwnSource, StartWalk, walkOnly,
                ClearStorage, Publish
  <2>2. CASE \E r \in Run : RunStep(r)
    BY <2>2, ZenonT(40) DEF RunStep, SourceAnswers, EngineUp, MetadataArrives, CacheHit, CacheMiss,
                AssetArrives, Banked, TerminalArrives, HeadersArrive, BoundaryArrives,
                Conclude, RunThrows, Rejects, EngineDown, StorageDown, WrongMetadata,
                WrongMatrix, NoHeightToRead, Fail
  <2>3. CASE \E w \in Walkers : WalkStep(w)
    BY <2>3 DEF WalkStep, RangeArrives, NoRangeMethod, SingleArrives, WalkThrows, walkOnly
  <2>4. CASE Probe \/ EngineSettles \/ UNCHANGED vars
    BY <2>4 DEF Probe, vars
  <2> QED
    BY <2>1, <2>2, <2>3, <2>4 DEF Next
<1> QED
  BY <1>1, <1>2, <1>3, <1>4

----------------------------------------------------------------------------
(* The steps of a walk.                                                    *)
LEMMA NothingClaimed ==
    ASSUME NEW x, x.answer.status # "in_chain"
    PROVE  AnswerHolds(x)
BY DEF AnswerHolds

LEMMA AnsweredIs ==
    ASSUME TypeOK, NEW w \in Walkers, NEW answer, NEW proof
    PROVE  LET x == Answered(w, answer, proof) IN
           /\ x.pc = "done" /\ x.target = walk[w].target /\ x.from = walk[w].from
           /\ x.answer = answer /\ x.proof = proof
BY DEF Answered, IdleWalk

LEMMA FailedHolds ==
    ASSUME TypeOK, NEW w \in Walkers
    PROVE  /\ AnswerHolds(Answered(w, WalkFailed, None))
           /\ FetchHolds(Answered(w, WalkFailed, None))
BY AnsweredIs, NothingClaimed DEF WalkFailed, FetchHolds

(* With the headers from its target to where it started in hand, a walk    *)
(* that is accepted against a proven tip shows that tip's history, and     *)
(* the tip is as high as the one it started from.                          *)
LEMMA ShownIsHistory ==
    ASSUME NEW x \in Tips, NEW target \in Int, NEW from \in Int, NEW hs \in Seq(Served),
           Sound[x.proof], x.height = WireHeight[x.proof],
           x.parent = ParentOf[Statement[x.proof].header],
           x.root = RecursionRootHeight(Frame[x.proof]),
           Len(hs) = from - target, WalkTo(x, target, hs).status = "in_chain"
    PROVE  /\ WalkTo(x, target, hs).found = History[x.proof][target]
           /\ from = WireHeight[x.proof]
<1> DEFINE a == Walk(x.height, x.parent, target, hs)
<1>1. /\ x.root <= target /\ target < x.height /\ Len(hs) = x.height - target
      /\ AllDecode(hs) /\ a = InChain(hs[1]) /\ WalkTo(x, target, hs) = Shown(hs[1])
  BY WalkToType
<1>2. x.height \in Int /\ x.proof \in Terminal
  BY DEF Tips
<1>3. from = x.height
  BY <1>1, <1>2
<1>4. hs \in Seq(Header)
  BY <1>1 DEF AllDecode
<1>5. SealedHistory(History[x.proof], x.root, x.height, x.parent)
  BY <1>2, SoundProofs
<1>6. target \in Nat
  BY <1>1, <1>5 DEF SealedHistory
<1>7. a.kind = "InChain" /\ a.found = hs[1]
  BY <1>1 DEF InChain
<1> HIDE DEF a
<1>8. a.found = History[x.proof][target]
  BY <1>1, <1>4, <1>5, <1>6, <1>7, WalkIsSound DEF a
<1>9. WalkTo(x, target, hs).found = hs[1]
  BY <1>1 DEF Shown
<1> QED
  BY <1>3, <1>7, <1>8, <1>9

LEMMA AssembledHolds ==
    ASSUME TypeOK, TipIsProven, NEW w \in Walkers, NEW hs \in Seq(Served),
           Len(hs) = walk[w].from - walk[w].target
    PROVE  AnswerHolds(Assembled(w, hs)) /\ FetchHolds(Assembled(w, hs))
<1>1. walk[w] \in WalkRecords /\ tip \in Tips \cup {None}
  BY DEF TypeOK
<1>2. CASE Assembled(w, hs) = Answered(w, WalkFailed, None)
  BY <1>2, FailedHolds
<1>3. CASE tip # None /\ Assembled(w, hs) = Answered(w, WalkTo(tip, walk[w].target, hs), tip.proof)
  <2> DEFINE x == Assembled(w, hs)
  <2>1. /\ x.pc = "done" /\ x.target = walk[w].target /\ x.from = walk[w].from
        /\ x.answer = WalkTo(tip, walk[w].target, hs) /\ x.proof = tip.proof
    BY <1>3, AnsweredIs
  <2>2. /\ tip \in Tips /\ Sound[tip.proof] /\ tip.height = WireHeight[tip.proof]
        /\ tip.parent = ParentOf[Statement[tip.proof].header]
        /\ tip.root = RecursionRootHeight(Frame[tip.proof])
    BY <1>1, <1>3 DEF TipIsProven
  <2>3. walk[w].target \in Int /\ walk[w].from \in Int
    BY <1>1 DEF WalkRecords
  <2> HIDE DEF x
  <2>4. ASSUME x.answer.status = "in_chain"
        PROVE  /\ x.answer.found = History[x.proof][x.target]
               /\ x.from = WireHeight[x.proof]
    BY <2>1, <2>2, <2>3, <2>4, ShownIsHistory
  <2>5. AnswerHolds(x)
    BY <2>1, <2>2, <2>4 DEF AnswerHolds
  <2>6. FetchHolds(x)
    BY <2>1 DEF FetchHolds
  <2> QED
    BY <2>5, <2>6 DEF x
<1> QED
  BY <1>2, <1>3 DEF Assembled

(* Headers in hand, and how far they reach.                                *)
LEMMA ReachOf ==
    ASSUME NEW target \in Int, NEW at \in Int, NEW from \in Int, NEW g \in Int, NEW n \in Nat,
           target <= at, g = at - target, n <= from - at
    PROVE  /\ g + n = (at + n) - target /\ target <= at + n /\ at + n <= from
           /\ at + n \in Int
           /\ ~(at + n < from) => g + n = from - target
OBVIOUS

LEMMA ReceivedHolds ==
    ASSUME TypeOK, TipIsProven, NEW w \in Walkers, FetchHolds(walk[w]), AnswerHolds(walk[w]),
           walk[w].pc \in {"batch", "single"}, NEW pc \in {"batch", "single"},
           NEW hs \in Seq(Served), Len(hs) <= walk[w].from - walk[w].at
    PROVE  AnswerHolds(Received(w, hs, pc)) /\ FetchHolds(Received(w, hs, pc))
<1> DEFINE got == walk[w].got \o hs
           at  == walk[w].at + Len(hs)
<1>1. /\ walk[w] \in WalkRecords /\ walk[w].got \in Seq(Served)
      /\ walk[w].target \in Int /\ walk[w].from \in Int /\ walk[w].at \in Int
  BY DEF TypeOK, WalkRecords
<1>2. walk[w].target <= walk[w].at /\ Len(walk[w].got) = walk[w].at - walk[w].target
  BY DEF FetchHolds
<1>3. got \in Seq(Served) /\ Len(got) = Len(walk[w].got) + Len(hs) /\ Len(hs) \in Nat
  BY <1>1
<1> HIDE DEF got
<1>4. Len(got) = at - walk[w].target /\ walk[w].target <= at /\ at <= walk[w].from /\ at \in Int
  <2> DEFINE target == walk[w].target
             from == walk[w].from
             start == walk[w].at
             g == Len(walk[w].got)
             n == Len(hs)
  <2>1. /\ target \in Int /\ from \in Int /\ start \in Int /\ g \in Int /\ n \in Nat
        /\ target <= start /\ g = start - target /\ n <= from - start
    BY <1>1, <1>2, <1>3
  <2>2. Len(got) = g + n /\ at = start + n
    BY <1>3
  <2> HIDE DEF target, from, start, g, n, at
  <2>3. g + n = (start + n) - target /\ target <= start + n /\ start + n <= from /\ start + n \in Int
    BY <2>1, ReachOf
  <2>4. Len(got) = at - target /\ target <= at /\ at <= from /\ at \in Int
    BY <2>2, <2>3
  <2> QED
    BY <2>4 DEF target, from
<1>5. CASE at < walk[w].from
  <2> DEFINE x == [walk[w] EXCEPT !.pc = pc, !.got = got, !.at = at, !.asked = rpcUrl]
  <2>1. Received(w, hs, pc) = x
    BY <1>5 DEF Received, got
  <2> HIDE DEF at
  <2>2. /\ x.pc = pc /\ x.got = got /\ x.at = at /\ x.target = walk[w].target
        /\ x.from = walk[w].from /\ x.answer = walk[w].answer /\ x.proof = walk[w].proof
    BY <1>1 DEF WalkRecords
  <2> HIDE DEF x
  <2>3. AnswerHolds(x)
    BY <2>2 DEF AnswerHolds
  <2>4. FetchHolds(x)
    BY <1>4, <2>2 DEF FetchHolds
  <2> QED
    BY <2>1, <2>3, <2>4
<1>6. CASE ~(at < walk[w].from)
  <2>1. Received(w, hs, pc) = Assembled(w, got)
    BY <1>6 DEF Received, got
  <2>2. Len(got) = walk[w].from - walk[w].target
    BY <1>1, <1>4, <1>6
  <2> HIDE DEF at
  <2> QED
    BY <1>3, <2>1, <2>2, AssembledHolds
<1> QED
  BY <1>5, <1>6

LEMMA StartWalkHolds ==
    ASSUME TypeOK, WalksHold, NEW w \in Walkers, NEW target \in Int, StartWalk(w, target)
    PROVE  WalksHold'
<1>1. CASE Refused(target)
  BY <1>1, FailedHolds, WalksHoldUpdate DEF StartWalk
<1>2. CASE ~Refused(target)
  <2> DEFINE x == [IdleWalk EXCEPT !.pc = "batch", !.target = target, !.from = tip.height,
                                   !.at = target, !.asked = rpcUrl]
  <2>1. walk' = [walk EXCEPT ![w] = x]
    BY <1>2 DEF StartWalk
  <2>2. x.answer = NoAnswer /\ x.target = target /\ x.at = target /\ x.got = NoHeaders
    BY DEF IdleWalk
  <2>3. Len(NoHeaders) = 0
    BY DEF NoHeaders
  <2> HIDE DEF x
  <2>4. AnswerHolds(x) /\ FetchHolds(x)
    BY <2>2, <2>3 DEF AnswerHolds, FetchHolds, NoAnswer
  <2> QED
    BY <2>1, <2>4, WalksHoldUpdate
<1> QED
  BY <1>1, <1>2

LEMMA WalkStepHolds ==
    ASSUME TypeOK, TipIsProven, WalksHold, NEW w \in Walkers, WalkStep(w)
    PROVE  WalksHold'
<1>0. FetchHolds(walk[w]) /\ AnswerHolds(walk[w]) /\ walk[w] \in WalkRecords
  BY DEF WalksHold, TypeOK
<1>1. CASE RangeArrives(w)
  <2>1. PICK hs \in RunsServed(w, Batch(w)) : walk' = [walk EXCEPT ![w] = Received(w, hs, "batch")]
    BY <1>1 DEF RangeArrives
  <2>2. walk[w].pc = "batch"
    BY <1>1 DEF RangeArrives
  <2>3. hs \in Seq(Served) /\ Len(hs) <= walk[w].from - walk[w].at
    BY <2>1, <2>2, BatchIsNat, ServedRunsType
  <2> QED
    BY <1>0, <2>1, <2>2, <2>3, ReceivedHolds, WalksHoldUpdate
<1>2. CASE NoRangeMethod(w)
  <2> DEFINE x == [walk[w] EXCEPT !.pc = "single", !.asked = rpcUrl]
  <2>1. /\ x.answer = walk[w].answer /\ x.target = walk[w].target /\ x.at = walk[w].at
        /\ x.got = walk[w].got /\ x.from = walk[w].from /\ x.proof = walk[w].proof
        /\ walk[w].pc = "batch"
    BY <1>0, <1>2 DEF WalkRecords, NoRangeMethod
  <2>2. walk' = [walk EXCEPT ![w] = Answered(w, WalkFailed, None)] \/ walk' = [walk EXCEPT ![w] = x]
    BY <1>2 DEF NoRangeMethod
  <2> HIDE DEF x
  <2>3. AnswerHolds(x) /\ FetchHolds(x)
    BY <1>0, <2>1 DEF AnswerHolds, FetchHolds
  <2> QED
    BY <2>2, <2>3, FailedHolds, WalksHoldUpdate
<1>3. CASE SingleArrives(w)
  <2>1. PICK hs \in RunsServed(w, 1) : walk' = [walk EXCEPT ![w] = Received(w, hs, "single")]
    BY <1>3 DEF SingleArrives
  <2>2. walk[w].pc = "single" /\ walk[w].at < walk[w].from
    BY <1>3 DEF SingleArrives, TypeOK
  <2>3. hs \in Seq(Served) /\ Len(hs) <= walk[w].from - walk[w].at
    BY <1>0, <2>1, <2>2, ServedRunsType DEF WalkRecords
  <2> QED
    BY <1>0, <2>1, <2>2, <2>3, ReceivedHolds, WalksHoldUpdate
<1>4. CASE WalkThrows(w)
  BY <1>4, FailedHolds, WalksHoldUpdate DEF WalkThrows
<1> QED
  BY <1>1, <1>2, <1>3, <1>4 DEF WalkStep

----------------------------------------------------------------------------
(* The invariant.                                                          *)
LEMMA ReloadHolds ==
    ASSUME TypeOK, CacheHolds, Reload
    PROVE  RunsHold' /\ WalksHold' /\ CacheHolds' /\ TipIsProven'
<1>1. RunsHold'
  <2>1. ASSUME NEW r \in Run
        PROVE  RunHolds(pin', run'[r]) /\ Unfinished(run'[r])
    <3>1. /\ run'[r].mats = {} /\ run'[r].trust = "full" /\ run'[r].restored = {}
          /\ run'[r].terminal = None /\ run'[r].verdict = NoVerdict
      BY DEF Reload, IdleRun
    <3> QED
      BY <3>1, NoVerdictIs, IdleRunHolds
  <2> QED
    BY <2>1 DEF RunsHold
<1>2. WalksHold'
  <2>1. ASSUME NEW w \in Walkers
        PROVE  AnswerHolds(walk'[w]) /\ FetchHolds(walk'[w])
    <3>1. walk'[w].answer = NoAnswer /\ walk'[w].pc \in {"idle", "lost"}
      BY DEF Reload, IdleWalk
    <3> QED
      BY <3>1 DEF AnswerHolds, FetchHolds, NoAnswer
  <2> QED
    BY <2>1 DEF WalksHold
<1>3. CacheHolds'
  BY DEF Reload, CacheHolds, Empty
<1>4. TipIsProven'
  BY DEF Reload, TipIsProven
<1> QED
  BY <1>1, <1>2, <1>3, <1>4

LEMMA WorkerInvInit == Init => WorkerInv
<1> SUFFICES ASSUME Init PROVE WorkerInv
  OBVIOUS
<1>1. TypeOK
  BY TypeOKInit
<1>2. CacheHolds /\ PoolHolds /\ TipIsProven
  BY DEF Init, CacheHolds, PoolHolds, TipIsProven, Empty
<1>3. RunsHold
  <2>1. ASSUME NEW r \in Run
        PROVE  RunHolds(pin, run[r]) /\ Unfinished(run[r])
    <3>1. /\ run[r].mats = {} /\ run[r].trust = "full" /\ run[r].restored = {}
          /\ run[r].terminal = None /\ run[r].verdict = NoVerdict
      BY DEF Init, IdleRun
    <3> QED
      BY <3>1, NoVerdictIs, IdleRunHolds
  <2> QED
    BY <2>1 DEF RunsHold
<1>4. WalksHold
  BY DEF Init, WalksHold, AnswerHolds, FetchHolds, IdleWalk, NoAnswer
<1> QED
  BY <1>1, <1>2, <1>3, <1>4 DEF WorkerInv

LEMMA WorkerInvStep == WorkerInv /\ [Next]_vars => WorkerInv'
<1> SUFFICES ASSUME WorkerInv, [Next]_vars PROVE WorkerInv'
  OBVIOUS
<1>1. TypeOK' /\ PoolHolds'
  BY TypeOKStep, PoolStep DEF WorkerInv
<1> SUFFICES RunsHold' /\ WalksHold' /\ CacheHolds' /\ TipIsProven'
  BY <1>1 DEF WorkerInv
<1> USE DEF WorkerInv
<1>2. CASE UNCHANGED vars
  <2>1. RunsHold' /\ WalksHold'
    BY <1>2 DEF vars, siteVars, RunsHold, WalksHold
  <2> QED
    BY <1>2, <2>1, TipStays DEF vars, siteVars, storeVars, CacheHolds
<1>3. CASE \E r \in Run, tamper \in BOOLEAN :
            RunOnBadUrl(r, tamper) \/ RunOnDefault(r, tamper)
            \/ \E url \in Source : RunOnOwnSource(r, tamper, url)
  <2>1. tip' = None /\ UNCHANGED <<siteVars, storeVars, walk>>
    BY <1>3 DEF RunOnBadUrl, RunOnDefault, RunOnOwnSource, Supersede
  <2>2. RunsHold'
    BY <1>3, StartRunHolds
  <2> QED
    BY <2>1, <2>2 DEF WalksHold, storeVars, CacheHolds, TipIsProven
<1>4. CASE \E w \in Walkers, target \in DOMAIN Serves[Default] : StartWalk(w, target)
  <2>1. WalksHold'
    BY <1>4, StartWalkHolds, ServedHeightsAreInts
  <2>2. UNCHANGED walkOnly
    BY <1>4 DEF StartWalk
  <2> QED
    BY <2>1, <2>2, TipStays DEF walkOnly, siteVars, storeVars, CacheHolds, RunsHold
<1>5. CASE ClearStorage \/ Publish \/ Probe \/ EngineSettles
  <2>1. pin' = pin /\ UNCHANGED <<run, walk, tip>> /\ (db' = db \/ db' = Empty)
    BY <1>5 DEF ClearStorage, Publish, Probe, EngineSettles, siteVars, storeVars
  <2> QED
    BY <2>1, TipStays DEF RunsHold, WalksHold, CacheHolds, Empty
<1>6. CASE Reload
  BY <1>6, ReloadHolds
<1>7. CASE \E r \in Run : RunStep(r)
  <2>1. UNCHANGED walk
    BY <1>7, ZenonT(40) DEF RunStep, SourceAnswers, EngineUp, MetadataArrives, CacheHit, CacheMiss,
                AssetArrives, Banked, TerminalArrives, HeadersArrive, BoundaryArrives,
                Conclude, RunThrows, Rejects, EngineDown, StorageDown, WrongMetadata,
                WrongMatrix, NoHeightToRead, Fail
  <2> QED
    BY <1>7, <2>1, RunStepHolds DEF WalksHold
<1>8. CASE \E w \in Walkers : WalkStep(w)
  <2>1. UNCHANGED walkOnly
    BY <1>8 DEF WalkStep, RangeArrives, NoRangeMethod, SingleArrives, WalkThrows
  <2> QED
    BY <1>8, <2>1, WalkStepHolds, TipStays DEF walkOnly, siteVars, storeVars, CacheHolds, RunsHold
<1> QED
  BY <1>2, <1>3, <1>4, <1>5, <1>6, <1>7, <1>8 DEF Next, Visit

LEMMA WorkerInvariant == Spec => []WorkerInv
BY WorkerInvInit, WorkerInvStep, PTL DEF Spec

----------------------------------------------------------------------------
(* Whatever is served and however runs overlap, the tip a walk may start   *)
(* from is one whose proof holds under the page's relation, with the       *)
(* parent link it binds (verify-worker.js l.107-108, 322).                 *)
THEOREM TheTipIsProven == Spec => []TipIsProven
<1>1. WorkerInv => TipIsProven
  BY DEF WorkerInv
<1> QED
  BY <1>1, WorkerInvariant, PTL

(* A block shown in the chain is that block of the history of a proof that *)
(* holds, at the height the message names (README.md l.226-234), although  *)
(* the tip is read once before and once after the headers are awaited.     *)
THEOREM ShownBlocksAreHistory == Spec => []InChainIsHistory
<1>1. WorkerInv => InChainIsHistory
  BY DEF WorkerInv, WalksHold, AnswerHolds, InChainIsHistory
<1> QED
  BY <1>1, WorkerInvariant, PTL

(* A pass means that the proof holds (lib.rs l.681-694).                   *)
THEOREM VerifiedRunsAreSound == Spec => []VerifiedIsSound
<1>1. WorkerInv => VerifiedIsSound
  BY DEF WorkerInv, RunsHold, RunHolds, VerifiedIsSound
<1> QED
  BY <1>1, WorkerInvariant, PTL

(* Amber is for bytes no cryptography ran on (lib.rs l.176-207).           *)
THEOREM AmberRunsAreUnread == Spec => []AmberMeansUnread
<1>1. WorkerInv => AmberMeansUnread
  BY DEF WorkerInv, RunsHold, RunHolds, AmberMeansUnread, Relation
<1> QED
  BY <1>1, WorkerInvariant, PTL

(* FULL is said of runs that derived everything, and no matrix of another  *)
(* release is ever loaded (README.md l.251-258).                           *)
THEOREM TrustLabelsAreTrue == Spec => []TrustLabelIsTrue
<1>1. WorkerInv => TrustLabelIsTrue
  BY DEF WorkerInv, RunsHold, RunHolds, TrustLabelIsTrue
<1> QED
  BY <1>1, WorkerInvariant, PTL

(* rayon's global pool is built at most once (verify-worker.js l.141-147). *)
THEOREM ThePoolIsBuiltOnce == Spec => []PoolBuiltOnce
<1>1. WorkerInv => PoolBuiltOnce
  BY DEF WorkerInv, PoolHolds, PoolBuiltOnce
<1> QED
  BY <1>1, WorkerInvariant, PTL

----------------------------------------------------------------------------
(* The worker implements LightClient.  The mapping reads the proof of the  *)
(* tip and the answer of each walk.                                        *)
StoodBehind(t) == IF t = None THEN None ELSE t.proof

ShownBy(x) ==
    IF x.answer.status = "in_chain" THEN <<x.target, x.answer.found>> ELSE None

(* A walk that is still on its way has not answered.                       *)
Unanswered(x) == x.pc # "done" => x.answer = NoAnswer

WalksUnanswered == \A w \in Walkers : Unanswered(walk[w])

(* What a step of the worker does, seen through the mapping.               *)
LEMMA MappingIs ==
    ASSUME TypeOK, TypeOK'
    PROVE  /\ LC!clientVars = <<StoodBehind(tip), [w \in Walkers |-> ShownBy(walk[w])]>>
           /\ LC!clientVars' = <<StoodBehind(tip'), [w \in Walkers |-> ShownBy(walk'[w])]>>
BY DEF LC!clientVars, StoodBehind, ShownBy

LEMMA Nothing == StoodBehind(None) = None
BY DEF StoodBehind

LEMMA SilentIsNone ==
    ASSUME NEW x, x.answer = NoAnswer \/ x.answer = WalkFailed
    PROVE  ShownBy(x) = None
BY DEF ShownBy, NoAnswer, WalkFailed

LEMMA UnansweredUpdate ==
    ASSUME TypeOK, WalksUnanswered, NEW w \in Walkers, NEW x, Unanswered(x),
           walk' = [walk EXCEPT ![w] = x]
    PROVE  WalksUnanswered'
BY DEF TypeOK, WalksUnanswered

(* Every step of a walk answers it, or leaves it unanswered.               *)
LEMMA ReceivedIs ==
    ASSUME TypeOK, NEW w \in Walkers, NEW hs, NEW pc, walk[w].answer = NoAnswer
    PROVE  LET got == walk[w].got \o hs
               x   == Received(w, hs, pc)
           IN  \/ x.answer = NoAnswer
               \/ x = Answered(w, WalkFailed, None)
               \/ /\ tip # None /\ ~(walk[w].at + Len(hs) < walk[w].from)
                  /\ x = Answered(w, WalkTo(tip, walk[w].target, got), tip.proof)
<1> DEFINE got == walk[w].got \o hs
           at  == walk[w].at + Len(hs)
<1>1. CASE at < walk[w].from
  <2>1. [walk[w] EXCEPT !.pc = pc, !.got = got, !.at = at, !.asked = rpcUrl].answer = NoAnswer
    BY DEF TypeOK, WalkRecords
  <2> QED
    BY <1>1, <2>1 DEF Received
<1>2. CASE ~(at < walk[w].from)
  <2>1. Received(w, hs, pc) = Assembled(w, got)
    BY <1>2 DEF Received
  <2> HIDE DEF got
  <2>2. \/ Assembled(w, got) = Answered(w, WalkFailed, None)
        \/ tip # None /\ Assembled(w, got) = Answered(w, WalkTo(tip, walk[w].target, got), tip.proof)
    BY DEF Assembled
  <2> QED
    BY <1>2, <2>1, <2>2 DEF got
<1> QED
  BY <1>1, <1>2

(* No step but its own, and a page load, touches a walk.                   *)
LEMMA RunsLeaveWalks ==
    ASSUME NEW r \in Run, RunStep(r)
    PROVE  UNCHANGED walk
BY DEF RunStep, SourceAnswers, EngineUp, MetadataArrives, CacheHit, CacheMiss,
       AssetArrives, Banked, TerminalArrives, HeadersArrive, BoundaryArrives,
       Conclude, RunThrows, Rejects, EngineDown, StorageDown, WrongMetadata,
       WrongMatrix, NoHeightToRead, Fail

LEMMA WalksMoveOnTheirOwn ==
    ASSUME [Next]_vars
    PROVE  \/ UNCHANGED walk \/ Reload
           \/ \E w \in Walkers : WalkStep(w)
           \/ \E w \in Walkers, target \in DOMAIN Serves[Default] : StartWalk(w, target)
<1>1. CASE Visit
  BY <1>1 DEF Visit, RunOnBadUrl, RunOnDefault, RunOnOwnSource, Supersede, ClearStorage, Publish
<1>2. CASE Probe \/ EngineSettles \/ UNCHANGED vars
  BY <1>2 DEF Probe, EngineSettles, vars
<1> QED
  BY <1>1, <1>2, RunsLeaveWalks DEF Next

LEMMA UnansweredStep ==
    ASSUME TypeOK, WalksUnanswered, [Next]_vars
    PROVE  WalksUnanswered'
<1>1. CASE UNCHANGED walk
  BY <1>1 DEF WalksUnanswered
<1>2. ASSUME NEW w \in Walkers, NEW target, StartWalk(w, target)
      PROVE  WalksUnanswered'
  <2> DEFINE x == [IdleWalk EXCEPT !.pc = "batch", !.target = target, !.from = tip.height,
                                   !.at = target, !.asked = rpcUrl]
  <2>1. x.answer = NoAnswer
    BY DEF IdleWalk
  <2>2. walk' = [walk EXCEPT ![w] = Answered(w, WalkFailed, None)] \/ walk' = [walk EXCEPT ![w] = x]
    BY <1>2 DEF StartWalk
  <2> HIDE DEF x
  <2>3. Unanswered(x) /\ Unanswered(Answered(w, WalkFailed, None))
    BY <2>1, AnsweredIs DEF Unanswered
  <2> QED
    BY <2>2, <2>3, UnansweredUpdate
<1>3. ASSUME NEW w \in Walkers, WalkStep(w)
      PROVE  WalksUnanswered'
  <2>0. walk[w].answer = NoAnswer /\ walk[w] \in WalkRecords
    BY <1>3 DEF WalksUnanswered, Unanswered, WalkStep, RangeArrives, NoRangeMethod,
                SingleArrives, WalkThrows, TypeOK
  <2>1. ASSUME NEW hs, NEW pc PROVE Unanswered(Received(w, hs, pc))
    <3>1. Received(w, hs, pc).answer = NoAnswer \/ Received(w, hs, pc).pc = "done"
      BY <2>0, ReceivedIs, AnsweredIs
    <3> QED
      BY <3>1 DEF Unanswered
  <2> DEFINE x == [walk[w] EXCEPT !.pc = "single", !.asked = rpcUrl]
  <2>2. x.answer = NoAnswer
    BY <2>0 DEF WalkRecords
  <2>3. \/ walk' = [walk EXCEPT ![w] = x]
        \/ walk' = [walk EXCEPT ![w] = Answered(w, WalkFailed, None)]
        \/ \E hs : \E pc : walk' = [walk EXCEPT ![w] = Received(w, hs, pc)]
    BY <1>3 DEF WalkStep, RangeArrives, NoRangeMethod, SingleArrives, WalkThrows
  <2> HIDE DEF x
  <2>4. Unanswered(x) /\ Unanswered(Answered(w, WalkFailed, None))
    BY <2>2, AnsweredIs DEF Unanswered
  <2> QED
    BY <2>1, <2>3, <2>4, UnansweredUpdate
<1>4. CASE Reload
  BY <1>4 DEF Reload, WalksUnanswered, Unanswered, IdleWalk
<1>5. \/ UNCHANGED walk \/ Reload
      \/ \E w \in Walkers : WalkStep(w)
      \/ \E w \in Walkers, target \in DOMAIN Serves[Default] : StartWalk(w, target)
  BY WalksMoveOnTheirOwn
<1> QED
  BY <1>1, <1>2, <1>3, <1>4, <1>5

(* What the questions of LightClient have been shown.                      *)
ShownIn(f) == [w \in Walkers |-> ShownBy(f[w])]

LEMMA ShownAfter ==
    ASSUME TypeOK, NEW w \in Walkers, NEW x, walk' = [walk EXCEPT ![w] = x]
    PROVE  ShownIn(walk') = [ShownIn(walk) EXCEPT ![w] = ShownBy(x)]
BY DEF TypeOK, ShownIn

LEMMA SameShown ==
    ASSUME TypeOK, NEW w \in Walkers, NEW x, walk' = [walk EXCEPT ![w] = x],
           ShownBy(x) = ShownBy(walk[w])
    PROVE  ShownIn(walk') = ShownIn(walk)
BY DEF TypeOK, ShownIn

(* A walk answered in the chain shows a block of the history of the tip's  *)
(* proof.                                                                  *)
LEMMA AssembledShows ==
    ASSUME TypeOK, TipIsProven, NEW w \in Walkers, NEW hs \in Seq(Served), tip # None,
           Len(hs) = walk[w].from - walk[w].target,
           NEW x, x = Answered(w, WalkTo(tip, walk[w].target, hs), tip.proof)
    PROVE  \/ ShownBy(x) = None
           \/ \E h \in DOMAIN History[tip.proof] : ShownBy(x) = <<h, History[tip.proof][h]>>
<1> DEFINE target == walk[w].target
           from   == walk[w].from
           found  == WalkTo(tip, target, hs)
<1>1. x.target = target /\ x.answer = found
  BY AnsweredIs
<1>2. CASE found.status # "in_chain"
  BY <1>1, <1>2 DEF ShownBy
<1>3. CASE found.status = "in_chain"
  <2>1. /\ tip \in Tips /\ Sound[tip.proof] /\ tip.height = WireHeight[tip.proof]
        /\ tip.parent = ParentOf[Statement[tip.proof].header]
        /\ tip.root = RecursionRootHeight(Frame[tip.proof])
    BY DEF TypeOK, TipIsProven
  <2>2. target \in Int /\ from \in Int /\ Len(hs) = from - target
    BY DEF TypeOK, WalkRecords
  <2> HIDE DEF target, from
  <2>3. tip.root <= target /\ target < tip.height
    BY <1>3, <2>1, <2>2, WalkToType
  <2>4. found.found = History[tip.proof][target]
    BY <1>3, <2>1, <2>2, ShownIsHistory
  <2>5. /\ DOMAIN History[tip.proof] = tip.root..(tip.height - 1)
        /\ tip.root \in Int /\ tip.height \in Int
    <3>1. tip.proof \in Terminal
      BY <2>1 DEF Tips
    <3>2. SealedHistory(History[tip.proof], tip.root, tip.height, tip.parent)
      BY <2>1, <3>1, SoundProofs
    <3> QED
      BY <3>2 DEF SealedHistory
  <2>6. target \in DOMAIN History[tip.proof]
    BY <2>2, <2>3, <2>5
  <2>7. ShownBy(x) = <<target, History[tip.proof][target]>>
    BY <1>1, <1>3, <2>4 DEF ShownBy
  <2> QED
    BY <2>6, <2>7
<1> QED
  BY <1>2, <1>3

LEMMA ReceivedShows ==
    ASSUME TypeOK, TipIsProven, NEW w \in Walkers, FetchHolds(walk[w]),
           walk[w].answer = NoAnswer, walk[w].pc \in {"batch", "single"}, NEW pc,
           NEW hs \in Seq(Served), Len(hs) <= walk[w].from - walk[w].at
    PROVE  \/ ShownBy(Received(w, hs, pc)) = None
           \/ /\ tip # None
              /\ \E h \in DOMAIN History[tip.proof] :
                    ShownBy(Received(w, hs, pc)) = <<h, History[tip.proof][h]>>
<1> DEFINE got == walk[w].got \o hs
           x   == Received(w, hs, pc)
<1>1. CASE x.answer = NoAnswer
  BY <1>1, SilentIsNone
<1>2. CASE x = Answered(w, WalkFailed, None)
  BY <1>2, AnsweredIs, SilentIsNone
<1>3. CASE /\ tip # None /\ ~(walk[w].at + Len(hs) < walk[w].from)
           /\ x = Answered(w, WalkTo(tip, walk[w].target, got), tip.proof)
  <2>1. /\ walk[w].got \in Seq(Served)
        /\ walk[w].target \in Int /\ walk[w].from \in Int /\ walk[w].at \in Int
    BY DEF TypeOK, WalkRecords
  <2>2. walk[w].target <= walk[w].at /\ Len(walk[w].got) = walk[w].at - walk[w].target
    BY DEF FetchHolds
  <2>3. got \in Seq(Served) /\ Len(got) = Len(walk[w].got) + Len(hs) /\ Len(hs) \in Nat
    BY <2>1
  <2> HIDE DEF got, x
  <2>4. Len(got) = walk[w].from - walk[w].target
    <3> DEFINE target == walk[w].target
               at == walk[w].at
               from == walk[w].from
               g == Len(walk[w].got)
               n == Len(hs)
    <3>1. target \in Int /\ at \in Int /\ from \in Int /\ n \in Nat /\ g = at - target
      BY <2>1, <2>2, <2>3
    <3>2. target <= at /\ n <= from - at /\ ~(at + n < from) /\ Len(got) = g + n
      BY <1>3, <2>2, <2>3
    <3> HIDE DEF target, at, from, g, n
    <3>3. g \in Int
      BY <3>1
    <3>4. g + n = from - target
      BY <3>1, <3>2, <3>3, ReachOf
    <3> QED
      BY <3>2, <3>4 DEF target, from
  <2>5. \/ ShownBy(x) = None
        \/ \E h \in DOMAIN History[tip.proof] : ShownBy(x) = <<h, History[tip.proof][h]>>
    BY <1>3, <2>3, <2>4, AssembledShows
  <2> QED
    BY <1>3, <2>5 DEF x
<1> QED
  BY <1>1, <1>2, <1>3, ReceivedIs

LEMMA WalkStepShows ==
    ASSUME TypeOK, TipIsProven, WalksHold, WalksUnanswered, NEW w \in Walkers, WalkStep(w)
    PROVE  \/ ShownIn(walk') = ShownIn(walk)
           \/ /\ tip # None /\ ShownIn(walk)[w] = None
              /\ \E h \in DOMAIN History[tip.proof] :
                    ShownIn(walk') = [ShownIn(walk) EXCEPT ![w] = <<h, History[tip.proof][h]>>]
<1>0. /\ FetchHolds(walk[w]) /\ walk[w].answer = NoAnswer /\ walk[w] \in WalkRecords
      /\ walk[w].pc \in {"batch", "single"}
  BY DEF WalksHold, WalksUnanswered, Unanswered, TypeOK, WalkStep, RangeArrives,
         NoRangeMethod, SingleArrives, WalkThrows
<1>1. ShownBy(walk[w]) = None /\ ShownIn(walk)[w] = None
  BY <1>0, SilentIsNone DEF ShownIn
<1>2. ASSUME NEW x, ShownBy(x) = None, walk' = [walk EXCEPT ![w] = x]
      PROVE  ShownIn(walk') = ShownIn(walk)
  BY <1>1, <1>2, SameShown
<1>3. ASSUME NEW hs \in Seq(Served), NEW pc, Len(hs) <= walk[w].from - walk[w].at,
             walk' = [walk EXCEPT ![w] = Received(w, hs, pc)]
      PROVE  \/ ShownIn(walk') = ShownIn(walk)
             \/ /\ tip # None
                /\ \E h \in DOMAIN History[tip.proof] :
                    ShownIn(walk') = [ShownIn(walk) EXCEPT ![w] = <<h, History[tip.proof][h]>>]
  <2>1. CASE ShownBy(Received(w, hs, pc)) = None
    BY <1>2, <1>3, <2>1
  <2>2. CASE ShownBy(Received(w, hs, pc)) # None
    <3>1. tip # None
      BY <1>0, <1>3, <2>2, ReceivedShows
    <3>2. PICK h \in DOMAIN History[tip.proof] :
            ShownBy(Received(w, hs, pc)) = <<h, History[tip.proof][h]>>
      BY <1>0, <1>3, <2>2, ReceivedShows
    <3>3. ShownIn(walk') = [ShownIn(walk) EXCEPT ![w] = ShownBy(Received(w, hs, pc))]
      BY <1>3, ShownAfter
    <3> QED
      BY <3>1, <3>2, <3>3
  <2> QED
    BY <2>1, <2>2
<1>4. CASE RangeArrives(w)
  <2>1. PICK hs \in RunsServed(w, Batch(w)) : walk' = [walk EXCEPT ![w] = Received(w, hs, "batch")]
    BY <1>4 DEF RangeArrives
  <2>2. walk[w].pc = "batch"
    BY <1>4 DEF RangeArrives
  <2>3. hs \in Seq(Served) /\ Len(hs) <= walk[w].from - walk[w].at
    BY <2>1, <2>2, BatchIsNat, ServedRunsType
  <2> QED
    BY <1>1, <1>3, <2>1, <2>3
<1>5. CASE SingleArrives(w)
  <2>1. PICK hs \in RunsServed(w, 1) : walk' = [walk EXCEPT ![w] = Received(w, hs, "single")]
    BY <1>5 DEF SingleArrives
  <2>2. walk[w].at < walk[w].from
    BY <1>5 DEF SingleArrives, TypeOK
  <2>3. hs \in Seq(Served) /\ Len(hs) <= walk[w].from - walk[w].at
    BY <1>0, <2>1, <2>2, ServedRunsType DEF WalkRecords
  <2> QED
    BY <1>1, <1>3, <2>1, <2>3
<1>6. CASE NoRangeMethod(w) \/ WalkThrows(w)
  <2> DEFINE x == [walk[w] EXCEPT !.pc = "single", !.asked = rpcUrl]
  <2>1. x.answer = NoAnswer
    BY <1>0 DEF WalkRecords
  <2>2. \/ walk' = [walk EXCEPT ![w] = Answered(w, WalkFailed, None)]
        \/ walk' = [walk EXCEPT ![w] = x]
    BY <1>6 DEF NoRangeMethod, WalkThrows
  <2> HIDE DEF x
  <2>3. ShownBy(x) = None /\ ShownBy(Answered(w, WalkFailed, None)) = None
    BY <2>1, AnsweredIs, SilentIsNone
  <2> QED
    BY <1>2, <2>2, <2>3
<1> QED
  BY <1>4, <1>5, <1>6 DEF WalkStep

LEMMA StartWalkShows ==
    ASSUME TypeOK, WalksUnanswered, NEW w \in Walkers, NEW target, StartWalk(w, target)
    PROVE  ShownIn(walk') = ShownIn(walk)
<1> DEFINE x == [IdleWalk EXCEPT !.pc = "batch", !.target = target, !.from = tip.height,
                                 !.at = target, !.asked = rpcUrl]
<1>1. x.answer = NoAnswer
  BY DEF IdleWalk
<1>2. walk' = [walk EXCEPT ![w] = Answered(w, WalkFailed, None)] \/ walk' = [walk EXCEPT ![w] = x]
  BY DEF StartWalk
<1> HIDE DEF x
<1>3. walk[w].answer = NoAnswer
  BY DEF StartWalk, WalksUnanswered, Unanswered
<1>4. /\ ShownBy(x) = None /\ ShownBy(Answered(w, WalkFailed, None)) = None
      /\ ShownBy(walk[w]) = None
  BY <1>1, <1>3, AnsweredIs, SilentIsNone
<1> QED
  BY <1>2, <1>4, SameShown

(* A verdict leaves the tip as it was, or accepts a proof that holds.      *)
LEMMA ConcludeAccepts ==
    ASSUME TypeOK, RunsHold, NEW r \in Run, NEW trio, NEW boundary,
           run[r].pc \in {"headers", "boundary"}, Conclude(r, trio, boundary)
    PROVE  tip' = tip \/ \E t \in Terminal : Sound[t] /\ tip'.proof = t
<1>1. PICK checks \in ProofChecks(run[r].terminal, Genuine(r)) :
        tip' = LET out == Replay(r, trio, boundary, checks)
               IN  IF out.status = "verified" THEN out.tip ELSE tip
  BY DEF Conclude
<1> DEFINE t == run[r].terminal
           out == Replay(r, trio, boundary, checks)
<1>2. t \in Terminal /\ checks = Sound[t]
  BY <1>1 DEF TypeOK, RunRecords, RunsHold, RunHolds, ProofChecks, Genuine
<1>3. CASE out.status = "verified"
  <2>1. out = Verify(Relation, t, trio, boundary, checks)
    BY <1>3 DEF Replay, Throws
  <2>2. tip' = out.tip
    BY <1>1, <1>3
  <2> HIDE DEF out, t
  <2>3. Sound[t] /\ out.tip.proof = t
    BY <1>2, <1>3, <2>1, VerifiedMeansSound
  <2> QED
    BY <1>2, <2>2, <2>3
<1>4. CASE out.status # "verified"
  BY <1>1, <1>4
<1> QED
  BY <1>3, <1>4

LEMMA RunStepAccepts ==
    ASSUME TypeOK, RunsHold, NEW r \in Run, RunStep(r)
    PROVE  tip' = tip \/ \E t \in Terminal : Sound[t] /\ tip'.proof = t
<1>1. CASE HeadersArrive(r)
  <2>1. tip' = tip \/ \E trio : Conclude(r, trio, Missing)
    BY <1>1 DEF HeadersArrive
  <2>2. run[r].pc \in {"headers", "boundary"}
    BY <1>1 DEF HeadersArrive
  <2> QED
    BY <2>1, <2>2, ConcludeAccepts
<1>2. CASE BoundaryArrives(r)
  <2>1. \E boundary : Conclude(r, run[r].trio, boundary)
    BY <1>2 DEF BoundaryArrives
  <2>2. run[r].pc \in {"headers", "boundary"}
    BY <1>2 DEF BoundaryArrives
  <2> QED
    BY <2>1, <2>2, ConcludeAccepts
<1>3. CASE ~HeadersArrive(r) /\ ~BoundaryArrives(r)
  BY <1>3 DEF RunStep, SourceAnswers, EngineUp, MetadataArrives, CacheHit, CacheMiss,
              AssetArrives, Banked, TerminalArrives, RunThrows, Rejects, EngineDown,
              StorageDown, WrongMetadata, WrongMatrix, NoHeightToRead, Fail
<1> QED
  BY <1>1, <1>2, <1>3

(* Every step of the worker is a step of LightClient, or none.             *)
LEMMA WorkerStepRefines ==
    ASSUME WorkerInv, WalksUnanswered, [Next]_vars
    PROVE  [LC!Next]_(LC!clientVars)
<1> DEFINE acc == StoodBehind(tip)
           acc2 == StoodBehind(tip')
           shn == ShownIn(walk)
           shn2 == ShownIn(walk')
<1>0. TypeOK /\ TypeOK' /\ TipIsProven /\ RunsHold /\ WalksHold
  BY TypeOKStep DEF WorkerInv
<1>1. CASE shn2 = shn /\ tip' = tip
  BY <1>1, <1>0, MappingIs DEF ShownIn
<1>2. CASE shn2 = shn /\ tip' = None
  <2>1. LC!Supersede
    BY <1>2 DEF LC!Supersede, ShownIn, ShownBy
  <2> QED
    BY <2>1 DEF LC!Next
<1>3. ASSUME shn2 = shn, NEW t \in Terminal, Sound[t], tip'.proof = t
      PROVE  [LC!Next]_(LC!clientVars)
  <2>1. CASE tip' = None
    BY <1>2, <1>3, <2>1
  <2>2. CASE tip' # None
    <3>1. LC!Accept(t)
      BY <1>3, <2>2 DEF LC!Accept, ShownIn, ShownBy
    <3> QED
      BY <3>1 DEF LC!Next
  <2> QED
    BY <2>1, <2>2
<1>4. ASSUME NEW w \in Walkers, NEW h \in DOMAIN History[tip.proof], tip # None, tip' = tip,
             shn[w] = None, shn2 = [shn EXCEPT ![w] = <<h, History[tip.proof][h]>>]
      PROVE  [LC!Next]_(LC!clientVars)
  <2>1. tip.proof \in Terminal
    BY <1>0, <1>4 DEF TypeOK, Tips
  <2>2. tip.proof # None
    BY <2>1, WorkerConstants
  <2>3. LC!Show(w, h)
    BY <1>4, <2>2 DEF LC!Show, ShownIn, ShownBy
  <2> QED
    BY <1>4, <2>1, <2>3 DEF LC!Next
<1>5. CASE Reload
  <2>1. \A w \in Walkers : ShownBy(walk'[w]) = None
    BY <1>5, SilentIsNone DEF Reload, IdleWalk
  <2>2. tip' = None
    BY <1>5 DEF Reload
  <2>3. LC!Forget
    BY <2>1, <2>2 DEF LC!Forget, ShownBy
  <2> QED
    BY <2>3 DEF LC!Next
<1>6. CASE UNCHANGED <<walk, tip>>
  BY <1>1, <1>6
<1>7. CASE UNCHANGED walk /\ tip' = None
  BY <1>2, <1>7
<1>8. ASSUME NEW r \in Run, RunStep(r)
      PROVE  [LC!Next]_(LC!clientVars)
  <2>1. UNCHANGED walk
    BY <1>8, RunsLeaveWalks
  <2>2. tip' = tip \/ \E t \in Terminal : Sound[t] /\ tip'.proof = t
    BY <1>0, <1>8, RunStepAccepts
  <2> QED
    BY <1>1, <1>3, <2>1, <2>2
<1>9. ASSUME NEW w \in Walkers, WalkStep(w)
      PROVE  [LC!Next]_(LC!clientVars)
  <2>1. tip' = tip
    BY <1>9 DEF WalkStep, RangeArrives, NoRangeMethod, SingleArrives, WalkThrows, walkOnly
  <2> QED
    BY <1>0, <1>1, <1>4, <1>9, <2>1, WalkStepShows
<1>10. ASSUME NEW w \in Walkers, NEW target, StartWalk(w, target)
       PROVE  [LC!Next]_(LC!clientVars)
  <2>1. tip' = tip
    BY <1>10 DEF StartWalk, walkOnly
  <2> QED
    BY <1>0, <1>1, <1>10, <2>1, StartWalkShows
<1>11. CASE Visit
  <2>1. CASE ClearStorage \/ Publish
    BY <1>6, <2>1 DEF ClearStorage, Publish
  <2>2. CASE \E r \in Run, tamper \in BOOLEAN :
                RunOnBadUrl(r, tamper) \/ RunOnDefault(r, tamper)
                \/ \E url \in Source : RunOnOwnSource(r, tamper, url)
    BY <1>7, <2>2 DEF RunOnBadUrl, RunOnDefault, RunOnOwnSource, Supersede
  <2> QED
    BY <1>5, <1>10, <1>11, <2>1, <2>2 DEF Visit
<1>12. CASE Probe \/ EngineSettles \/ UNCHANGED vars
  BY <1>6, <1>12 DEF Probe, EngineSettles, vars
<1> QED
  BY <1>8, <1>9, <1>11, <1>12 DEF Next

LEMMA WorkerStartRefines == Init => LC!Init /\ WalksUnanswered
<1> SUFFICES ASSUME Init PROVE LC!Init /\ WalksUnanswered
  OBVIOUS
<1>1. \A w \in Walkers : walk[w].answer = NoAnswer
  BY DEF Init, IdleWalk
<1>2. tip = None
  BY DEF Init
<1> QED
  BY <1>1, <1>2 DEF LC!Init, WalksUnanswered, Unanswered, NoAnswer

(* What the worker does to its tip and its answers is what LightClient     *)
(* promises (README.md l.226-234): it stands behind at most one proof,     *)
(* which holds, and what it shows is that proof's history, for any number  *)
(* of overlapping runs and walks and whatever the endpoints serve.         *)
THEOREM WorkerKeepsThePromise == Spec => KeepsThePromise
<1>1. WorkerInv /\ WalksUnanswered /\ [Next]_vars => WalksUnanswered'
  BY UnansweredStep DEF WorkerInv
<1>2. WorkerInv /\ WalksUnanswered /\ [Next]_vars => [LC!Next]_(LC!clientVars)
  BY WorkerStepRefines
<1>3. Spec => []WorkerInv
  BY WorkerInvariant
<1>4. Spec => []WalksUnanswered
  BY WorkerStartRefines, <1>1, <1>3, PTL DEF Spec
<1> QED
  BY WorkerStartRefines, <1>2, <1>3, <1>4, PTL DEF Spec, LC!Spec, KeepsThePromise
=============================================================================
