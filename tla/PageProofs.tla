----------------------------- MODULE PageProofs -----------------------------
(***************************************************************************)
(* For any number of runs, walks and clicks.                               *)
(*                                                                         *)
(* The stamp and the chip: what the page shows as verified is the last     *)
(* verdict, and the chip says what it earned.  The two are inductive       *)
(* together, whatever is in the queues, because each handler that sets     *)
(* `last` also sets the chip and covers or repaints the stage.             *)
(*                                                                         *)
(* Walks and runs: what a letter is handled under is settled by the        *)
(* letters in front of it, so both invariants speak of the whole queue.    *)
(* WalkInv: a claim stands behind the verdict of the run that made it, and *)
(* each verdict behind the letter that takes the last form off the screen. *)
(* RunsInv: each run has one order or one verdict on its way at most, and  *)
(* buttons are only there while nothing is.                                *)
(***************************************************************************)
EXTENDS Page, FiniteSetTheorems, TLAPS

THEOREM StampAndChipInitially == Init => StampIsTheLastVerdict /\ ChipIsEarned
  BY DEF Init, Stage, StampIsTheLastVerdict, ChipIsEarned

(* What neither worker nor storage row touches leaves both as they were.   *)
LEMMA ScreenUnchanged ==
  ASSUME StampIsTheLastVerdict, ChipIsEarned, UNCHANGED <<stage, takeover, chip, last>>
  PROVE  StampIsTheLastVerdict' /\ ChipIsEarned'
  BY DEF StampIsTheLastVerdict, ChipIsEarned

(* So does painting over a result.                                         *)
LEMMA Repainted ==
  ASSUME ChipIsEarned, stage'.kind # "result", last' = last, chip' = chip \/ chip' = "unknown"
  PROVE  StampIsTheLastVerdict' /\ ChipIsEarned'
  BY DEF StampIsTheLastVerdict, ChipIsEarned

LEMMA WorkerKeepsTheScreen ==
  ASSUME StampIsTheLastVerdict, ChipIsEarned, EngineWorker
  PROVE  StampIsTheLastVerdict' /\ ChipIsEarned'
<1>1. UNCHANGED <<stage, takeover, chip, last>>
  BY DEF EngineWorker, RunTaken, WalkTaken, MatrixScanned, RunFails, RunIsStale,
         RunVerifies, WalkAnswered, PageVars, screen
<1>2. QED
  BY <1>1, ScreenUnchanged

LEMMA MessagesKeepThem ==
  ASSUME StampIsTheLastVerdict, ChipIsEarned, Messages
  PROVE  StampIsTheLastVerdict' /\ ChipIsEarned'
<1>1. CASE ProbeAnswered
  <2>1. PICK kind \in {"consent", "ready", "unavailable"} : Paint(Stage(kind))
    BY <1>1 DEF ProbeAnswered
  <2>2. stage'.kind # "result"
    BY <2>1 DEF Paint, Stage
  <2>3. last' = last /\ chip' = chip
    BY <1>1 DEF ProbeAnswered
  <2>4. QED
    BY <2>2, <2>3, Repainted
<1>2. CASE MatrixShown \/ WalkShown
  <2>1. UNCHANGED <<stage, takeover, chip, last>>
    BY <1>2 DEF MatrixShown, WalkShown, screen
  <2>2. QED
    BY <2>1, ScreenUnchanged
<1>3. CASE ReplayShown
  BY <1>3 DEF ReplayShown, Paint, Stage, StampIsTheLastVerdict, ChipIsEarned
<1>4. CASE AlarmShown
  BY <1>4 DEF AlarmShown, StampIsTheLastVerdict, ChipIsEarned
<1>5. CASE VerifiedShown
  BY <1>5 DEF VerifiedShown, Received, StampIsTheLastVerdict, ChipIsEarned
<1>6. CASE StaleShown
  BY <1>6 DEF StaleShown, Paint, Stage, StampIsTheLastVerdict, ChipIsEarned
<1>7. CASE FailedShown
  BY <1>7 DEF FailedShown, StampIsTheLastVerdict, ChipIsEarned
<1>8. QED
  BY <1>1, <1>2, <1>3, <1>4, <1>5, <1>6, <1>7 DEF Messages

LEMMA ClicksKeepThem ==
  ASSUME StampIsTheLastVerdict, ChipIsEarned, Clicks
  PROVE  StampIsTheLastVerdict' /\ ChipIsEarned'
<1>1. CASE Go \/ Tamper
  BY <1>1 DEF Go, Tamper, PostRun, Paint, Stage, StampIsTheLastVerdict, ChipIsEarned
<1>2. CASE Fresh
  BY <1>2 DEF Fresh, Paint, Stage, StampIsTheLastVerdict, ChipIsEarned
<1>3. CASE AskWalk \/ Clear
  <2>1. UNCHANGED <<stage, takeover, chip, last>>
    BY <1>3 DEF AskWalk, Clear, screen
  <2>2. QED
    BY <2>1, ScreenUnchanged
<1>4. CASE ClearTimer
  BY <1>4 DEF ClearTimer, Paint, Stage, StampIsTheLastVerdict, ChipIsEarned
<1>5. QED
  BY <1>1, <1>2, <1>3, <1>4 DEF Clicks

LEMMA StepKeepsThem ==
  ASSUME StampIsTheLastVerdict, ChipIsEarned, [Next]_vars
  PROVE  StampIsTheLastVerdict' /\ ChipIsEarned'
<1>1. CASE UNCHANGED vars
  BY <1>1, ScreenUnchanged DEF vars
<1>2. QED
  BY <1>1, WorkerKeepsTheScreen, MessagesKeepThem, ClicksKeepThem DEF Next

(* Nothing but the last verdict is ever under an uncovered stamp, for any  *)
(* number of overlapping runs (index.html l.719-745, 790-869).             *)
THEOREM TheStampIsTheLastVerdict == Spec => []StampIsTheLastVerdict
  BY StampAndChipInitially, StepKeepsThem, PTL DEF Spec

(* The chip says FULL or CACHED only while the last verdict earned it.     *)
THEOREM TheChipIsEarned == Spec => []ChipIsEarned
  BY StampAndChipInitially, StepKeepsThem, PTL DEF Spec

----------------------------------------------------------------------------
(* What travels between the page and its worker.                           *)
Levels == {"full", "cached"}

Letters ==
    [type : {"probe"}, warm : BOOLEAN, able : BOOLEAN]
    \cup [type : {"stage", "matrix", "walking", "walk-failed"}]
    \cup [type : {"walked"}, says : {"in chain", "not shown"}, by : 1..Runs]
    \cup [type : {"failed"}, run : 1..Runs, tamper : BOOLEAN]
    \cup [type : {"stale"}, run : 1..Runs]
    \cup VerifiedLetter

Orders ==
    [type : {"run"}, run : 1..Runs, tamper : BOOLEAN] \cup [type : {"walk"}, walk : 1..Walks]

WorkerTips == [run : 1..Runs, height : Heights]

Workers ==
    [at : [1..Runs -> {"unasked", "loading", "scanned", "over"}],
     tamper : [1..Runs -> BOOLEAN],
     from : [1..Walks -> WorkerTips \cup {None}],
     tip : WorkerTips \cup {None}]

Typed == TypeOK /\ inbox \in Seq(Letters) /\ posted \in Seq(Orders) /\ worker \in Workers

----------------------------------------------------------------------------
(* Walks.  When the page has handled the first n letters, a form on its    *)
(* screen is that of run r's result: the last verified letter among them   *)
(* is r's, or there is none and the result on the screen by now is.        *)
IsVerified(m) == m.type = "verified"

ResultAfter(q, form, s, n, r) ==
    \/ \E k \in 1..n :
        /\ IsVerified(q[k]) /\ q[k].run = r
        /\ \A j \in (k + 1)..n : ~IsVerified(q[j])
    \/ /\ \A j \in 1..n : ~IsVerified(q[j])
       /\ form # NoWalk => s.of.run = r

ClaimsOf(m, r) == m.type = "walked" /\ m.says = "in chain" /\ m.by = r

(* A claim that a block is in the chain is handled under the result of the *)
(* run whose tip made it, and so would be one that the worker made now.    *)
ClaimsFit(q, form, s) ==
    \A i \in 1..Len(q) : \A r \in 1..Runs :
        ClaimsOf(q[i], r) => ResultAfter(q, form, s, i - 1, r)

TipFits(q, form, s, tip) ==
    tip # None => ResultAfter(q, form, s, Len(q), tip.run)

(* The page has painted "replaying" before it handles a verified letter.   *)
Heralded(q, s) ==
    \A i \in 1..Len(q) : IsVerified(q[i]) =>
        IF i = 1 THEN s.kind # "result" ELSE q[i - 1].type = "stage"

InOrder(q, form, s, tip) ==
    ClaimsFit(q, form, s) /\ TipFits(q, form, s, tip) /\ Heralded(q, s)

WalkInv == Typed /\ InOrder(inbox, walkout, stage, worker.tip) /\ WalkUnderItsResult

----------------------------------------------------------------------------
(* Runs.                                                                   *)
Answers(m, r) == m.type \in Verdict /\ m.run = r

(* A verdict is on its way once at most, and only of a run that is over.   *)
VerdictsOnce(q, at, n) ==
    /\ \A i \in 1..Len(q) : \A r \in 1..Runs :
        Answers(q[i], r) => r <= n /\ at[r] = "over"
    /\ \A i, j \in 1..Len(q) : \A r \in 1..Runs :
        Answers(q[i], r) /\ Answers(q[j], r) => i = j

(* An order for a run is on its way once at most, until the run is taken.  *)
OrdersOnce(p, at, n) ==
    /\ \A i \in 1..Len(p) : p[i].type = "run" => p[i].run <= n /\ at[p[i].run] = "unasked"
    /\ \A i, j \in 1..Len(p) :
        p[i].type = "run" /\ p[j].type = "run" /\ p[i].run = p[j].run => i = j

OnlyAsked(at, n) == \A r \in 1..Runs : r > n => at[r] = "unasked"

ProbeFirst(q) == \A i \in 1..Len(q) : q[i].type = "probe" => i = 1

Probes(q) == {i \in 1..Len(q) : q[i].type = "probe"}

(* The answers a page still waits for.                                     *)
Due(q, at, n) ==
    {r \in 1..n : at[r] # "over" \/ \E i \in DOMAIN q : Answers(q[i], r)}

(* Buttons are only on the stage when nothing is due, and at most one      *)
(* verdict is.  The probe is answered first, on a blank stage.             *)
Buttons == {"consent", "ready", "result", "stale"}

Calm(kind, job, due, q, n) ==
    /\ kind \in Buttons => due = {}
    /\ job <=> due # {}
    /\ \A a, b \in due : a = b
    /\ Probes(q) # {} => n = 0 /\ kind = "blank"

OneAtATime == Calm(stage.kind, jobRunning, Due(inbox, worker.at, runs), inbox, runs)

InMail(q, p, at, n) ==
    VerdictsOnce(q, at, n) /\ OrdersOnce(p, at, n) /\ OnlyAsked(at, n) /\ ProbeFirst(q)

RunsInv ==
    /\ Typed /\ InMail(inbox, posted, worker.at, runs)
    /\ clears = 0 => OneAtATime

----------------------------------------------------------------------------
(* Types: of the letters and orders too, since the page reads them.        *)
LEMMA PageConstantsUsed ==
    /\ Runs \in Nat /\ Walks \in Nat /\ Clears \in Nat /\ Heights \subseteq Nat
    /\ None \notin VerifiedLetter
BY PageConstants

LEMMA LettersWritten ==
    ASSUME NEW r \in 1..Runs, NEW tamper \in BOOLEAN, NEW height \in Heights,
           NEW trust \in {"full", "cached"}, NEW says \in {"in chain", "not shown"}
    PROVE  /\ Replay \in Letters /\ [type |-> "matrix"] \in Letters
           /\ [type |-> "walking"] \in Letters /\ [type |-> "walk-failed"] \in Letters
           /\ [type |-> "walked", says |-> says, by |-> r] \in Letters
           /\ [type |-> "failed", run |-> r, tamper |-> tamper] \in Letters
           /\ [type |-> "stale", run |-> r] \in Letters
           /\ [type |-> "verified", run |-> r, tamper |-> tamper, height |-> height,
               trust |-> trust] \in Letters
BY DEF Letters, Replay, VerifiedLetter

LEMMA PlainLetters ==
    /\ Replay \in Letters /\ [type |-> "matrix"] \in Letters
    /\ [type |-> "walking"] \in Letters /\ [type |-> "walk-failed"] \in Letters
BY DEF Letters, Replay

LEMMA LettersRead ==
    ASSUME NEW m \in Letters
    PROVE  /\ m.type = "verified" => m \in VerifiedLetter
           /\ m.type = "probe" => m.warm \in BOOLEAN /\ m.able \in BOOLEAN
           /\ m.type \in {"failed", "verified"} => m.tamper \in BOOLEAN
           /\ m.type \in Verdict => m.run \in 1..Runs
           /\ m.type = "walked" => m.by \in 1..Runs
BY DEF Letters, VerifiedLetter, Verdict

LEMMA OneMore ==
    ASSUME NEW S, NEW q \in Seq(S), NEW m \in S
    PROVE  Append(q, m) \in Seq(S) /\ q \o <<m>> = Append(q, m)
OBVIOUS

LEMMA TwoMore ==
    ASSUME NEW S, NEW q \in Seq(S), NEW m \in S, NEW x \in S
    PROVE  /\ q \o <<m, x>> = Append(Append(q, m), x)
           /\ Append(Append(q, m), x) \in Seq(S)
OBVIOUS

LEMMA OneLess ==
    ASSUME NEW S, NEW q \in Seq(S), q # <<>>
    PROVE  /\ Tail(q) \in Seq(S) /\ Head(q) = q[1] /\ q[1] \in S
           /\ Len(q) \in Nat \ {0} /\ Len(Tail(q)) = Len(q) - 1
           /\ \A i \in 1..Len(Tail(q)) : Tail(q)[i] = q[i + 1]
OBVIOUS

LEMMA TypedInit == Init => Typed
<1> SUFFICES ASSUME Init PROVE Typed
  OBVIOUS
<1>1. TypeOK
  <2>1. /\ stage.kind = "blank" /\ stage.of = None /\ walkout = NoWalk /\ last.type = "none"
        /\ takeover = "none" /\ chip = "unknown"
    BY DEF Init, Stage
  <2>2. /\ jobRunning \in BOOLEAN /\ clearable \in BOOLEAN /\ clears \in 0..Clears
        /\ timers \in 0..clears /\ runs \in 0..Runs /\ walks \in 0..Walks
    <3>1. /\ jobRunning = FALSE /\ clearable = FALSE /\ clears = 0 /\ timers = 0
          /\ runs = 0 /\ walks = 0
      BY DEF Init
    <3>2. 0 \in 0..Clears /\ 0 \in 0..0 /\ 0 \in 0..Runs /\ 0 \in 0..Walks
      BY PageConstantsUsed
    <3> QED
      BY <3>1, <3>2, Zenon
  <2> QED
    BY <2>1, <2>2 DEF TypeOK
<1>2. PICK warm, able \in BOOLEAN : inbox = <<[type |-> "probe", warm |-> warm, able |-> able]>>
  BY DEF Init
<1>3. [type |-> "probe", warm |-> warm, able |-> able] \in Letters
  BY DEF Letters
<1>4. inbox \in Seq(Letters) /\ posted \in Seq(Orders)
  BY <1>2, <1>3 DEF Init
<1>5. worker \in Workers
  BY DEF Init, Workers
<1> QED
  BY <1>1, <1>4, <1>5 DEF Typed

(* The worker's steps.                                                     *)
LEMMA PageWaits ==
    ASSUME TypeOK, EngineWorker
    PROVE  TypeOK' /\ UNCHANGED <<stage, walkout, takeover, jobRunning, clears, runs>>
<1>1. UNCHANGED PageVars
  BY DEF EngineWorker, RunTaken, WalkTaken, MatrixScanned, RunFails, RunIsStale,
         RunVerifies, WalkAnswered
<1> QED
  BY <1>1 DEF PageVars, screen, storageRow, TypeOK

LEMMA WorkerFields ==
    ASSUME NEW x \in Workers
    PROVE  /\ x.at \in [1..Runs -> {"unasked", "loading", "scanned", "over"}]
           /\ x.tamper \in [1..Runs -> BOOLEAN]
           /\ x.from \in [1..Walks -> WorkerTips \cup {None}]
           /\ x.tip \in WorkerTips \cup {None}
BY DEF Workers

LEMMA RunMoves ==
    ASSUME NEW x \in Workers, NEW r \in 1..Runs,
           NEW pc \in {"unasked", "loading", "scanned", "over"}
    PROVE  /\ [x EXCEPT !.at[r] = pc] \in Workers
           /\ [x EXCEPT !.at[r] = pc].at = [x.at EXCEPT ![r] = pc]
           /\ [x EXCEPT !.at[r] = pc].tip = x.tip
BY DEF Workers

LEMMA WalkMoves ==
    ASSUME NEW x \in Workers, NEW w \in 1..Walks, NEW t \in WorkerTips \cup {None}
    PROVE  /\ [x EXCEPT !.from[w] = t] \in Workers
           /\ [x EXCEPT !.from[w] = t].at = x.at
           /\ [x EXCEPT !.from[w] = t].tip = x.tip
BY DEF Workers

LEMMA OrdersRead ==
    ASSUME NEW m \in Orders
    PROVE  /\ m.type = "run" => m.run \in 1..Runs /\ m.tamper \in BOOLEAN
           /\ m.type = "walk" => m.walk \in 1..Walks
BY DEF Orders

(* What each step of the worker does to its queues and its runs.           *)
LEMMA RunTakenIs ==
    ASSUME Typed, RunTaken
    PROVE  /\ posted # <<>> /\ posted[1].type = "run" /\ posted[1].run \in 1..Runs
           /\ posted' = Tail(posted) /\ inbox' = inbox
           /\ worker' \in Workers /\ worker'.tip = None
           /\ worker'.at = [worker.at EXCEPT ![posted[1].run] = "loading"]
<1>1. posted # <<>> /\ posted[1].type = "run" /\ posted[1] \in Orders /\ Head(posted) = posted[1]
  BY OneLess DEF Typed, RunTaken
<1>2. posted[1].run \in 1..Runs /\ posted[1].tamper \in BOOLEAN
  BY <1>1, OrdersRead
<1> DEFINE r == posted[1].run
           b == posted[1].tamper
<1>3. worker' = [worker EXCEPT !.at[r] = "loading", !.tamper[r] = b, !.tip = None]
  BY <1>1 DEF RunTaken
<1> HIDE DEF r, b
<1>4. worker' \in Workers /\ worker'.tip = None /\ worker'.at = [worker.at EXCEPT ![r] = "loading"]
  BY <1>2, <1>3 DEF Typed, Workers, r, b
<1> QED
  BY <1>1, <1>2, <1>4 DEF RunTaken, r

LEMMA MatrixScannedIs ==
    ASSUME Typed, NEW r \in 1..Runs, MatrixScanned(r)
    PROVE  /\ worker' \in Workers /\ worker'.tip = worker.tip
           /\ worker.at[r] = "loading" /\ worker'.at = [worker.at EXCEPT ![r] = "scanned"]
           /\ inbox' = Append(inbox, [type |-> "matrix"]) /\ posted' = posted
BY RunMoves DEF Typed, MatrixScanned, Posts

LEMMA RunEndsIs ==
    ASSUME Typed, NEW r \in 1..Runs, RunFails(r) \/ RunIsStale(r)
    PROVE  /\ worker' \in Workers /\ worker'.tip = worker.tip
           /\ worker.at[r] \in {"loading", "scanned"}
           /\ worker'.at = [worker.at EXCEPT ![r] = "over"] /\ posted' = posted
           /\ \E m \in Letters :
                /\ m.type \in {"failed", "stale"} /\ m.run = r
                /\ inbox' = Append(inbox, m) \/ inbox' = Append(Append(inbox, Replay), m)
<1>1. /\ worker' = [worker EXCEPT !.at[r] = "over"] /\ posted' = posted
      /\ worker.at[r] \in {"loading", "scanned"}
  BY DEF RunFails, RunIsStale
<1>2. /\ worker' \in Workers /\ worker'.tip = worker.tip
      /\ worker'.at = [worker.at EXCEPT ![r] = "over"]
  BY <1>1, RunMoves DEF Typed
<1>3. CASE RunFails(r)
  <2> DEFINE m == [type |-> "failed", run |-> r, tamper |-> worker.tamper[r]]
  <2>1. m \in Letters /\ m.type = "failed" /\ m.run = r
    BY WorkerFields DEF Typed, Letters
  <2>2. inbox' \in {inbox \o <<m>>, inbox \o <<Replay, m>>}
    BY <1>3 DEF RunFails
  <2> HIDE DEF m
  <2>3. inbox' = Append(inbox, m) \/ inbox' = Append(Append(inbox, Replay), m)
    BY <2>1, <2>2, PlainLetters, OneMore, TwoMore DEF Typed
  <2> QED
    BY <1>1, <1>2, <2>1, <2>3
<1>4. CASE RunIsStale(r)
  <2> DEFINE m == [type |-> "stale", run |-> r]
  <2>1. m \in Letters /\ m.type = "stale" /\ m.run = r
    BY DEF Letters
  <2>2. inbox' = inbox \o <<Replay, m>>
    BY <1>4 DEF RunIsStale
  <2> HIDE DEF m
  <2>3. inbox' = Append(Append(inbox, Replay), m)
    BY <2>1, <2>2, PlainLetters, TwoMore DEF Typed
  <2> QED
    BY <1>1, <1>2, <2>1, <2>3
<1> QED
  BY <1>3, <1>4

LEMMA RunVerifiesIs ==
    ASSUME Typed, NEW r \in 1..Runs, NEW height \in Heights, NEW trust \in {"full", "cached"},
           RunVerifies(r, height, trust)
    PROVE  /\ worker' \in Workers /\ worker'.tip.run = r
           /\ worker.at[r] \in {"loading", "scanned"}
           /\ worker'.at = [worker.at EXCEPT ![r] = "over"] /\ posted' = posted
           /\ \E m \in VerifiedLetter :
                m.run = r /\ inbox' = Append(Append(inbox, Replay), m)
<1> DEFINE m == [type |-> "verified", run |-> r, tamper |-> worker.tamper[r],
                 height |-> height, trust |-> trust]
           t == [run |-> r, height |-> height]
<1>1. m \in VerifiedLetter /\ m.run = r
  BY WorkerFields DEF Typed, VerifiedLetter
<1>2. inbox' = inbox \o <<Replay, m>>
  BY DEF RunVerifies
<1>3. t \in WorkerTips /\ t.run = r
  BY DEF WorkerTips
<1>4. worker' = [worker EXCEPT !.at[r] = "over", !.tip = t] /\ posted' = posted
  BY DEF RunVerifies
<1>5. worker.at[r] \in {"loading", "scanned"}
  BY DEF RunVerifies
<1> HIDE DEF m, t
<1>6. worker' \in Workers /\ worker'.tip = t /\ worker'.at = [worker.at EXCEPT ![r] = "over"]
  BY <1>3, <1>4 DEF Typed, Workers
<1>7. m \in Letters
  BY <1>1 DEF Letters
<1>8. inbox' = Append(Append(inbox, Replay), m)
  BY <1>2, <1>7, PlainLetters, TwoMore DEF Typed
<1> QED
  BY <1>1, <1>3, <1>4, <1>5, <1>6, <1>8

LEMMA WalkTakenIs ==
    ASSUME Typed, WalkTaken
    PROVE  /\ posted # <<>> /\ posted[1].type = "walk" /\ posted' = Tail(posted)
           /\ worker' \in Workers /\ worker'.tip = worker.tip /\ worker'.at = worker.at
           /\ \E m \in Letters :
                m.type \in {"walk-failed", "walking"} /\ inbox' = Append(inbox, m)
<1>1. posted # <<>> /\ posted[1].type = "walk" /\ posted[1] \in Orders /\ Head(posted) = posted[1]
  BY OneLess DEF Typed, WalkTaken
<1>2. posted[1].walk \in 1..Walks
  BY <1>1, OrdersRead
<1>3. worker.tip \in WorkerTips \cup {None}
  BY WorkerFields DEF Typed
<1>4. worker' = worker \/ worker' = [worker EXCEPT !.from[posted[1].walk] = worker.tip]
  BY <1>1 DEF WalkTaken
<1>5. worker' \in Workers /\ worker'.tip = worker.tip /\ worker'.at = worker.at
  <2> DEFINE w == posted[1].walk
             t == worker.tip
  <2>1. w \in 1..Walks /\ t \in WorkerTips \cup {None} /\ worker \in Workers
    BY <1>2, <1>3 DEF Typed
  <2>2. worker' = worker \/ worker' = [worker EXCEPT !.from[w] = t]
    BY <1>4
  <2> HIDE DEF w, t
  <2>3. CASE worker' = worker
    BY <2>1, <2>3
  <2>4. CASE worker' = [worker EXCEPT !.from[w] = t]
    BY <2>1, <2>4, WalkMoves
  <2> QED
    BY <2>2, <2>3, <2>4
<1>6. \E m \in Letters : m.type \in {"walk-failed", "walking"} /\ inbox' = Append(inbox, m)
  BY PlainLetters DEF WalkTaken, Posts
<1> QED
  BY <1>1, <1>5, <1>6 DEF WalkTaken

LEMMA WalkAnsweredIs ==
    ASSUME Typed, NEW w \in 1..Walks, WalkAnswered(w)
    PROVE  /\ posted' = posted
           /\ worker' \in Workers /\ worker'.tip = worker.tip /\ worker'.at = worker.at
           /\ \E m \in Letters :
                /\ m.type \in {"walk-failed", "walked"} /\ inbox' = Append(inbox, m)
                /\ m.type = "walked" => worker.tip # None /\ m.by = worker.tip.run
<1>1. worker' = [worker EXCEPT !.from[w] = None] /\ posted' = posted
  BY DEF WalkAnswered
<1>2. worker' \in Workers /\ worker'.tip = worker.tip /\ worker'.at = worker.at
  BY <1>1, WalkMoves DEF Typed
<1>3. worker.tip # None => worker.tip.run \in 1..Runs
  BY WorkerFields DEF Typed, WorkerTips
<1>4. CASE inbox' = Append(inbox, [type |-> "walk-failed"])
  BY <1>1, <1>2, <1>4, PlainLetters
<1>5. ASSUME worker.tip # None, NEW says \in {"in chain", "not shown"},
             inbox' = Append(inbox, [type |-> "walked", says |-> says, by |-> worker.tip.run])
      PROVE  \E m \in Letters :
                /\ m.type \in {"walk-failed", "walked"} /\ inbox' = Append(inbox, m)
                /\ m.type = "walked" => worker.tip # None /\ m.by = worker.tip.run
  <2> DEFINE m == [type |-> "walked", says |-> says, by |-> worker.tip.run]
  <2>1. m \in Letters /\ m.type = "walked" /\ m.by = worker.tip.run
    BY <1>3, <1>5 DEF Letters
  <2> QED
    BY <1>5, <2>1
<1> QED
  BY <1>1, <1>2, <1>4, <1>5 DEF WalkAnswered, Posts

LEMMA LettersMore ==
    ASSUME NEW q \in Seq(Letters), NEW m \in Letters
    PROVE  Append(q, m) \in Seq(Letters) /\ Append(Append(q, Replay), m) \in Seq(Letters)
BY PlainLetters, OneMore

LEMMA OrdersLess ==
    ASSUME NEW q \in Seq(Orders), q # <<>>
    PROVE  Tail(q) \in Seq(Orders)
BY OneLess

LEMMA TypedAgain ==
    ASSUME TypeOK', inbox' \in Seq(Letters), posted' \in Seq(Orders), worker' \in Workers
    PROVE  Typed'
BY DEF Typed

LEMMA WorkerTyped ==
    ASSUME Typed, EngineWorker
    PROVE  Typed'
<1>0. TypeOK'
  BY PageWaits DEF Typed
<1>1. inbox \in Seq(Letters) /\ posted \in Seq(Orders)
  BY DEF Typed
<1>2. VerifiedLetter \subseteq Letters
  BY DEF Letters
<1>3. CASE RunTaken
  <2>1. inbox' \in Seq(Letters) /\ posted' \in Seq(Orders) /\ worker' \in Workers
    BY <1>1, <1>3, RunTakenIs, OrdersLess
  <2> QED
    BY <1>0, <2>1, TypedAgain
<1>4. CASE WalkTaken
  <2>1. inbox' \in Seq(Letters) /\ posted' \in Seq(Orders) /\ worker' \in Workers
    BY <1>1, <1>4, WalkTakenIs, OrdersLess, LettersMore
  <2> QED
    BY <1>0, <2>1, TypedAgain
<1>5. ASSUME NEW r \in 1..Runs, MatrixScanned(r) PROVE Typed'
  <2>1. inbox' \in Seq(Letters) /\ posted' \in Seq(Orders) /\ worker' \in Workers
    BY <1>1, <1>5, MatrixScannedIs, PlainLetters, LettersMore
  <2> QED
    BY <1>0, <2>1, TypedAgain
<1>6. ASSUME NEW r \in 1..Runs, RunFails(r) \/ RunIsStale(r) PROVE Typed'
  <2>1. inbox' \in Seq(Letters) /\ posted' \in Seq(Orders) /\ worker' \in Workers
    <3>1. PICK m \in Letters :
            inbox' = Append(inbox, m) \/ inbox' = Append(Append(inbox, Replay), m)
      BY <1>6, RunEndsIs
    <3>2. posted' = posted /\ worker' \in Workers
      BY <1>6, RunEndsIs
    <3> QED
      BY <1>1, <3>1, <3>2, LettersMore
  <2> QED
    BY <1>0, <2>1, TypedAgain
<1>7. ASSUME NEW r \in 1..Runs, NEW height \in Heights, NEW trust \in {"full", "cached"},
             RunVerifies(r, height, trust)
      PROVE  Typed'
  <2>1. inbox' \in Seq(Letters) /\ posted' \in Seq(Orders) /\ worker' \in Workers
    <3>1. PICK m \in VerifiedLetter : inbox' = Append(Append(inbox, Replay), m)
      BY <1>7, RunVerifiesIs
    <3>2. posted' = posted /\ worker' \in Workers
      BY <1>7, RunVerifiesIs
    <3> QED
      BY <1>1, <1>2, <3>1, <3>2, LettersMore
  <2> QED
    BY <1>0, <2>1, TypedAgain
<1>8. ASSUME NEW w \in 1..Walks, WalkAnswered(w) PROVE Typed'
  <2>1. inbox' \in Seq(Letters) /\ posted' \in Seq(Orders) /\ worker' \in Workers
    BY <1>1, <1>8, WalkAnsweredIs, LettersMore
  <2> QED
    BY <1>0, <2>1, TypedAgain
<1> QED
  BY <1>3, <1>4, <1>5, <1>6, <1>7, <1>8 DEF EngineWorker

(* The page's handlers.                                                    *)
ScreenTyped ==
    /\ stage.kind \in {"blank", "unavailable", "consent", "ready", "phases",
                       "replaying", "result", "stale"}
    /\ stage.of # None <=> stage.kind = "result"
    /\ walkout # NoWalk => stage.kind = "result"
    /\ takeover \in {"none", "failed", "rejected", "accepted"}
    /\ chip \in {"unknown", "full", "cached"} /\ jobRunning \in BOOLEAN
    /\ clearable \in BOOLEAN /\ last.type \in Verdict \cup {"none"}

CountersTyped ==
    /\ clears \in 0..Clears /\ timers \in 0..clears /\ runs \in 0..Runs /\ walks \in 0..Walks

LEMMA TypeOKSplits == TypeOK <=> ScreenTyped /\ CountersTyped
BY DEF TypeOK, ScreenTyped, CountersTyped

LEMMA TypeOKSplitsNext == (ScreenTyped /\ CountersTyped)' <=> TypeOK'
BY DEF TypeOK, ScreenTyped, CountersTyped

LEMMA MessageTaken ==
    ASSUME Typed, Messages
    PROVE  /\ inbox # <<>> /\ inbox[1] \in Letters /\ Head(inbox) = inbox[1]
           /\ inbox' = Tail(inbox) /\ inbox' \in Seq(Letters)
           /\ UNCHANGED <<clears, timers, posted, runs, walks, worker>>
<1>1. inbox # <<>> /\ inbox' = Tail(inbox)
  BY DEF Messages, ProbeAnswered, MatrixShown, ReplayShown, AlarmShown, VerifiedShown,
         StaleShown, FailedShown, WalkShown, Received
<1>2. UNCHANGED <<clears, timers, posted, runs, walks, worker>>
  BY DEF Messages, ProbeAnswered, MatrixShown, ReplayShown, AlarmShown, VerifiedShown,
         StaleShown, FailedShown, WalkShown, WorkerVars, storageRow
<1> QED
  BY <1>1, <1>2, OneLess DEF Typed

(* Painting anything but a result.                                         *)
LEMMA PaintIs ==
    ASSUME NEW kind, Paint(Stage(kind))
    PROVE  stage'.kind = kind /\ stage'.of = None /\ walkout' = NoWalk
BY DEF Paint, Stage

LEMMA WalkFormStays ==
    ASSUME NEW says, NEW by, NEW busy, WalkOut(says, by, busy)
    PROVE  /\ walkout = NoWalk => walkout' = NoWalk
           /\ walkout # NoWalk => walkout' = [says |-> says, by |-> by, busy |-> busy]
BY DEF WalkOut

LEMMA MessagesTyped ==
    ASSUME Typed, Messages
    PROVE  Typed'
<1> DEFINE m == inbox[1]
<1>0. /\ m \in Letters /\ Head(inbox) = m /\ inbox' \in Seq(Letters)
      /\ UNCHANGED <<clears, timers, posted, runs, walks, worker>>
  BY MessageTaken
<1>1. /\ m.type = "verified" => m \in VerifiedLetter
      /\ m.type = "probe" => m.warm \in BOOLEAN /\ m.able \in BOOLEAN
      /\ m.type \in {"failed", "verified"} => m.tamper \in BOOLEAN
  BY <1>0, LettersRead
<1>2. ScreenTyped /\ CountersTyped
  BY TypeOKSplits DEF Typed
<1>3. CountersTyped'
  BY <1>0, <1>2 DEF CountersTyped
<1> HIDE DEF m
<1> SUFFICES ScreenTyped'
  <2>1. posted' \in Seq(Orders) /\ worker' \in Workers
    BY <1>0 DEF Typed
  <2> QED
    BY <1>0, <1>3, <2>1, TypeOKSplitsNext, TypedAgain
<1>4. CASE ProbeAnswered
  <2>1. /\ \/ Paint(Stage("ready")) \/ Paint(Stage("consent")) \/ Paint(Stage("unavailable"))
        /\ clearable' \in BOOLEAN
    BY <1>2, <1>4 DEF ProbeAnswered, ScreenTyped
  <2>2. UNCHANGED <<takeover, chip, jobRunning, last>>
    BY <1>4 DEF ProbeAnswered
  <2>3. ScreenTyped'
    BY <1>2, <2>1, <2>2, PaintIs DEF ScreenTyped
  <2> QED
    BY <2>3
<1>5. CASE MatrixShown
  <2>1. ScreenTyped'
    BY <1>2, <1>5 DEF MatrixShown, screen, ScreenTyped
  <2> QED
    BY <2>1
<1>6. CASE ReplayShown
  <2>1. Paint(Stage("replaying")) /\ UNCHANGED <<takeover, chip, jobRunning, last, clearable>>
    BY <1>6 DEF ReplayShown, storageRow
  <2>2. ScreenTyped'
    BY <1>2, <2>1, PaintIs DEF ScreenTyped
  <2> QED
    BY <2>2
<1>7. CASE AlarmShown
  <2>1. m.type = "verified" /\ last' = m
    BY <1>0, <1>7 DEF AlarmShown, Received
  <2>2. ScreenTyped'
    BY <1>2, <1>7, <2>1 DEF AlarmShown, storageRow, ScreenTyped, Verdict
  <2> QED
    BY <2>2
<1>8. CASE VerifiedShown
  <2>1. /\ m.type = "verified" /\ last' = m /\ chip' = m.trust
        /\ stage' = [kind |-> "result", of |-> m]
    BY <1>0, <1>8 DEF VerifiedShown, Received
  <2>2. m # None /\ m.trust \in {"full", "cached"}
    BY <1>1, <2>1, PageConstantsUsed DEF VerifiedLetter
  <2>3. stage'.kind = "result" /\ stage'.of # None
    BY <2>1, <2>2
  <2>4. ScreenTyped'
    BY <1>2, <1>8, <2>1, <2>2, <2>3 DEF VerifiedShown, storageRow, ScreenTyped, Verdict
  <2> QED
    BY <2>4
<1>9. CASE StaleShown
  <2>1. /\ Paint(Stage("stale")) /\ last' = m /\ m.type = "stale"
        /\ chip' = "unknown" /\ jobRunning' = FALSE /\ UNCHANGED <<takeover, clearable>>
    BY <1>0, <1>9 DEF StaleShown, storageRow, Received
  <2>2. ScreenTyped'
    BY <1>2, <2>1, PaintIs DEF ScreenTyped, Verdict
  <2> QED
    BY <2>2
<1>10. CASE FailedShown
  <2>1. m.type = "failed" /\ last' = m
    BY <1>0, <1>10 DEF FailedShown, Received
  <2>2. ScreenTyped'
    BY <1>2, <1>10, <2>1 DEF FailedShown, storageRow, ScreenTyped, Verdict
  <2> QED
    BY <2>2
<1>11. CASE WalkShown
  <2>1. walkout = NoWalk => walkout' = NoWalk
    BY <1>11, WalkFormStays DEF WalkShown
  <2>2. ScreenTyped'
    BY <1>2, <1>11, <2>1 DEF WalkShown, storageRow, ScreenTyped
  <2> QED
    BY <2>2
<1> QED
  BY <1>4, <1>5, <1>6, <1>7, <1>8, <1>9, <1>10, <1>11 DEF Messages

(* The clicks and the timer.                                               *)
LEMMA PostRunIs ==
    ASSUME Typed, NEW tamper \in BOOLEAN, PostRun(tamper)
    PROVE  /\ stage'.kind = "phases" /\ stage'.of = None /\ walkout' = NoWalk
           /\ runs < Runs /\ runs' = runs + 1 /\ runs' \in 1..Runs /\ runs' \in 0..Runs
           /\ chip' = "unknown" /\ jobRunning' = TRUE
           /\ UNCHANGED <<takeover, storageRow, inbox, walks, worker, last>>
           /\ \E m \in Orders : m.type = "run" /\ m.run = runs' /\ posted' = Append(posted, m)
<1>1. runs < Runs /\ runs' = runs + 1 /\ runs' \in 1..Runs /\ runs' \in 0..Runs
  BY PageConstantsUsed, TypeOKSplits DEF Typed, CountersTyped, PostRun
<1> DEFINE m == [type |-> "run", run |-> runs', tamper |-> tamper]
<1>2. m \in Orders /\ m.type = "run" /\ m.run = runs'
  BY <1>1 DEF Orders
<1>3. posted' = Append(posted, m)
  BY <1>1 DEF PostRun
<1> HIDE DEF m
<1>4. stage'.kind = "phases" /\ stage'.of = None /\ walkout' = NoWalk
  BY PaintIs DEF PostRun
<1> QED
  BY <1>1, <1>2, <1>3, <1>4 DEF PostRun

LEMMA AskWalkIs ==
    ASSUME Typed, AskWalk
    PROVE  /\ walkout # NoWalk /\ walkout' = [walkout EXCEPT !.busy = TRUE]
           /\ walks' \in 0..Walks
           /\ UNCHANGED <<stage, takeover, chip, jobRunning, storageRow, inbox, runs, worker, last>>
           /\ \E m \in Orders : m.type = "walk" /\ posted' = Append(posted, m)
<1>1. walks' = walks + 1 /\ walks' \in 1..Walks
  BY PageConstantsUsed, TypeOKSplits DEF Typed, CountersTyped, AskWalk
<1> DEFINE m == [type |-> "walk", walk |-> walks']
<1>2. m \in Orders /\ m.type = "walk"
  BY <1>1 DEF Orders
<1>3. posted' = Append(posted, m)
  BY <1>1 DEF AskWalk
<1> HIDE DEF m
<1>4. walks' \in 0..Walks
  BY <1>1
<1> QED
  BY <1>2, <1>3, <1>4 DEF AskWalk

LEMMA ClearIs ==
    ASSUME Typed, Clear
    PROVE  /\ clears' = clears + 1 /\ clears' \in 1..Clears /\ timers' \in 0..clears'
           /\ UNCHANGED <<screen, clearable, inbox, posted, runs, walks, worker, last>>
<1>1. clears' = clears + 1 /\ timers' = timers + 1 /\ clears < Clears
  BY DEF Clear
<1>2. clears \in 0..Clears /\ timers \in 0..clears
  BY TypeOKSplits DEF Typed, CountersTyped
<1>3. clears' \in 1..Clears /\ timers' \in 0..clears'
  BY <1>1, <1>2, PageConstantsUsed
<1> QED
  BY <1>1, <1>3 DEF Clear, WorkerVars

LEMMA ClearTimerIs ==
    ASSUME Typed, ClearTimer
    PROVE  /\ stage'.kind = "consent" /\ stage'.of = None /\ walkout' = NoWalk
           /\ clears' = clears /\ clears # 0 /\ timers' \in 0..clears /\ clearable' \in BOOLEAN
           /\ chip' = "unknown"
           /\ UNCHANGED <<takeover, jobRunning, inbox, posted, runs, walks, worker, last>>
<1>1. timers > 0 /\ timers' = timers - 1 /\ clears' = clears
  BY DEF ClearTimer
<1>2. clears \in 0..Clears /\ timers \in 0..clears
  BY TypeOKSplits DEF Typed, CountersTyped
<1>3. timers' \in 0..clears /\ clears # 0
  BY <1>1, <1>2, PageConstantsUsed
<1>4. stage'.kind = "consent" /\ stage'.of = None /\ walkout' = NoWalk
  BY PaintIs DEF ClearTimer
<1> QED
  BY <1>1, <1>3, <1>4 DEF ClearTimer, WorkerVars

LEMMA FreshIs ==
    ASSUME Fresh
    PROVE  /\ stage.kind \in {"ready", "result"}
           /\ stage'.kind = "consent" /\ stage'.of = None /\ walkout' = NoWalk
           /\ UNCHANGED <<takeover, chip, jobRunning, storageRow, inbox, posted, runs, walks,
                          worker, last>>
<1>1. stage'.kind = "consent" /\ stage'.of = None /\ walkout' = NoWalk
  BY PaintIs DEF Fresh
<1> QED
  BY <1>1 DEF Fresh, WorkerVars

LEMMA OrdersMore ==
    ASSUME NEW q \in Seq(Orders), NEW m \in Orders
    PROVE  Append(q, m) \in Seq(Orders)
BY OneMore

LEMMA ClicksTyped ==
    ASSUME Typed, Clicks
    PROVE  Typed'
<1>0. /\ ScreenTyped /\ CountersTyped /\ inbox \in Seq(Letters) /\ posted \in Seq(Orders)
      /\ worker \in Workers
  BY TypeOKSplits DEF Typed
<1>1. ASSUME NEW tamper \in BOOLEAN, PostRun(tamper)
      PROVE  Typed'
  <2>1. ScreenTyped'
    BY <1>0, <1>1, PostRunIs DEF ScreenTyped, storageRow
  <2>2. runs' \in 0..Runs
    BY <1>1, PostRunIs
  <2>3. CountersTyped'
    BY <1>0, <1>1, <2>2, PostRunIs DEF CountersTyped, storageRow
  <2>4. inbox' \in Seq(Letters) /\ worker' \in Workers /\ posted' \in Seq(Orders)
    BY <1>0, <1>1, PostRunIs, OrdersMore
  <2> QED
    BY <2>1, <2>3, <2>4, TypeOKSplitsNext, TypedAgain
<1>2. CASE AskWalk
  <2>1. ScreenTyped' /\ CountersTyped'
    BY <1>0, <1>2, AskWalkIs DEF ScreenTyped, CountersTyped, storageRow
  <2>2. inbox' \in Seq(Letters) /\ worker' \in Workers /\ posted' \in Seq(Orders)
    BY <1>0, <1>2, AskWalkIs, OrdersMore
  <2> QED
    BY <2>1, <2>2, TypeOKSplitsNext, TypedAgain
<1>3. CASE Fresh
  <2>1. ScreenTyped' /\ CountersTyped'
    BY <1>0, <1>3, FreshIs DEF ScreenTyped, CountersTyped, storageRow
  <2>2. inbox' \in Seq(Letters) /\ worker' \in Workers /\ posted' \in Seq(Orders)
    BY <1>0, <1>3, FreshIs
  <2> QED
    BY <2>1, <2>2, TypeOKSplitsNext, TypedAgain
<1>4. CASE Clear
  <2>1. ScreenTyped'
    BY <1>0, <1>4, ClearIs DEF ScreenTyped, screen
  <2>2. clears' \in 0..Clears
    BY <1>4, ClearIs
  <2>3. CountersTyped'
    BY <1>0, <1>4, <2>2, ClearIs DEF CountersTyped
  <2>4. inbox' \in Seq(Letters) /\ worker' \in Workers /\ posted' \in Seq(Orders)
    BY <1>0, <1>4, ClearIs
  <2> QED
    BY <2>1, <2>3, <2>4, TypeOKSplitsNext, TypedAgain
<1>5. CASE ClearTimer
  <2>1. ScreenTyped'
    BY <1>0, <1>5, ClearTimerIs DEF ScreenTyped
  <2>2. CountersTyped'
    BY <1>0, <1>5, ClearTimerIs DEF CountersTyped
  <2>3. inbox' \in Seq(Letters) /\ worker' \in Workers /\ posted' \in Seq(Orders)
    BY <1>0, <1>5, ClearTimerIs
  <2> QED
    BY <2>1, <2>2, <2>3, TypeOKSplitsNext, TypedAgain
<1> QED
  BY <1>1, <1>2, <1>3, <1>4, <1>5 DEF Clicks, Go, Tamper

LEMMA TypedStep == Typed /\ [Next]_vars => Typed'
<1>1. ASSUME Typed, UNCHANGED vars PROVE Typed'
  <2>1. TypeOK' /\ UNCHANGED <<inbox, posted, worker>>
    BY <1>1 DEF vars, Typed, TypeOK
  <2> QED
    BY <1>1, <2>1 DEF Typed
<1> QED
  BY <1>1, WorkerTyped, MessagesTyped, ClicksTyped DEF Next

----------------------------------------------------------------------------
(* Walks: what the queue says of the results its claims are handled under. *)
LEMMA AppendIs ==
    ASSUME NEW S, NEW q \in Seq(S), NEW m \in S
    PROVE  /\ Len(q) \in Nat /\ Len(Append(q, m)) = Len(q) + 1
           /\ Append(q, m)[Len(q) + 1] = m
           /\ \A i \in 1..Len(q) : Append(q, m)[i] = q[i]
OBVIOUS

LEMMA ResultAfterGrown ==
    ASSUME NEW q \in Seq(Letters), NEW m \in Letters, NEW form, NEW s,
           NEW n \in 0..Len(q), NEW r, ResultAfter(q, form, s, n, r)
    PROVE  ResultAfter(Append(q, m), form, s, n, r)
<1> DEFINE a == Append(q, m)
<1>1. \A j \in 1..n : a[j] = q[j]
  BY AppendIs
<1> HIDE DEF a
<1>2. CASE \E k \in 1..n : /\ IsVerified(q[k]) /\ q[k].run = r
                           /\ \A j \in (k + 1)..n : ~IsVerified(q[j])
  <2>1. PICK k \in 1..n : /\ IsVerified(q[k]) /\ q[k].run = r
                          /\ \A j \in (k + 1)..n : ~IsVerified(q[j])
    BY <1>2
  <2>2. \A j \in (k + 1)..n : j \in 1..n
    BY <2>1
  <2>3. IsVerified(a[k]) /\ a[k].run = r /\ \A j \in (k + 1)..n : ~IsVerified(a[j])
    BY <1>1, <2>1, <2>2
  <2> QED
    BY <2>3 DEF ResultAfter, a
<1>3. CASE (\A j \in 1..n : ~IsVerified(q[j])) /\ (form # NoWalk => s.of.run = r)
  BY <1>1, <1>3 DEF ResultAfter, a
<1> QED
  BY <1>2, <1>3 DEF ResultAfter

LEMMA ResultAfterOneMore ==
    ASSUME NEW q, NEW form, NEW s, NEW n \in Nat, NEW r, ResultAfter(q, form, s, n, r),
           ~IsVerified(q[n + 1])
    PROVE  ResultAfter(q, form, s, n + 1, r)
<1>1. CASE \E k \in 1..n : /\ IsVerified(q[k]) /\ q[k].run = r
                           /\ \A j \in (k + 1)..n : ~IsVerified(q[j])
  <2>1. PICK k \in 1..n : /\ IsVerified(q[k]) /\ q[k].run = r
                          /\ \A j \in (k + 1)..n : ~IsVerified(q[j])
    BY <1>1
  <2>2. k \in 1..(n + 1) /\ \A j \in (k + 1)..(n + 1) : j \in (k + 1)..n \/ j = n + 1
    BY <2>1
  <2>3. \A j \in (k + 1)..(n + 1) : ~IsVerified(q[j])
    BY <2>1, <2>2
  <2> QED
    BY <2>1, <2>2, <2>3 DEF ResultAfter
<1>2. CASE (\A j \in 1..n : ~IsVerified(q[j])) /\ (form # NoWalk => s.of.run = r)
  <2>1. \A j \in 1..(n + 1) : j \in 1..n \/ j = n + 1
    OBVIOUS
  <2>2. \A j \in 1..(n + 1) : ~IsVerified(q[j])
    BY <1>2, <2>1
  <2> QED
    BY <1>2, <2>2 DEF ResultAfter
<1> QED
  BY <1>1, <1>2 DEF ResultAfter

LEMMA ResultIsTheLast ==
    ASSUME NEW q, NEW form, NEW s, NEW n \in Nat \ {0}, IsVerified(q[n])
    PROVE  ResultAfter(q, form, s, n, q[n].run)
<1>1. n \in 1..n /\ \A j \in (n + 1)..n : FALSE
  OBVIOUS
<1> QED
  BY <1>1 DEF ResultAfter

(* A letter that verifies nothing, and claims nothing but what the tip     *)
(* claims, keeps the queue in order.                                       *)
LEMMA InOrderAppend ==
    ASSUME NEW q \in Seq(Letters), NEW m \in Letters, NEW form, NEW s, NEW tip,
           InOrder(q, form, s, tip), ~IsVerified(m),
           \A r \in 1..Runs : ClaimsOf(m, r) => tip # None /\ r = tip.run
    PROVE  InOrder(Append(q, m), form, s, tip)
<1> DEFINE a == Append(q, m)
           n == Len(q)
<1>1. /\ n \in Nat /\ Len(a) = n + 1 /\ a[n + 1] = m
      /\ \A i \in 1..n : a[i] = q[i]
  BY AppendIs
<1>2. /\ ClaimsFit(q, form, s) /\ TipFits(q, form, s, tip) /\ Heralded(q, s)
  BY DEF InOrder
<1>3. \A i \in 0..n : \A r : ResultAfter(q, form, s, i, r) => ResultAfter(a, form, s, i, r)
  BY ResultAfterGrown
<1>4. \A r \in 1..Runs : ClaimsOf(m, r) => ResultAfter(q, form, s, n, r)
  BY <1>2 DEF TipFits
<1> HIDE DEF a
<1>5. ClaimsFit(a, form, s)
  <2>1. ASSUME NEW i \in 1..Len(a), NEW r \in 1..Runs, ClaimsOf(a[i], r)
        PROVE  ResultAfter(a, form, s, i - 1, r)
    <3>1. CASE i = n + 1
      <4>1. i - 1 = n /\ n \in 0..n
        BY <1>1, <3>1
      <4>2. ResultAfter(q, form, s, n, r)
        BY <1>1, <1>4, <2>1, <3>1
      <4> QED
        BY <1>3, <4>1, <4>2
    <3>2. CASE i # n + 1
      <4>1. i \in 1..n /\ i - 1 \in 0..n
        BY <1>1, <3>2
      <4>2. ResultAfter(q, form, s, i - 1, r)
        BY <1>1, <1>2, <2>1, <4>1 DEF ClaimsFit
      <4> QED
        BY <1>3, <4>1, <4>2
    <3> QED
      BY <3>1, <3>2
  <2> QED
    BY <2>1 DEF ClaimsFit
<1>6. TipFits(a, form, s, tip)
  <2> SUFFICES ASSUME tip # None PROVE ResultAfter(a, form, s, n + 1, tip.run)
    BY <1>1 DEF TipFits
  <2>1. n \in 0..n
    BY <1>1
  <2>2. ResultAfter(a, form, s, n, tip.run)
    BY <1>2, <1>3, <2>1 DEF TipFits
  <2>3. ~IsVerified(a[n + 1])
    BY <1>1
  <2> HIDE DEF n
  <2> QED
    BY <1>1, <2>2, <2>3, ResultAfterOneMore
<1>7. Heralded(a, s)
  <2>1. ASSUME NEW i \in 1..Len(a), IsVerified(a[i])
        PROVE  IF i = 1 THEN s.kind # "result" ELSE a[i - 1].type = "stage"
    <3>1. i \in 1..n /\ a[i] = q[i]
      BY <1>1, <2>1
    <3>2. i # 1 => a[i - 1] = q[i - 1]
      BY <1>1, <3>1
    <3> QED
      BY <1>2, <2>1, <3>1, <3>2 DEF Heralded
  <2> QED
    BY <2>1 DEF Heralded
<1> QED
  BY <1>5, <1>6, <1>7 DEF InOrder, a

(* The worker posts a verified letter behind its herald, and has its tip.  *)
LEMMA InOrderVerified ==
    ASSUME NEW q \in Seq(Letters), NEW m \in VerifiedLetter, NEW form, NEW s, NEW tip, NEW tip2,
           InOrder(q, form, s, tip), q # <<>>, q[Len(q)].type = "stage", tip2.run = m.run
    PROVE  InOrder(Append(q, m), form, s, tip2)
<1> DEFINE a == Append(q, m)
           n == Len(q)
<1>0. m \in Letters /\ IsVerified(m)
  BY DEF Letters, VerifiedLetter, IsVerified
<1>1. /\ n \in Nat \ {0} /\ Len(a) = n + 1 /\ a[n + 1] = m
      /\ \A i \in 1..n : a[i] = q[i]
  BY <1>0, AppendIs
<1>2. /\ ClaimsFit(q, form, s) /\ Heralded(q, s)
  BY DEF InOrder
<1>3. \A i \in 0..n : \A r : ResultAfter(q, form, s, i, r) => ResultAfter(a, form, s, i, r)
  BY <1>0, ResultAfterGrown
<1>4. q[n].type = "stage"
  OBVIOUS
<1> HIDE DEF a, n
<1>5. ClaimsFit(a, form, s)
  <2>1. ASSUME NEW i \in 1..Len(a), NEW r \in 1..Runs, ClaimsOf(a[i], r)
        PROVE  ResultAfter(a, form, s, i - 1, r)
    <3>1. i # n + 1
      BY <1>0, <1>1, <2>1 DEF ClaimsOf, IsVerified
    <3>2. i \in 1..n /\ i - 1 \in 0..n
      BY <1>1, <3>1
    <3>3. ResultAfter(q, form, s, i - 1, r)
      BY <1>1, <1>2, <2>1, <3>2 DEF ClaimsFit, n
    <3> QED
      BY <1>3, <3>2, <3>3
  <2> QED
    BY <2>1 DEF ClaimsFit
<1>6. TipFits(a, form, s, tip2)
  <2>1. IsVerified(a[n + 1]) /\ a[n + 1].run = tip2.run /\ n + 1 \in Nat \ {0}
    BY <1>0, <1>1
  <2>2. ResultAfter(a, form, s, n + 1, tip2.run)
    BY <2>1, ResultIsTheLast
  <2> QED
    BY <1>1, <2>2 DEF TipFits
<1>7. Heralded(a, s)
  <2>1. ASSUME NEW i \in 1..Len(a), IsVerified(a[i])
        PROVE  IF i = 1 THEN s.kind # "result" ELSE a[i - 1].type = "stage"
    <3>1. CASE i = n + 1
      <4>1. i # 1 /\ i - 1 = n /\ n \in 1..n
        BY <1>1, <3>1
      <4> QED
        BY <1>1, <1>4, <4>1
    <3>2. CASE i # n + 1
      <4>1. i \in 1..n
        BY <1>1, <3>2
      <4>2. a[i] = q[i] /\ (i # 1 => a[i - 1] = q[i - 1])
        BY <1>1, <4>1
      <4> QED
        BY <1>2, <2>1, <4>1, <4>2 DEF Heralded, n
    <3> QED
      BY <3>1, <3>2
  <2> QED
    BY <2>1 DEF Heralded
<1> QED
  BY <1>5, <1>6, <1>7 DEF InOrder, a

LEMMA InOrderSuperseded ==
    ASSUME NEW q, NEW form, NEW s, NEW tip, InOrder(q, form, s, tip)
    PROVE  InOrder(q, form, s, None)
BY DEF InOrder, TipFits

(* Painting over a result, or writing into its form.                       *)
LEMMA InOrderPainted ==
    ASSUME NEW q, NEW form, NEW s, NEW tip, NEW form2, NEW s2,
           InOrder(q, form, s, tip),
           form2 # NoWalk => form # NoWalk /\ s2.of.run = s.of.run,
           s2.kind = "result" => s.kind = "result"
    PROVE  InOrder(q, form2, s2, tip)
<1>1. ASSUME NEW i, NEW r, ResultAfter(q, form, s, i, r)
      PROVE  ResultAfter(q, form2, s2, i, r)
  BY <1>1 DEF ResultAfter
<1>2. ClaimsFit(q, form2, s2) /\ TipFits(q, form2, s2, tip)
  BY <1>1 DEF InOrder, ClaimsFit, TipFits
<1>3. Heralded(q, s2)
  BY DEF InOrder, Heralded
<1> QED
  BY <1>2, <1>3 DEF InOrder

(* The page handles the first letter.                                      *)
LEMMA ResultAfterShown ==
    ASSUME NEW q \in Seq(Letters), q # <<>>, NEW form, NEW s, NEW form2, NEW s2,
           form2 # NoWalk =>
                IF IsVerified(q[1]) THEN s2.of.run = q[1].run
                ELSE form # NoWalk /\ s2.of.run = s.of.run,
           NEW n \in 0..(Len(q) - 1), NEW r, ResultAfter(q, form, s, n + 1, r)
    PROVE  ResultAfter(Tail(q), form2, s2, n, r)
<1> DEFINE a == Tail(q)
<1>1. Len(q) \in Nat \ {0} /\ \A j \in 1..n : a[j] = q[j + 1]
  BY OneLess
<1> HIDE DEF a
<1>2. CASE \E k \in 1..(n + 1) : /\ IsVerified(q[k]) /\ q[k].run = r
                                 /\ \A j \in (k + 1)..(n + 1) : ~IsVerified(q[j])
  <2>1. PICK k \in 1..(n + 1) : /\ IsVerified(q[k]) /\ q[k].run = r
                                /\ \A j \in (k + 1)..(n + 1) : ~IsVerified(q[j])
    BY <1>2
  <2>2. CASE k = 1
    <3>1. \A j \in 1..n : j + 1 \in (k + 1)..(n + 1)
      BY <2>2
    <3>2. \A j \in 1..n : ~IsVerified(a[j])
      BY <1>1, <2>1, <3>1
    <3>3. form2 # NoWalk => s2.of.run = r
      BY <2>1, <2>2
    <3> QED
      BY <3>2, <3>3 DEF ResultAfter, a
  <2>3. CASE k # 1
    <3>1. PICK l \in 1..n : l + 1 = k
      <4>1. k - 1 \in 1..n /\ (k - 1) + 1 = k
        BY <2>1, <2>3
      <4> QED
        BY <4>1
    <3>2. \A j \in (l + 1)..n : j \in 1..n /\ j + 1 \in (k + 1)..(n + 1)
      BY <3>1
    <3>3. IsVerified(a[l]) /\ a[l].run = r /\ \A j \in (l + 1)..n : ~IsVerified(a[j])
      BY <1>1, <2>1, <3>1, <3>2
    <3> QED
      BY <3>3 DEF ResultAfter, a
  <2> QED
    BY <2>2, <2>3
<1>3. CASE (\A j \in 1..(n + 1) : ~IsVerified(q[j])) /\ (form # NoWalk => s.of.run = r)
  <2>1. 1 \in 1..(n + 1) /\ \A j \in 1..n : j + 1 \in 1..(n + 1)
    OBVIOUS
  <2>2. ~IsVerified(q[1]) /\ \A j \in 1..n : ~IsVerified(a[j])
    BY <1>1, <1>3, <2>1
  <2>3. form2 # NoWalk => s2.of.run = r
    BY <1>3, <2>2
  <2> QED
    BY <2>2, <2>3 DEF ResultAfter, a
<1> QED
  BY <1>2, <1>3 DEF ResultAfter

LEMMA InOrderShown ==
    ASSUME NEW q \in Seq(Letters), q # <<>>, NEW form, NEW s, NEW tip, NEW form2, NEW s2,
           InOrder(q, form, s, tip),
           form2 # NoWalk =>
                IF IsVerified(q[1]) THEN s2.of.run = q[1].run
                ELSE form # NoWalk /\ s2.of.run = s.of.run,
           q[1].type = "stage" => s2.kind # "result"
    PROVE  InOrder(Tail(q), form2, s2, tip)
<1> DEFINE a == Tail(q)
           n == Len(q)
<1>1. /\ n \in Nat \ {0} /\ Len(a) = n - 1
      /\ \A i \in 1..(n - 1) : a[i] = q[i + 1]
  BY OneLess
<1>2. \A i \in 0..(n - 1) : \A r :
        ResultAfter(q, form, s, i + 1, r) => ResultAfter(a, form2, s2, i, r)
  BY ResultAfterShown
<1>3. ClaimsFit(q, form, s) /\ TipFits(q, form, s, tip) /\ Heralded(q, s)
  BY DEF InOrder
<1> HIDE DEF a, n
<1>4. ClaimsFit(a, form2, s2)
  <2>1. ASSUME NEW i \in 1..Len(a), NEW r \in 1..Runs, ClaimsOf(a[i], r)
        PROVE  ResultAfter(a, form2, s2, i - 1, r)
    <3>1. /\ i \in 1..(n - 1) /\ i - 1 \in 0..(n - 1) /\ i + 1 \in 1..n
          /\ (i + 1) - 1 = i /\ (i - 1) + 1 = i
      BY <1>1
    <3>2. ClaimsOf(q[i + 1], r)
      BY <1>1, <2>1, <3>1
    <3>3. ResultAfter(q, form, s, i, r)
      BY <1>3, <3>1, <3>2 DEF ClaimsFit, n
    <3> QED
      BY <1>2, <3>1, <3>3
  <2> QED
    BY <2>1 DEF ClaimsFit
<1>5. TipFits(a, form2, s2, tip)
  <2>1. n - 1 \in 0..(n - 1) /\ Len(a) = n - 1 /\ (n - 1) + 1 = n
    BY <1>1
  <2> QED
    BY <1>2, <1>3, <2>1 DEF TipFits, n
<1>6. Heralded(a, s2)
  <2>1. ASSUME NEW i \in 1..Len(a), IsVerified(a[i])
        PROVE  IF i = 1 THEN s2.kind # "result" ELSE a[i - 1].type = "stage"
    <3>1. i \in 1..(n - 1) /\ i + 1 \in 1..n /\ i + 1 # 1 /\ (i + 1) - 1 = i
      BY <1>1
    <3>2. q[i].type = "stage"
      BY <1>1, <1>3, <2>1, <3>1 DEF Heralded, n
    <3>3. i # 1 => i - 1 \in 1..(n - 1) /\ (i - 1) + 1 = i
      BY <3>1, <1>1
    <3> QED
      BY <1>1, <3>2, <3>3
  <2> QED
    BY <2>1 DEF Heralded
<1> QED
  BY <1>4, <1>5, <1>6 DEF InOrder, a

LEMMA PlainLettersClaimNothing ==
    ASSUME NEW m, m.type \in {"stage", "matrix", "walking", "walk-failed", "failed", "stale"}
    PROVE  ~IsVerified(m) /\ \A r : ~ClaimsOf(m, r)
BY DEF IsVerified, ClaimsOf

LEMMA ReplayIsPlain == Replay \in Letters /\ Replay.type = "stage"
BY PlainLetters DEF Replay

LEMMA WorkerKeepsOrder ==
    ASSUME WalkInv, EngineWorker
    PROVE  InOrder(inbox', walkout, stage, worker'.tip)
<1> DEFINE Fits(q, t) == InOrder(q, walkout, stage, t)
<1>0. Typed /\ inbox \in Seq(Letters) /\ Fits(inbox, worker.tip)
  BY DEF WalkInv, Typed
<1>1. ASSUME NEW q \in Seq(Letters), NEW m \in Letters, Fits(q, worker.tip),
             m.type \in {"stage", "matrix", "walking", "walk-failed", "failed", "stale"}
      PROVE  Fits(Append(q, m), worker.tip)
  BY <1>1, PlainLettersClaimNothing, InOrderAppend
<1>2. Append(inbox, Replay) \in Seq(Letters) /\ Fits(Append(inbox, Replay), worker.tip)
  BY <1>0, <1>1, ReplayIsPlain, LettersMore
<1>3. CASE RunTaken
  <2>1. Fits(inbox, None)
    BY <1>0, InOrderSuperseded
  <2> QED
    BY <1>0, <1>3, <2>1, RunTakenIs
<1>4. CASE WalkTaken
  <2>1. PICK m \in Letters : m.type \in {"walk-failed", "walking"} /\ inbox' = Append(inbox, m)
    BY <1>0, <1>4, WalkTakenIs
  <2>2. worker'.tip = worker.tip
    BY <1>0, <1>4, WalkTakenIs
  <2> HIDE DEF Fits
  <2>3. Fits(Append(inbox, m), worker.tip)
    BY <1>0, <1>1, <2>1
  <2> QED
    BY <2>1, <2>2, <2>3 DEF Fits
<1>5. ASSUME NEW r \in 1..Runs, MatrixScanned(r)
      PROVE  Fits(inbox', worker'.tip)
  <2> DEFINE m == [type |-> "matrix"]
  <2>1. m \in Letters /\ m.type = "matrix"
    BY PlainLetters
  <2>2. inbox' = Append(inbox, m) /\ worker'.tip = worker.tip
    BY <1>0, <1>5, MatrixScannedIs
  <2> HIDE DEF m, Fits
  <2>3. Fits(Append(inbox, m), worker.tip)
    BY <1>0, <1>1, <2>1
  <2> QED
    BY <2>2, <2>3
<1>6. ASSUME NEW r \in 1..Runs, RunFails(r) \/ RunIsStale(r)
      PROVE  Fits(inbox', worker'.tip)
  <2>1. PICK m \in Letters :
          /\ m.type \in {"failed", "stale"}
          /\ inbox' = Append(inbox, m) \/ inbox' = Append(Append(inbox, Replay), m)
    BY <1>0, <1>6, RunEndsIs
  <2>2. worker'.tip = worker.tip
    BY <1>0, <1>6, RunEndsIs
  <2> HIDE DEF Fits
  <2>3. Fits(Append(inbox, m), worker.tip) /\ Fits(Append(Append(inbox, Replay), m), worker.tip)
    BY <1>0, <1>1, <1>2, <2>1
  <2> QED
    BY <2>1, <2>2, <2>3
<1>7. ASSUME NEW r \in 1..Runs, NEW height \in Heights, NEW trust \in {"full", "cached"},
             RunVerifies(r, height, trust)
      PROVE  Fits(inbox', worker'.tip)
  <2>1. PICK m \in VerifiedLetter : m.run = r /\ inbox' = Append(Append(inbox, Replay), m)
    BY <1>0, <1>7, RunVerifiesIs
  <2>2. worker'.tip.run = m.run
    BY <1>0, <1>7, <2>1, RunVerifiesIs, ZenonT(40)
  <2> DEFINE q == Append(inbox, Replay)
  <2>3. q \in Seq(Letters) /\ q # <<>> /\ q[Len(q)] = Replay
    BY <1>0, <1>2, ReplayIsPlain, AppendIs
  <2>4. Fits(q, worker.tip)
    BY <1>2
  <2> HIDE DEF q
  <2>5. q[Len(q)].type = "stage"
    BY <2>3, ReplayIsPlain
  <2>6. Fits(Append(q, m), worker'.tip)
    BY <2>2, <2>3, <2>4, <2>5, InOrderVerified
  <2> QED
    BY <2>1, <2>6 DEF q
<1>8. ASSUME NEW w \in 1..Walks, WalkAnswered(w)
      PROVE  Fits(inbox', worker'.tip)
  <2>1. PICK m \in Letters :
          /\ m.type \in {"walk-failed", "walked"} /\ inbox' = Append(inbox, m)
          /\ m.type = "walked" => worker.tip # None /\ m.by = worker.tip.run
    BY <1>0, <1>8, WalkAnsweredIs
  <2>2. worker'.tip = worker.tip
    BY <1>0, <1>8, WalkAnsweredIs
  <2>3. ~IsVerified(m)
    BY <2>1 DEF IsVerified
  <2>4. \A q \in 1..Runs : ClaimsOf(m, q) => worker.tip # None /\ q = worker.tip.run
    BY <2>1 DEF ClaimsOf
  <2>5. Fits(Append(inbox, m), worker.tip)
    BY <1>0, <2>3, <2>4, InOrderAppend
  <2> QED
    BY <2>1, <2>2, <2>5
<1> QED
  BY <1>3, <1>4, <1>5, <1>6, <1>7, <1>8 DEF EngineWorker

(* A verified letter finds no form on the screen.                          *)
LEMMA VerifiedFindsNoForm ==
    ASSUME Typed, inbox # <<>>, Heralded(inbox, stage), IsVerified(inbox[1])
    PROVE  walkout = NoWalk
<1>1. Len(inbox) \in Nat \ {0}
  BY OneLess DEF Typed
<1>2. stage.kind # "result"
  BY <1>1 DEF Heralded
<1> QED
  BY <1>2 DEF Typed, TypeOK

LEMMA ResultIs ==
    ASSUME NEW m, stage' = [kind |-> "result", of |-> m]
    PROVE  stage'.kind = "result" /\ stage'.of = m
OBVIOUS

LEMMA MessagesKeepOrder ==
    ASSUME WalkInv, Messages
    PROVE  InOrder(inbox', walkout', stage', worker'.tip) /\ WalkUnderItsResult'
<1> DEFINE m == inbox[1]
<1>0. /\ Typed /\ inbox # <<>> /\ Head(inbox) = m /\ m \in Letters
      /\ inbox \in Seq(Letters) /\ inbox' = Tail(inbox) /\ worker' = worker
      /\ InOrder(inbox, walkout, stage, worker.tip) /\ WalkUnderItsResult
  BY MessageTaken DEF WalkInv, Typed
<1>1. IsVerified(m) => walkout = NoWalk
  BY <1>0, VerifiedFindsNoForm DEF InOrder
<1>2. ASSUME walkout' # NoWalk =>
                IF IsVerified(m) THEN stage'.of.run = m.run
                ELSE walkout # NoWalk /\ stage'.of.run = stage.of.run,
             m.type = "stage" => stage'.kind # "result"
      PROVE  InOrder(inbox', walkout', stage', worker'.tip)
  <2> HIDE DEF m
  <2>1. InOrder(Tail(inbox), walkout', stage', worker.tip)
    BY <1>0, <1>2, InOrderShown DEF m
  <2> QED
    BY <1>0, <2>1
<1>3. \A says, by, busy :
        /\ NoWalk.says # "in chain" /\ EmptyForm.says # "in chain"
        /\ [says |-> says, by |-> by, busy |-> busy].says = says
        /\ [says |-> says, by |-> by, busy |-> busy].by = by
  BY DEF NoWalk, EmptyForm
<1> HIDE DEF m
<1>4. ASSUME walkout' = NoWalk, m.type = "stage" => stage'.kind # "result"
      PROVE  InOrder(inbox', walkout', stage', worker'.tip) /\ WalkUnderItsResult'
  BY <1>2, <1>3, <1>4 DEF WalkUnderItsResult
<1>5. CASE ProbeAnswered
  <2>1. m.type = "probe" /\ walkout' = NoWalk
    BY <1>0, <1>5, PaintIs DEF ProbeAnswered, Received
  <2> QED
    BY <1>4, <2>1
<1>6. CASE ReplayShown
  <2>1. walkout' = NoWalk /\ stage'.kind = "replaying"
    BY <1>6, PaintIs DEF ReplayShown
  <2> QED
    BY <1>4, <2>1
<1>7. CASE StaleShown
  <2>1. m.type = "stale" /\ walkout' = NoWalk
    BY <1>0, <1>7, PaintIs DEF StaleShown, Received
  <2> QED
    BY <1>4, <2>1
<1>8. CASE AlarmShown
  <2>1. m.type = "verified" /\ walkout' = walkout /\ stage' = stage
    BY <1>0, <1>8 DEF AlarmShown, Received
  <2>2. IsVerified(m)
    BY <2>1 DEF IsVerified
  <2> QED
    BY <1>1, <1>4, <2>1, <2>2
<1>9. CASE VerifiedShown
  <2>1. /\ m.type = "verified" /\ walkout' \in {NoWalk, EmptyForm}
        /\ stage' = [kind |-> "result", of |-> m]
    BY <1>0, <1>9 DEF VerifiedShown, Received
  <2>2. stage'.of = m /\ IsVerified(m)
    BY <2>1, ResultIs DEF IsVerified
  <2>3. walkout'.says # "in chain"
    BY <1>3, <2>1
  <2> QED
    BY <1>2, <2>1, <2>2, <2>3 DEF WalkUnderItsResult
<1>10. CASE MatrixShown \/ FailedShown
  <2>1. m.type \in {"matrix", "failed"} /\ walkout' = walkout /\ stage' = stage
    BY <1>0, <1>10 DEF MatrixShown, FailedShown, Received, screen
  <2>2. ~IsVerified(m)
    BY <2>1 DEF IsVerified
  <2> QED
    BY <1>0, <1>2, <2>1, <2>2 DEF WalkUnderItsResult
<1>11. CASE WalkShown
  <2>1. /\ m.type \in {"walking", "walk-failed", "walked"} /\ stage' = stage
        /\ walkout = NoWalk => walkout' = NoWalk
    BY <1>0, <1>11, WalkFormStays DEF WalkShown, Received
  <2>2. ~IsVerified(m)
    BY <2>1 DEF IsVerified
  <2>3. InOrder(inbox', walkout', stage', worker'.tip)
    BY <1>2, <2>1, <2>2
  <2>4. ASSUME walkout'.says = "in chain"
        PROVE  stage'.kind = "result" /\ walkout'.by = stage'.of.run
    <3>1. walkout # NoWalk
      BY <1>3, <2>1, <2>4
    <3>2. m.type = "walked" /\ m.says = "in chain" /\ walkout'.by = m.by
      <4>1. \/ m.type = "walked" /\ WalkOut(m.says, m.by, FALSE)
            \/ WalkOut("walking", None, TRUE) \/ WalkOut("not shown", None, FALSE)
        BY <1>0, <1>11 DEF WalkShown, Received
      <4>2. ASSUME NEW says \in {"walking", "not shown"}, NEW busy, WalkOut(says, None, busy)
            PROVE  FALSE
        <5>1. walkout' = [says |-> says, by |-> None, busy |-> busy]
          BY <3>1, <4>2, WalkFormStays
        <5>2. walkout'.says = says
          BY <5>1
        <5> QED
          BY <2>4, <4>2, <5>2
      <4>3. CASE m.type = "walked" /\ WalkOut(m.says, m.by, FALSE)
        <5>1. walkout' = [says |-> m.says, by |-> m.by, busy |-> FALSE]
          BY <3>1, <4>3, WalkFormStays
        <5> QED
          BY <1>3, <2>4, <4>3, <5>1
      <4> QED
        BY <4>1, <4>2, <4>3
    <3>3. m.by \in 1..Runs /\ ClaimsOf(m, m.by)
      BY <1>0, <3>2, LettersRead DEF ClaimsOf
    <3>4. 1 \in 1..Len(inbox)
      BY <1>0, OneLess
    <3>5. ResultAfter(inbox, walkout, stage, 1 - 1, m.by)
      BY <1>0, <3>3, <3>4 DEF InOrder, ClaimsFit, m
    <3>6. stage.of.run = m.by
      BY <3>1, <3>5 DEF ResultAfter
    <3>7. stage.kind = "result"
      BY <1>0, <3>1 DEF Typed, TypeOK
    <3> QED
      BY <2>1, <3>2, <3>6, <3>7
  <2> QED
    BY <2>3, <2>4 DEF WalkUnderItsResult
<1> QED
  BY <1>5, <1>6, <1>7, <1>8, <1>9, <1>10, <1>11 DEF Messages

LEMMA ClicksKeepOrder ==
    ASSUME WalkInv, Clicks
    PROVE  InOrder(inbox', walkout', stage', worker'.tip) /\ WalkUnderItsResult'
<1>0. Typed /\ InOrder(inbox, walkout, stage, worker.tip) /\ WalkUnderItsResult
  BY DEF WalkInv
<1>1. ASSUME UNCHANGED <<inbox, worker>>,
             walkout' # NoWalk => walkout # NoWalk /\ stage'.of.run = stage.of.run,
             stage'.kind = "result" => stage.kind = "result"
      PROVE  InOrder(inbox', walkout', stage', worker'.tip)
  BY <1>0, <1>1, InOrderPainted
<1>2. NoWalk.says # "in chain"
  BY DEF NoWalk
<1>3. CASE Go \/ Tamper \/ Fresh \/ ClearTimer
  <2>1. UNCHANGED <<inbox, worker>> /\ walkout' = NoWalk /\ stage'.kind \in {"phases", "consent"}
    BY <1>0, <1>3, PostRunIs, FreshIs, ClearTimerIs DEF Go, Tamper
  <2> QED
    BY <1>1, <1>2, <2>1 DEF WalkUnderItsResult
<1>4. CASE AskWalk
  <2>1. /\ UNCHANGED <<inbox, worker, stage>> /\ walkout # NoWalk
        /\ walkout' = [walkout EXCEPT !.busy = TRUE]
    BY <1>0, <1>4, AskWalkIs
  <2>2. walkout'.says = walkout.says /\ walkout'.by = walkout.by
    BY <2>1
  <2> QED
    BY <1>0, <1>1, <2>1, <2>2 DEF WalkUnderItsResult
<1>5. CASE Clear
  <2>1. UNCHANGED <<inbox, worker, stage, walkout>>
    BY <1>0, <1>5, ClearIs DEF screen
  <2> QED
    BY <1>0, <1>1, <2>1 DEF WalkUnderItsResult
<1> QED
  BY <1>3, <1>4, <1>5 DEF Clicks

LEMMA WalkInvInit == Init => WalkInv
<1> SUFFICES ASSUME Init PROVE WalkInv
  OBVIOUS
<1>1. PICK warm, able \in BOOLEAN : inbox = <<[type |-> "probe", warm |-> warm, able |-> able]>>
  BY DEF Init
<1>2. Len(inbox) = 1 /\ inbox[1].type = "probe"
  BY <1>1
<1>3. worker.tip = None /\ walkout.says # "in chain"
  BY DEF Init, NoWalk
<1>4. InOrder(inbox, walkout, stage, worker.tip)
  <2>1. \A i \in 1..Len(inbox) : inbox[i].type = "probe"
    BY <1>2
  <2>2. ClaimsFit(inbox, walkout, stage) /\ Heralded(inbox, stage)
    BY <2>1 DEF ClaimsFit, ClaimsOf, Heralded, IsVerified
  <2>3. TipFits(inbox, walkout, stage, worker.tip)
    BY <1>3 DEF TipFits
  <2> QED
    BY <2>2, <2>3 DEF InOrder
<1> QED
  BY <1>3, <1>4, TypedInit DEF WalkInv, WalkUnderItsResult

LEMMA WalkInvStep == WalkInv /\ [Next]_vars => WalkInv'
<1> SUFFICES ASSUME WalkInv, [Next]_vars PROVE WalkInv'
  OBVIOUS
<1>1. Typed'
  BY TypedStep DEF WalkInv
<1>2. InOrder(inbox', walkout', stage', worker'.tip) /\ WalkUnderItsResult'
  <2>1. CASE EngineWorker
    <3>1. stage' = stage /\ walkout' = walkout
      BY <2>1, PageWaits DEF WalkInv, Typed
    <3> QED
      BY <2>1, <3>1, WorkerKeepsOrder DEF WalkInv, WalkUnderItsResult
  <2>2. CASE UNCHANGED vars
    BY <2>2 DEF vars, WalkInv, WalkUnderItsResult
  <2> QED
    BY <2>1, <2>2, MessagesKeepOrder, ClicksKeepOrder DEF Next
<1> QED
  BY <1>1, <1>2 DEF WalkInv

(* The types of the page, its queues and its worker included.              *)
THEOREM PageTypeOK == Spec => []TypeOK
<1>1. Typed => TypeOK
  BY DEF Typed
<1> QED
  BY <1>1, TypedInit, TypedStep, PTL DEF Spec

(* "In the verified chain" is only ever said under the result of the run   *)
(* whose tip answered, however many runs and walks overlap: walks carry no *)
(* run, but the queue keeps their answers behind the verdict they belong   *)
(* to, and every verdict behind the message that clears the form of the    *)
(* last (index.html l.706-709, 822-842; verify-worker.js l.275, 316-327).  *)
THEOREM WalksAreUnderTheirResult == Spec => []WalkUnderItsResult
<1>1. WalkInv => WalkUnderItsResult
  BY DEF WalkInv
<1> QED
  BY <1>1, WalkInvInit, WalkInvStep, PTL DEF Spec

----------------------------------------------------------------------------
(* Runs: the letters and orders that are on their way.                     *)
Progress == {"unasked", "loading", "scanned", "over"}

LEMMA VerdictsRead ==
    ASSUME NEW m \in Letters, m.type \in Verdict
    PROVE  m.run \in 1..Runs /\ Answers(m, m.run)
BY LettersRead DEF Answers

LEMMA MailPlain ==
    ASSUME NEW q \in Seq(Letters), NEW m \in Letters, NEW p, NEW at, NEW n,
           InMail(q, p, at, n), m.type \notin Verdict, m.type # "probe"
    PROVE  /\ InMail(Append(q, m), p, at, n)
           /\ Due(Append(q, m), at, n) = Due(q, at, n)
<1> DEFINE a == Append(q, m)
<1>1. /\ Len(q) \in Nat /\ Len(a) = Len(q) + 1 /\ a[Len(q) + 1] = m
      /\ \A i \in 1..Len(q) : a[i] = q[i]
  BY AppendIs
<1>2. a \in Seq(Letters) /\ DOMAIN a = 1..Len(a) /\ DOMAIN q = 1..Len(q)
  BY OneMore
<1>3. \A r : ~Answers(m, r)
  BY DEF Answers
<1> HIDE DEF a
<1>4. ASSUME NEW i \in 1..Len(a), a[i] # m
      PROVE  i \in 1..Len(q) /\ a[i] = q[i]
  BY <1>1, <1>4
<1>5. VerdictsOnce(a, at, n)
  BY <1>3, <1>4 DEF InMail, VerdictsOnce
<1>6. ProbeFirst(a)
  BY <1>4 DEF InMail, ProbeFirst
<1>7. 1..Len(q) \subseteq 1..Len(a)
  BY <1>1
<1>8. \A r : (\E i \in DOMAIN a : Answers(a[i], r)) <=> (\E i \in DOMAIN q : Answers(q[i], r))
  BY <1>1, <1>2, <1>3, <1>4, <1>7
<1>9. Due(a, at, n) = Due(q, at, n)
  BY <1>8 DEF Due
<1> QED
  BY <1>5, <1>6, <1>9 DEF InMail, a

(* A run that ends becomes a letter that is on its way.                    *)
LEMMA MailVerdict ==
    ASSUME NEW q \in Seq(Letters), NEW m \in Letters, NEW p \in Seq(Orders),
           NEW at \in [1..Runs -> Progress], NEW n \in Nat, InMail(q, p, at, n),
           NEW r \in 1..Runs, m.type \in Verdict, m.run = r,
           at[r] \in {"loading", "scanned"}
    PROVE  /\ InMail(Append(q, m), p, [at EXCEPT ![r] = "over"], n)
           /\ Due(Append(q, m), [at EXCEPT ![r] = "over"], n) = Due(q, at, n)
<1> DEFINE a == Append(q, m)
           now == [at EXCEPT ![r] = "over"]
<1>1. /\ Len(q) \in Nat /\ Len(a) = Len(q) + 1 /\ a[Len(q) + 1] = m
      /\ \A i \in 1..Len(q) : a[i] = q[i]
  BY AppendIs
<1>2. DOMAIN a = 1..Len(a) /\ DOMAIN q = 1..Len(q) /\ 1..Len(q) \subseteq 1..Len(a)
      /\ Len(q) + 1 \in 1..Len(a)
  BY OneMore, <1>1
<1>3. now[r] = "over" /\ \A s \in 1..Runs : s # r => now[s] = at[s]
  OBVIOUS
<1>4. r <= n
  BY DEF InMail, OnlyAsked
<1>5. \A s : Answers(m, s) <=> s = r
  BY DEF Answers
<1> HIDE DEF a, now
<1>6. ASSUME NEW i \in 1..Len(a), i # Len(q) + 1
      PROVE  i \in 1..Len(q) /\ a[i] = q[i]
  BY <1>1, <1>6
<1>7. \A i \in 1..Len(q) : ~Answers(q[i], r)
  BY DEF InMail, VerdictsOnce
<1>8. VerdictsOnce(a, now, n)
  <2>1. ASSUME NEW i \in 1..Len(a), NEW s \in 1..Runs, Answers(a[i], s)
        PROVE  s <= n /\ now[s] = "over" /\ (i = Len(q) + 1 <=> s = r)
    <3>1. CASE i = Len(q) + 1
      BY <1>1, <1>3, <1>4, <1>5, <2>1, <3>1
    <3>2. CASE i # Len(q) + 1
      <4>1. i \in 1..Len(q) /\ Answers(q[i], s)
        BY <1>6, <2>1, <3>2
      <4>2. s # r /\ s <= n /\ at[s] = "over"
        BY <1>7, <4>1 DEF InMail, VerdictsOnce
      <4> QED
        BY <1>3, <3>2, <4>2
    <3> QED
      BY <3>1, <3>2
  <2>2. ASSUME NEW i \in 1..Len(a), NEW j \in 1..Len(a), NEW s \in 1..Runs,
               Answers(a[i], s), Answers(a[j], s)
        PROVE  i = j
    <3>1. CASE s = r
      BY <2>1, <2>2, <3>1
    <3>2. CASE s # r
      <4>1. /\ i \in 1..Len(q) /\ Answers(q[i], s)
            /\ j \in 1..Len(q) /\ Answers(q[j], s)
        BY <1>6, <2>1, <2>2, <3>2
      <4> QED
        BY <4>1 DEF InMail, VerdictsOnce
    <3> QED
      BY <3>1, <3>2
  <2> QED
    BY <2>1, <2>2 DEF VerdictsOnce
<1>9. OrdersOnce(p, now, n)
  <2>1. ASSUME NEW i \in 1..Len(p), p[i].type = "run"
        PROVE  p[i].run <= n /\ now[p[i].run] = "unasked"
    <3>1. p[i] \in Orders
      BY <2>1
    <3>2. p[i].run \in 1..Runs
      BY <2>1, <3>1, OrdersRead
    <3>3. p[i].run <= n /\ at[p[i].run] = "unasked"
      BY <2>1 DEF InMail, OrdersOnce
    <3> QED
      BY <1>3, <3>2, <3>3
  <2> QED
    BY <2>1 DEF InMail, OrdersOnce
<1>10. OnlyAsked(now, n)
  BY <1>3, <1>4 DEF InMail, OnlyAsked
<1>11. ProbeFirst(a)
  BY <1>1, <1>6 DEF InMail, ProbeFirst, Verdict
<1>12. Due(a, now, n) = Due(q, at, n)
  <2>1. ASSUME NEW s \in 1..n
        PROVE  (now[s] # "over" \/ \E i \in DOMAIN a : Answers(a[i], s))
               <=> (at[s] # "over" \/ \E i \in DOMAIN q : Answers(q[i], s))
    <3>1. CASE s = r
      BY <1>1, <1>2, <1>5, <3>1
    <3>2. CASE s # r
      <4>1. now[s] = at[s]
        BY <3>2 DEF now
      <4>2. (\E i \in DOMAIN a : Answers(a[i], s)) <=> (\E i \in DOMAIN q : Answers(q[i], s))
        BY <1>1, <1>2, <1>5, <1>6, <3>2
      <4> QED
        BY <4>1, <4>2
    <3> QED
      BY <3>1, <3>2
  <2> QED
    BY <2>1 DEF Due
<1> QED
  BY <1>8, <1>9, <1>10, <1>11, <1>12 DEF InMail, a, now

(* A run moves on before its end.                                          *)
LEMMA MailMoves ==
    ASSUME NEW q \in Seq(Letters), NEW p \in Seq(Orders),
           NEW at \in [1..Runs -> Progress], NEW n \in Nat, InMail(q, p, at, n),
           NEW r \in 1..Runs, at[r] = "loading"
    PROVE  /\ InMail(q, p, [at EXCEPT ![r] = "scanned"], n)
           /\ Due(q, [at EXCEPT ![r] = "scanned"], n) = Due(q, at, n)
<1> DEFINE now == [at EXCEPT ![r] = "scanned"]
<1>1. now[r] = "scanned" /\ \A s : s # r => now[s] = at[s]
  OBVIOUS
<1> HIDE DEF now
<1>2. VerdictsOnce(q, now, n)
  BY <1>1 DEF InMail, VerdictsOnce
<1>3. OrdersOnce(p, now, n)
  BY <1>1 DEF InMail, OrdersOnce
<1>4. OnlyAsked(now, n)
  BY <1>1 DEF InMail, OnlyAsked
<1>5. \A s : now[s] # "over" <=> at[s] # "over"
  BY <1>1
<1>6. Due(q, now, n) = Due(q, at, n)
  BY <1>5 DEF Due
<1> QED
  BY <1>2, <1>3, <1>4, <1>6 DEF InMail, now

(* The worker takes the first order.                                       *)
LEMMA MailTaken ==
    ASSUME NEW q \in Seq(Letters), NEW p \in Seq(Orders), p # <<>>,
           NEW at \in [1..Runs -> Progress], NEW n \in Nat, InMail(q, p, at, n),
           NEW r \in 1..Runs, p[1].type = "run", p[1].run = r
    PROVE  /\ InMail(q, Tail(p), [at EXCEPT ![r] = "loading"], n)
           /\ Due(q, [at EXCEPT ![r] = "loading"], n) = Due(q, at, n)
<1> DEFINE now == [at EXCEPT ![r] = "loading"]
           t == Tail(p)
<1>1. now[r] = "loading" /\ \A s : s # r => now[s] = at[s]
  OBVIOUS
<1>2. /\ Len(p) \in Nat \ {0} /\ Len(t) = Len(p) - 1
      /\ \A i \in 1..Len(t) : t[i] = p[i + 1]
  BY OneLess
<1>3. at[r] = "unasked" /\ r <= n
  BY <1>2 DEF InMail, OrdersOnce
<1> HIDE DEF now, t
<1>4. VerdictsOnce(q, now, n)
  BY <1>1, <1>3 DEF InMail, VerdictsOnce
<1>5. OrdersOnce(t, now, n)
  <2>1. \A i \in 1..Len(t) : i + 1 \in 1..Len(p) /\ i + 1 # 1 /\ t[i] = p[i + 1]
    BY <1>2
  <2>2. 1 \in 1..Len(p)
    BY <1>2
  <2>3. ASSUME NEW i \in 1..Len(t), t[i].type = "run"
        PROVE  t[i].run <= n /\ now[t[i].run] = "unasked"
    <3>1. t[i].run # r
      BY <2>1, <2>2, <2>3 DEF InMail, OrdersOnce
    <3>2. t[i].run <= n /\ at[t[i].run] = "unasked"
      BY <2>1, <2>3 DEF InMail, OrdersOnce
    <3> QED
      BY <1>1, <3>1, <3>2
  <2>4. ASSUME NEW i \in 1..Len(t), NEW j \in 1..Len(t),
               t[i].type = "run", t[j].type = "run", t[i].run = t[j].run
        PROVE  i = j
    <3>1. i + 1 = j + 1
      BY <2>1, <2>4 DEF InMail, OrdersOnce
    <3> QED
      BY <3>1
  <2> QED
    BY <2>3, <2>4 DEF OrdersOnce
<1>6. OnlyAsked(now, n)
  BY <1>1, <1>3 DEF InMail, OnlyAsked
<1>7. \A s : now[s] # "over" <=> at[s] # "over"
  BY <1>1, <1>3
<1>8. Due(q, now, n) = Due(q, at, n)
  BY <1>7 DEF Due
<1> QED
  BY <1>4, <1>5, <1>6, <1>8 DEF InMail, now, t

LEMMA MailWalkTaken ==
    ASSUME NEW q, NEW p \in Seq(Orders), p # <<>>, NEW at, NEW n, InMail(q, p, at, n)
    PROVE  InMail(q, Tail(p), at, n)
<1> DEFINE t == Tail(p)
<1>1. /\ Len(p) \in Nat \ {0} /\ Len(t) = Len(p) - 1
      /\ \A i \in 1..Len(t) : t[i] = p[i + 1]
  BY OneLess
<1> HIDE DEF t
<1>2. \A i \in 1..Len(t) : i + 1 \in 1..Len(p) /\ t[i] = p[i + 1]
  BY <1>1
<1>3. ASSUME NEW i \in 1..Len(t), t[i].type = "run"
      PROVE  t[i].run <= n /\ at[t[i].run] = "unasked"
  BY <1>2, <1>3 DEF InMail, OrdersOnce
<1>4. ASSUME NEW i \in 1..Len(t), NEW j \in 1..Len(t),
             t[i].type = "run", t[j].type = "run", t[i].run = t[j].run
      PROVE  i = j
  <2>1. i + 1 = j + 1
    BY <1>2, <1>4 DEF InMail, OrdersOnce
  <2> QED
    BY <2>1
<1>5. OrdersOnce(t, at, n)
  BY <1>3, <1>4 DEF OrdersOnce
<1> QED
  BY <1>5 DEF InMail, t

(* The page handles the first letter.                                      *)
LEMMA MailShown ==
    ASSUME NEW q \in Seq(Letters), q # <<>>, NEW p, NEW at, NEW n, InMail(q, p, at, n)
    PROVE  /\ InMail(Tail(q), p, at, n)
           /\ \A i \in 1..Len(Tail(q)) : Tail(q)[i].type # "probe"
           /\ Due(Tail(q), at, n) \subseteq Due(q, at, n)
<1> DEFINE t == Tail(q)
<1>1. /\ Len(q) \in Nat \ {0} /\ Len(t) = Len(q) - 1 /\ t \in Seq(Letters)
      /\ \A i \in 1..Len(t) : t[i] = q[i + 1]
  BY OneLess
<1>2. DOMAIN t = 1..Len(t) /\ DOMAIN q = 1..Len(q)
  BY <1>1
<1> HIDE DEF t
<1>3. \A i \in 1..Len(t) : i + 1 \in 1..Len(q) /\ i + 1 # 1 /\ t[i] = q[i + 1]
  BY <1>1
<1>4. \A i, j \in 1..Len(t) : i + 1 = j + 1 => i = j
  OBVIOUS
<1>5. VerdictsOnce(t, at, n)
  BY <1>3, <1>4 DEF InMail, VerdictsOnce
<1>6. \A i \in 1..Len(t) : t[i].type # "probe"
  BY <1>3 DEF InMail, ProbeFirst
<1>7. Due(t, at, n) \subseteq Due(q, at, n)
  BY <1>2, <1>3 DEF Due
<1> QED
  BY <1>5, <1>6, <1>7 DEF InMail, ProbeFirst, t

LEMMA DueAfterPlain ==
    ASSUME NEW q \in Seq(Letters), q # <<>>, NEW at, NEW n, q[1].type \notin Verdict
    PROVE  Due(Tail(q), at, n) = Due(q, at, n)
<1> DEFINE t == Tail(q)
<1>1. /\ Len(q) \in Nat \ {0} /\ Len(t) = Len(q) - 1 /\ t \in Seq(Letters)
      /\ \A i \in 1..Len(t) : t[i] = q[i + 1]
  BY OneLess
<1>2. DOMAIN t = 1..Len(t) /\ DOMAIN q = 1..Len(q)
  BY <1>1
<1> HIDE DEF t
<1>3. ASSUME NEW r, NEW i \in DOMAIN q, Answers(q[i], r)
      PROVE  \E j \in DOMAIN t : Answers(t[j], r)
  <2>1. i # 1
    BY <1>3 DEF Answers
  <2>2. i - 1 \in 1..Len(t) /\ (i - 1) + 1 = i
    BY <1>1, <1>2, <2>1
  <2> QED
    BY <1>1, <1>2, <1>3, <2>2
<1>4. ASSUME NEW r, NEW i \in DOMAIN t, Answers(t[i], r)
      PROVE  \E j \in DOMAIN q : Answers(q[j], r)
  <2>1. i + 1 \in 1..Len(q)
    BY <1>1, <1>2
  <2> QED
    BY <1>1, <1>2, <1>4, <2>1
<1> QED
  BY <1>3, <1>4 DEF Due, t

(* A verdict handled is due no longer.                                     *)
LEMMA DueAfterVerdict ==
    ASSUME NEW q \in Seq(Letters), q # <<>>, NEW p, NEW at, NEW n \in Nat,
           InMail(q, p, at, n), q[1].type \in Verdict
    PROVE  /\ q[1].run \in Due(q, at, n)
           /\ q[1].run \notin Due(Tail(q), at, n)
<1> DEFINE t == Tail(q)
           r == q[1].run
<1>1. /\ Len(q) \in Nat \ {0} /\ Len(t) = Len(q) - 1 /\ t \in Seq(Letters) /\ q[1] \in Letters
      /\ \A i \in 1..Len(t) : t[i] = q[i + 1]
  BY OneLess
<1>2. r \in 1..Runs /\ Answers(q[1], r)
  BY <1>1, VerdictsRead
<1>3. 1 \in 1..Len(q) /\ DOMAIN t = 1..Len(t) /\ DOMAIN q = 1..Len(q)
  BY <1>1
<1> HIDE DEF t, r
<1>4. r <= n /\ at[r] = "over"
  BY <1>2, <1>3 DEF InMail, VerdictsOnce
<1>5. \A i \in 1..Len(t) : ~Answers(t[i], r)
  <2>1. ASSUME NEW i \in 1..Len(t), Answers(t[i], r) PROVE FALSE
    <3>1. i + 1 \in 1..Len(q) /\ i + 1 # 1 /\ Answers(q[i + 1], r)
      BY <1>1, <2>1
    <3> QED
      BY <1>2, <1>3, <3>1 DEF InMail, VerdictsOnce
  <2> QED
    BY <2>1
<1>6. r \in 1..n
  BY <1>2, <1>4
<1> QED
  BY <1>2, <1>3, <1>4, <1>5, <1>6 DEF Due, r, t

(* The page orders one more run.                                           *)
LEMMA MailOrdered ==
    ASSUME NEW q \in Seq(Letters), NEW p \in Seq(Orders), NEW m \in Orders, NEW at,
           NEW n \in Nat, n < Runs, InMail(q, p, at, n), m.type = "run", m.run = n + 1
    PROVE  /\ InMail(q, Append(p, m), at, n + 1)
           /\ Due(q, at, n + 1) = Due(q, at, n) \cup {n + 1}
<1> DEFINE a == Append(p, m)
<1>1. /\ Len(p) \in Nat /\ Len(a) = Len(p) + 1 /\ a[Len(p) + 1] = m
      /\ \A i \in 1..Len(p) : a[i] = p[i]
  BY AppendIs
<1>2. n + 1 \in 1..Runs /\ n + 1 > n /\ \A r \in 1..Runs : r <= n => r <= n + 1
  BY PageConstantsUsed
<1>3. at[n + 1] = "unasked"
  BY <1>2 DEF InMail, OnlyAsked
<1> HIDE DEF a
<1>4. ASSUME NEW i \in 1..Len(a), i # Len(p) + 1
      PROVE  i \in 1..Len(p) /\ a[i] = p[i]
  BY <1>1, <1>4
<1>5. VerdictsOnce(q, at, n + 1)
  BY <1>2 DEF InMail, VerdictsOnce
<1>6. ASSUME NEW i \in 1..Len(p), p[i].type = "run"
      PROVE  p[i].run \in 1..Runs /\ p[i].run <= n /\ at[p[i].run] = "unasked"
  <2>1. p[i] \in Orders
    BY <1>6
  <2> QED
    BY <1>6, <2>1, OrdersRead DEF InMail, OrdersOnce
<1>7. \A r \in 1..Runs : r <= n => r # n + 1
  OBVIOUS
<1>8. OrdersOnce(a, at, n + 1)
  <2>1. ASSUME NEW i \in 1..Len(a), a[i].type = "run"
        PROVE  /\ a[i].run <= n + 1 /\ at[a[i].run] = "unasked"
               /\ i # Len(p) + 1 => a[i].run # n + 1 /\ p[i].type = "run" /\ i \in 1..Len(p)
    <3>1. CASE i = Len(p) + 1
      BY <1>1, <1>2, <1>3, <3>1
    <3>2. CASE i # Len(p) + 1
      <4>1. i \in 1..Len(p) /\ a[i] = p[i]
        BY <1>4, <3>2
      <4>2. p[i].run \in 1..Runs /\ p[i].run <= n /\ at[p[i].run] = "unasked"
        BY <1>6, <2>1, <4>1
      <4> QED
        BY <1>2, <1>7, <2>1, <4>1, <4>2
    <3> QED
      BY <3>1, <3>2
  <2>2. ASSUME NEW i \in 1..Len(a), NEW j \in 1..Len(a),
               a[i].type = "run", a[j].type = "run", a[i].run = a[j].run
        PROVE  i = j
    <3>1. CASE i = Len(p) + 1 \/ j = Len(p) + 1
      BY <1>1, <2>1, <2>2, <3>1
    <3>2. CASE i # Len(p) + 1 /\ j # Len(p) + 1
      <4>1. i \in 1..Len(p) /\ j \in 1..Len(p) /\ a[i] = p[i] /\ a[j] = p[j]
        BY <1>4, <3>2
      <4> QED
        BY <2>2, <4>1 DEF InMail, OrdersOnce
    <3> QED
      BY <3>1, <3>2
  <2> QED
    BY <2>1, <2>2 DEF OrdersOnce
<1>9. OnlyAsked(at, n + 1)
  BY DEF InMail, OnlyAsked
<1>10. Due(q, at, n + 1) = Due(q, at, n) \cup {n + 1}
  <2>1. 1..(n + 1) = 1..n \cup {n + 1}
    OBVIOUS
  <2>2. at[n + 1] # "over"
    BY <1>3
  <2> QED
    BY <2>1, <2>2 DEF Due
<1> QED
  BY <1>5, <1>8, <1>9, <1>10 DEF InMail, a

LEMMA MailWalkAsked ==
    ASSUME NEW q, NEW p \in Seq(Orders), NEW m \in Orders, NEW at, NEW n,
           InMail(q, p, at, n), m.type = "walk"
    PROVE  InMail(q, Append(p, m), at, n)
<1> DEFINE a == Append(p, m)
<1>1. /\ Len(p) \in Nat /\ Len(a) = Len(p) + 1 /\ a[Len(p) + 1] = m
      /\ \A i \in 1..Len(p) : a[i] = p[i]
  BY AppendIs
<1> HIDE DEF a
<1>2. ASSUME NEW i \in 1..Len(a), a[i].type = "run"
      PROVE  i \in 1..Len(p) /\ a[i] = p[i]
  BY <1>1, <1>2
<1>3. OrdersOnce(a, at, n)
  BY <1>2 DEF InMail, OrdersOnce
<1> QED
  BY <1>3 DEF InMail, a


----------------------------------------------------------------------------
(* Runs: every step.                                                       *)
LEMMA ProbesMore ==
    ASSUME NEW q \in Seq(Letters), NEW m \in Letters, m.type # "probe"
    PROVE  Probes(Append(q, m)) = Probes(q)
<1> DEFINE a == Append(q, m)
<1>1. /\ Len(q) \in Nat /\ Len(a) = Len(q) + 1 /\ a[Len(q) + 1] = m
      /\ \A i \in 1..Len(q) : a[i] = q[i]
  BY AppendIs
<1> HIDE DEF a
<1>2. \A i : i \in 1..Len(a) <=> i \in 1..Len(q) \/ i = Len(q) + 1
  BY <1>1
<1>3. Probes(a) = Probes(q)
  BY <1>1, <1>2 DEF Probes
<1> QED
  BY <1>3 DEF a

(* The worker changes nothing about what the page waits for.               *)
LEMMA WorkerKeepsRuns ==
    ASSUME RunsInv, EngineWorker
    PROVE  /\ InMail(inbox', posted', worker'.at, runs)
           /\ Due(inbox', worker'.at, runs) = Due(inbox, worker.at, runs)
           /\ Probes(inbox') = Probes(inbox)
<1> DEFINE D == Due(inbox, worker.at, runs)
           P == Probes(inbox)
           Kept(q, p, at) == InMail(q, p, at, runs) /\ Due(q, at, runs) = D /\ Probes(q) = P
<1>0. /\ Typed /\ inbox \in Seq(Letters) /\ posted \in Seq(Orders) /\ runs \in Nat
      /\ worker.at \in [1..Runs -> Progress]
      /\ InMail(inbox, posted, worker.at, runs)
  BY PageConstantsUsed, WorkerFields DEF RunsInv, Typed, TypeOK, Progress
<1> DEFINE at == worker.at
<1>1. Kept(inbox, posted, at)
  BY <1>0
<1> HIDE DEF D, P, at
<1>2. ASSUME NEW q \in Seq(Letters), NEW m \in Letters, NEW p, Kept(q, p, at),
             m.type \notin Verdict, m.type # "probe"
      PROVE  Kept(Append(q, m), p, at)
  BY <1>2, MailPlain, ProbesMore
<1>3. ASSUME NEW q \in Seq(Letters), NEW m \in Letters, Kept(q, posted, at),
             NEW r \in 1..Runs, m.type \in Verdict, m.run = r, at[r] \in {"loading", "scanned"}
      PROVE  Kept(Append(q, m), posted, [at EXCEPT ![r] = "over"])
  <2>1. m.type # "probe" /\ at \in [1..Runs -> Progress]
    BY <1>0, <1>3 DEF Verdict, at
  <2> QED
    BY <1>0, <1>3, <2>1, MailVerdict, ProbesMore, ZenonT(40)
<1>4. Kept(Append(inbox, Replay), posted, at) /\ Append(inbox, Replay) \in Seq(Letters)
  <2>1. Replay \in Letters /\ Replay.type \notin Verdict /\ Replay.type # "probe"
    BY ReplayIsPlain DEF Verdict
  <2> QED
    BY <1>0, <1>1, <1>2, <2>1, OneMore
<1> SUFFICES Kept(inbox', posted', worker'.at)
  BY DEF D, P, at
<1>5. CASE RunTaken
  <2> DEFINE r == posted[1].run
  <2>1. /\ posted # <<>> /\ posted[1].type = "run" /\ r \in 1..Runs
        /\ posted' = Tail(posted) /\ inbox' = inbox
        /\ worker'.at = [at EXCEPT ![r] = "loading"]
    BY <1>0, <1>5, RunTakenIs DEF at
  <2> HIDE DEF r
  <2>2. posted[1].run = r /\ at \in [1..Runs -> Progress]
    BY <1>0 DEF r, at
  <2>3. InMail(inbox, posted, at, runs) /\ Due(inbox, at, runs) = D /\ Probes(inbox) = P
    BY <1>1
  <2>4. /\ InMail(inbox, Tail(posted), [at EXCEPT ![r] = "loading"], runs)
        /\ Due(inbox, [at EXCEPT ![r] = "loading"], runs) = Due(inbox, at, runs)
    <3>1. /\ inbox \in Seq(Letters) /\ posted \in Seq(Orders) /\ posted # <<>> /\ runs \in Nat
          /\ at \in [1..Runs -> Progress] /\ InMail(inbox, posted, at, runs)
          /\ r \in 1..Runs /\ posted[1].type = "run" /\ posted[1].run = r
      BY <1>0, <2>1, <2>2, <2>3
    <3> QED
      BY <3>1, MailTaken
  <2>5. Kept(inbox, Tail(posted), [at EXCEPT ![r] = "loading"])
    BY <2>3, <2>4
  <2> QED
    BY <2>1, <2>5
<1>6. CASE WalkTaken
  <2>1. /\ posted # <<>> /\ posted' = Tail(posted) /\ worker'.at = at
    BY <1>0, <1>6, WalkTakenIs DEF at
  <2>2. PICK m \in Letters : m.type \in {"walk-failed", "walking"} /\ inbox' = Append(inbox, m)
    BY <1>0, <1>6, WalkTakenIs
  <2>3. m.type \notin Verdict /\ m.type # "probe"
    BY <2>2 DEF Verdict
  <2>4. Kept(inbox, Tail(posted), at)
    BY <1>0, <1>1, <2>1, MailWalkTaken
  <2>5. Kept(Append(inbox, m), Tail(posted), at)
    BY <1>0, <1>2, <2>3, <2>4
  <2> QED
    BY <2>1, <2>2, <2>5
<1>7. ASSUME NEW r \in 1..Runs, MatrixScanned(r)
      PROVE  Kept(inbox', posted', worker'.at)
  <2> DEFINE m == [type |-> "matrix"]
  <2>1. m \in Letters /\ m.type = "matrix"
    BY PlainLetters
  <2>2. /\ at[r] = "loading" /\ worker'.at = [at EXCEPT ![r] = "scanned"]
        /\ inbox' = Append(inbox, m) /\ posted' = posted
    BY <1>0, <1>7, MatrixScannedIs DEF at
  <2> HIDE DEF m
  <2>3. m.type \notin Verdict /\ m.type # "probe"
    BY <2>1 DEF Verdict
  <2>4. Append(inbox, m) \in Seq(Letters) /\ at \in [1..Runs -> Progress]
    BY <1>0, <2>1, OneMore DEF at
  <2>5. Kept(Append(inbox, m), posted, at)
    BY <1>0, <1>1, <1>2, <2>1, <2>3
  <2> DEFINE q == Append(inbox, m)
  <2>6. q \in Seq(Letters) /\ InMail(q, posted, at, runs) /\ Due(q, at, runs) = D /\ Probes(q) = P
    BY <2>4, <2>5
  <2> HIDE DEF q
  <2>7. /\ InMail(q, posted, [at EXCEPT ![r] = "scanned"], runs)
        /\ Due(q, [at EXCEPT ![r] = "scanned"], runs) = Due(q, at, runs)
    <3>1. /\ posted \in Seq(Orders) /\ runs \in Nat /\ at \in [1..Runs -> Progress]
          /\ r \in 1..Runs /\ at[r] = "loading"
      BY <1>0, <1>7, <2>2, <2>4
    <3> QED
      BY <2>6, <3>1, MailMoves
  <2>8. Kept(q, posted, [at EXCEPT ![r] = "scanned"])
    BY <2>6, <2>7
  <2> QED
    BY <2>2, <2>8 DEF q
<1>8. ASSUME NEW r \in 1..Runs, NEW m \in Letters, m.type \in Verdict, m.run = r,
             at[r] \in {"loading", "scanned"}, worker'.at = [at EXCEPT ![r] = "over"],
             posted' = posted,
             inbox' = Append(inbox, m) \/ inbox' = Append(Append(inbox, Replay), m)
      PROVE  Kept(inbox', posted', worker'.at)
  <2>1. /\ Kept(Append(inbox, m), posted, [at EXCEPT ![r] = "over"])
        /\ Kept(Append(Append(inbox, Replay), m), posted, [at EXCEPT ![r] = "over"])
    BY <1>0, <1>1, <1>3, <1>4, <1>8
  <2> QED
    BY <1>8, <2>1
<1>9. ASSUME NEW r \in 1..Runs, RunFails(r) \/ RunIsStale(r)
      PROVE  Kept(inbox', posted', worker'.at)
  <2>1. PICK m \in Letters :
          /\ m.type \in {"failed", "stale"} /\ m.run = r
          /\ inbox' = Append(inbox, m) \/ inbox' = Append(Append(inbox, Replay), m)
    BY <1>0, <1>9, RunEndsIs
  <2>2. /\ at[r] \in {"loading", "scanned"} /\ worker'.at = [at EXCEPT ![r] = "over"]
        /\ posted' = posted
    BY <1>0, <1>9, RunEndsIs DEF at
  <2>3. m.type \in Verdict
    BY <2>1 DEF Verdict
  <2> HIDE DEF Kept
  <2> QED
    BY <1>8, <2>1, <2>2, <2>3
<1>10. ASSUME NEW r \in 1..Runs, NEW height \in Heights, NEW trust \in {"full", "cached"},
              RunVerifies(r, height, trust)
       PROVE  Kept(inbox', posted', worker'.at)
  <2>1. PICK m \in VerifiedLetter : m.run = r /\ inbox' = Append(Append(inbox, Replay), m)
    BY <1>0, <1>10, RunVerifiesIs
  <2>2. /\ at[r] \in {"loading", "scanned"} /\ worker'.at = [at EXCEPT ![r] = "over"]
        /\ posted' = posted
    BY <1>0, <1>10, RunVerifiesIs DEF at
  <2>3. m \in Letters /\ m.type \in Verdict
    BY DEF Letters, VerifiedLetter, Verdict
  <2> HIDE DEF Kept
  <2> QED
    BY <1>8, <2>1, <2>2, <2>3
<1>11. ASSUME NEW w \in 1..Walks, WalkAnswered(w)
       PROVE  Kept(inbox', posted', worker'.at)
  <2>1. PICK m \in Letters : m.type \in {"walk-failed", "walked"} /\ inbox' = Append(inbox, m)
    BY <1>0, <1>11, WalkAnsweredIs
  <2>2. posted' = posted /\ worker'.at = at
    BY <1>0, <1>11, WalkAnsweredIs DEF at
  <2>3. m.type \notin Verdict /\ m.type # "probe"
    BY <2>1 DEF Verdict
  <2>4. Kept(Append(inbox, m), posted, at)
    BY <1>0, <1>1, <1>2, <2>3
  <2> QED
    BY <2>1, <2>2, <2>4
<1> HIDE DEF Kept
<1> QED
  BY <1>5, <1>6, <1>7, <1>9, <1>10, <1>11 DEF EngineWorker

(* A verdict ends the one run there was; nothing else the page hears does. *)
LEMMA MessagesKeepRuns ==
    ASSUME RunsInv, Messages
    PROVE  /\ InMail(inbox', posted', worker'.at, runs')
           /\ clears' = 0 => OneAtATime'
<1> DEFINE m == inbox[1]
           D == Due(inbox, worker.at, runs)
           T == Due(Tail(inbox), worker.at, runs)
<1>0. /\ Typed /\ inbox # <<>> /\ inbox \in Seq(Letters) /\ Head(inbox) = m /\ m \in Letters
      /\ inbox' = Tail(inbox) /\ UNCHANGED <<clears, posted, runs, worker>>
      /\ runs \in Nat /\ jobRunning \in BOOLEAN
      /\ InMail(inbox, posted, worker.at, runs)
      /\ clears = 0 => Calm(stage.kind, jobRunning, D, inbox, runs)
  BY MessageTaken, PageConstantsUsed DEF RunsInv, Typed, TypeOK, OneAtATime
<1>1. /\ InMail(Tail(inbox), posted, worker.at, runs)
      /\ \A i \in 1..Len(Tail(inbox)) : Tail(inbox)[i].type # "probe"
      /\ T \subseteq D
  BY <1>0, MailShown
<1>2. Probes(Tail(inbox)) = {}
  BY <1>1 DEF Probes
<1>3. InMail(inbox', posted', worker'.at, runs')
  BY <1>0, <1>1
<1>4. m.type \notin Verdict => T = D
  BY <1>0, DueAfterPlain
<1>5. m.type \in Verdict => m.run \in D /\ m.run \notin T
  BY <1>0, DueAfterVerdict
<1> SUFFICES ASSUME clears = 0 PROVE Calm(stage'.kind, jobRunning', T, Tail(inbox), runs)
  BY <1>0, <1>3 DEF OneAtATime
<1>6. /\ stage.kind \in Buttons => D = {}
      /\ jobRunning <=> D # {}
      /\ \A a, b \in D : a = b
      /\ Probes(inbox) # {} => runs = 0 /\ stage.kind = "blank"
  BY <1>0 DEF Calm
<1>7. CASE ProbeAnswered
  <2>1. m.type = "probe" /\ jobRunning' = jobRunning
    BY <1>0, <1>7 DEF ProbeAnswered, Received
  <2>2. 1 \in Probes(inbox)
    BY <1>0, <2>1, OneLess DEF Probes
  <2>3. runs = 0
    BY <1>6, <2>2
  <2>4. D = {}
    BY <2>3 DEF Due
  <2> HIDE DEF T, D
  <2>5. T = {}
    BY <1>1, <2>4
  <2> QED
    BY <1>2, <1>6, <2>1, <2>4, <2>5 DEF Calm
<1>8. CASE MatrixShown \/ ReplayShown \/ WalkShown
  <2>1. m.type \notin Verdict
    BY <1>0, <1>8 DEF MatrixShown, ReplayShown, WalkShown, Received, Verdict
  <2>2. stage'.kind \in {stage.kind, "replaying"} /\ jobRunning' = jobRunning
    BY <1>8, PaintIs DEF MatrixShown, ReplayShown, WalkShown, screen
  <2> HIDE DEF T, D
  <2> QED
    BY <1>2, <1>4, <1>6, <2>1, <2>2 DEF Calm, Buttons
<1>9. CASE AlarmShown \/ VerifiedShown \/ StaleShown \/ FailedShown
  <2>1. m.type \in Verdict
    BY <1>0, <1>9 DEF AlarmShown, VerifiedShown, StaleShown, FailedShown, Received, Verdict
  <2>2. jobRunning' = FALSE
    BY <1>9 DEF AlarmShown, VerifiedShown, StaleShown, FailedShown
  <2> HIDE DEF T, D
  <2>3. T = {}
    BY <1>1, <1>5, <1>6, <2>1
  <2> QED
    BY <1>2, <2>2, <2>3 DEF Calm
<1> QED
  BY <1>7, <1>8, <1>9 DEF Messages

(* A run is only asked for from a stage with buttons: when nothing is due. *)
LEMMA ClicksKeepRuns ==
    ASSUME RunsInv, Clicks
    PROVE  /\ InMail(inbox', posted', worker'.at, runs')
           /\ clears' = 0 => OneAtATime'
<1> DEFINE D == Due(inbox, worker.at, runs)
<1>0. /\ Typed /\ inbox \in Seq(Letters) /\ posted \in Seq(Orders) /\ runs \in Nat
      /\ clears \in Nat
      /\ InMail(inbox, posted, worker.at, runs)
      /\ clears = 0 => Calm(stage.kind, jobRunning, D, inbox, runs)
  BY PageConstantsUsed DEF RunsInv, Typed, TypeOK, OneAtATime
<1>1. CASE Go \/ Tamper
  <2>1. PICK tamper \in BOOLEAN : PostRun(tamper)
    BY <1>1 DEF Go, Tamper
  <2>2. stage.kind \in Buttons
    BY <1>1 DEF Go, Tamper, Buttons
  <2>3. /\ stage'.kind = "phases" /\ runs < Runs /\ runs' = runs + 1 /\ jobRunning' = TRUE
        /\ UNCHANGED <<storageRow, inbox, worker>>
    BY <1>0, <2>1, PostRunIs
  <2>4. PICK m \in Orders : m.type = "run" /\ m.run = runs' /\ posted' = Append(posted, m)
    BY <1>0, <2>1, PostRunIs
  <2>5. /\ InMail(inbox, Append(posted, m), worker.at, runs + 1)
        /\ Due(inbox, worker.at, runs + 1) = D \cup {runs + 1}
    BY <1>0, <2>3, <2>4, MailOrdered
  <2>6. clears' = clears
    BY <2>3 DEF storageRow
  <2> HIDE DEF D
  <2>7. ASSUME clears = 0 PROVE Calm("phases", TRUE, {runs + 1}, inbox, runs + 1) /\ D = {}
    <3>1. D = {} /\ Probes(inbox) = {}
      BY <1>0, <2>2, <2>7 DEF Calm, Buttons
    <3> QED
      BY <3>1 DEF Calm, Buttons
  <2>8. clears = 0 => Due(inbox, worker.at, runs + 1) = {runs + 1}
    BY <2>5, <2>7
  <2> QED
    BY <2>3, <2>4, <2>5, <2>6, <2>7, <2>8 DEF OneAtATime
<1>2. CASE Fresh
  <2>1. /\ stage.kind \in {"ready", "result"} /\ stage'.kind = "consent"
        /\ UNCHANGED <<jobRunning, storageRow, inbox, posted, runs, worker>>
    BY <1>2, FreshIs
  <2>2. clears' = clears
    BY <2>1 DEF storageRow
  <2> HIDE DEF D
  <2>3. clears = 0 => Calm("consent", jobRunning, D, inbox, runs)
    BY <1>0, <2>1 DEF Calm, Buttons
  <2> QED
    BY <1>0, <2>1, <2>2, <2>3 DEF OneAtATime, D
<1>3. CASE AskWalk
  <2>1. UNCHANGED <<stage, jobRunning, storageRow, inbox, runs, worker>>
    BY <1>0, <1>3, AskWalkIs
  <2>2. PICK m \in Orders : m.type = "walk" /\ posted' = Append(posted, m)
    BY <1>0, <1>3, AskWalkIs
  <2>3. InMail(inbox, Append(posted, m), worker.at, runs)
    BY <1>0, <2>2, MailWalkAsked
  <2>4. clears' = clears
    BY <2>1 DEF storageRow
  <2> QED
    BY <1>0, <2>1, <2>2, <2>3, <2>4 DEF OneAtATime
<1>4. CASE Clear \/ ClearTimer
  <2>1. UNCHANGED <<inbox, posted, runs, worker>>
    BY <1>0, <1>4, ClearIs, ClearTimerIs
  <2>2. clears' # 0
    BY <1>0, <1>4, ClearIs, ClearTimerIs
  <2> QED
    BY <1>0, <2>1, <2>2
<1> QED
  BY <1>1, <1>2, <1>3, <1>4 DEF Clicks

LEMMA RunsInvInit == Init => RunsInv
<1> SUFFICES ASSUME Init PROVE RunsInv
  OBVIOUS
<1>1. PICK warm, able \in BOOLEAN : inbox = <<[type |-> "probe", warm |-> warm, able |-> able]>>
  BY DEF Init
<1>2. Len(inbox) = 1 /\ inbox[1].type = "probe" /\ DOMAIN inbox = 1..1
  BY <1>1
<1>3. posted = <<>> /\ Len(posted) = 0 /\ runs = 0 /\ jobRunning = FALSE /\ stage.kind = "blank"
  BY DEF Init, Stage
<1>4. \A r \in 1..Runs : worker.at[r] = "unasked"
  BY DEF Init
<1>5. \A i \in 1..Len(inbox) : i = 1 /\ inbox[i].type = "probe"
  BY <1>2
<1>6. VerdictsOnce(inbox, worker.at, runs) /\ ProbeFirst(inbox)
  BY <1>5 DEF VerdictsOnce, Answers, Verdict, ProbeFirst
<1>7. OrdersOnce(posted, worker.at, runs) /\ OnlyAsked(worker.at, runs)
  BY <1>3, <1>4 DEF OrdersOnce, OnlyAsked
<1>8. Due(inbox, worker.at, runs) = {}
  BY <1>3 DEF Due
<1>9. OneAtATime
  BY <1>3, <1>8 DEF OneAtATime, Calm
<1> QED
  BY <1>6, <1>7, <1>9, TypedInit DEF RunsInv, InMail

LEMMA RunsInvStep == RunsInv /\ [Next]_vars => RunsInv'
<1> SUFFICES ASSUME RunsInv, [Next]_vars PROVE RunsInv'
  OBVIOUS
<1>1. Typed'
  BY TypedStep DEF RunsInv
<1>2. InMail(inbox', posted', worker'.at, runs') /\ (clears' = 0 => OneAtATime')
  <2>1. CASE EngineWorker
    <3>1. UNCHANGED <<stage, jobRunning, clears, runs>>
      BY <2>1, PageWaits DEF RunsInv, Typed
    <3> QED
      BY <2>1, <3>1, WorkerKeepsRuns DEF RunsInv, OneAtATime, Calm
  <2>2. CASE UNCHANGED vars
    BY <2>2 DEF vars, RunsInv, OneAtATime
  <2> QED
    BY <2>1, <2>2, MessagesKeepRuns, ClicksKeepRuns DEF Next
<1> QED
  BY <1>1, <1>2 DEF RunsInv

LEMMA AtMostOne ==
    ASSUME NEW S, \A a, b \in S : a = b
    PROVE  Cardinality(S) <= 1
<1>1. CASE S = {}
  BY <1>1, FS_EmptySet
<1>2. CASE S # {}
  <2>1. PICK a : a \in S
    BY <1>2
  <2>2. S = {a}
    BY <2>1
  <2> QED
    BY <2>2, FS_Singleton
<1> QED
  BY <1>1, <1>2

LEMMA RunsAreGuarded == RunsInv => OneGuardedRun
<1> SUFFICES ASSUME RunsInv, clears = 0
             PROVE  Cardinality(Unanswered) <= 1 /\ (jobRunning <=> Unanswered # {})
  BY DEF OneGuardedRun
<1>1. Unanswered = Due(inbox, worker.at, runs)
  BY DEF Unanswered, Due, Answers
<1>2. Calm(stage.kind, jobRunning, Unanswered, inbox, runs)
  BY <1>1 DEF RunsInv, OneAtATime
<1> HIDE DEF Unanswered
<1> QED
  BY <1>2, AtMostOne DEF Calm

(* Without the clear button the page never waits for two runs, and warns   *)
(* of leaving exactly while it waits for one, however the letters of both  *)
(* sides interleave (index.html l.492-496, 600-613).                       *)
THEOREM RunsAreGuardedOneByOne == Spec => []OneGuardedRun
<1>1. Spec => []RunsInv
  BY RunsInvInit, RunsInvStep, PTL DEF Spec
<1> QED
  BY <1>1, RunsAreGuarded, PTL
=============================================================================
