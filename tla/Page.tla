-------------------------------- MODULE Page --------------------------------
(***************************************************************************)
(* The page's script, src/web/index.html: what is on the screen after      *)
(* every message of the worker and every click, the 400 ms timer of the    *)
(* clear button, and the guard against leaving while a run is under way.   *)
(*                                                                         *)
(* The page and its worker each run one handler at a time and exchange     *)
(* messages in order: `posted` to the worker, `inbox` back.  Messages name *)
(* no run.  The worker is VerifyWorker's, cut down to what its messages    *)
(* tell the page and to the tip that answers walks.                        *)
(***************************************************************************)
EXTENDS Naturals, Sequences, FiniteSets

CONSTANTS
    Runs,       \* at most this many "run" messages
    Walks,      \* and this many "walk" messages
    Clears,     \* and this many clicks on "clear"
    Heights,    \* block heights a proof may be of
    None        \* nothing there

(* The "verified" message: what a result remembers of it.                  *)
VerifiedLetter ==
    [type : {"verified"}, run : 1..Runs, tamper : BOOLEAN, height : Heights,
     trust : {"full", "cached"}]

ASSUME PageConstants ==
    /\ Runs \in Nat /\ Walks \in Nat /\ Clears \in Nat /\ Heights \subseteq Nat
    /\ None \notin VerifiedLetter

VARIABLES
    stage,       \* what #stagebody shows
    walkout,     \* #walkout and whether #walkgo is enabled, part of a result
    takeover,    \* the crimson screen appended last to #stage, over #stagebody
    chip,        \* the trust chip
    jobRunning,  \* warns on beforeunload
    clearable,   \* is #clear displayed?
    clears,      \* clicks on it
    timers,      \* setTimeouts of those clicks that have not fired
    posted,      \* messages to the worker
    inbox,       \* messages to the page
    runs,        \* "run" messages so far
    walks,       \* "walk" messages so far
    worker,      \* its runs, its walks and its tip
    last         \* the last verdict the page has shown

screen == <<stage, walkout, takeover, chip, jobRunning>>
storageRow == <<clearable, clears, timers>>
vars == <<stage, walkout, takeover, chip, jobRunning, clearable, clears, timers,
          posted, inbox, runs, walks, worker, last>>

Stage(kind) == [kind |-> kind, of |-> None]
NoWalk == [says |-> "no form", by |-> None, busy |-> FALSE]
EmptyForm == [says |-> "nothing", by |-> None, busy |-> FALSE]

Init ==
    /\ stage = Stage("blank") /\ walkout = NoWalk /\ takeover = "none"
    /\ chip = "unknown" /\ jobRunning = FALSE
    /\ clearable = FALSE /\ clears = 0 /\ timers = 0
    /\ posted = <<>> /\ runs = 0 /\ walks = 0
    /\ inbox \in {<<[type |-> "probe", warm |-> warm, able |-> able]>> :
                    warm, able \in BOOLEAN}
    /\ worker = [at |-> [r \in 1..Runs |-> "unasked"], tamper |-> [r \in 1..Runs |-> FALSE],
                 from |-> [w \in 1..Walks |-> None], tip |-> None]
    /\ last = [type |-> "none"]

----------------------------------------------------------------------------
(* The worker, as the page sees it.                                        *)

Posts(message) == inbox' = Append(inbox, message)
PageVars == <<screen, storageRow, runs, walks, last>>

(* A run begins: it supersedes whatever the last one accepted.             *)
RunTaken ==
    /\ posted # <<>> /\ Head(posted).type = "run"
    /\ posted' = Tail(posted)
    /\ worker' = [worker EXCEPT !.at[Head(posted).run] = "loading",
                                !.tamper[Head(posted).run] = Head(posted).tamper,
                                !.tip = None]
    /\ UNCHANGED <<PageVars, inbox>>

(* The replay is announced and done in one stretch, nothing in between.    *)
Replay == [type |-> "stage"]

(* A matrix was re-derived and stored (looked at once a run).              *)
MatrixScanned(r) ==
    /\ worker.at[r] = "loading"
    /\ worker' = [worker EXCEPT !.at[r] = "scanned"]
    /\ Posts([type |-> "matrix"])
    /\ UNCHANGED <<PageVars, posted>>

(* Any stretch may throw, before the proof is replayed or in the replay.   *)
RunFails(r) ==
    LET failed == [type |-> "failed", run |-> r, tamper |-> worker.tamper[r]] IN
    /\ worker.at[r] \in {"loading", "scanned"}
    /\ worker' = [worker EXCEPT !.at[r] = "over"]
    /\ inbox' \in {inbox \o <<failed>>, inbox \o <<Replay, failed>>}
    /\ UNCHANGED <<PageVars, posted>>

RunIsStale(r) ==
    /\ worker.at[r] \in {"loading", "scanned"}
    /\ worker' = [worker EXCEPT !.at[r] = "over"]
    /\ inbox' = inbox \o <<Replay, [type |-> "stale", run |-> r]>>
    /\ UNCHANGED <<PageVars, posted>>

(* FULL needs every matrix re-derived, so at least one.  That a tampered   *)
(* proof is accepted "must never happen" (l.721); the page is ready for it.*)
RunVerifies(r, height, trust) ==
    /\ worker.at[r] \in (IF trust = "full" THEN {"scanned"} ELSE {"loading", "scanned"})
    /\ worker' = [worker EXCEPT !.at[r] = "over", !.tip = [run |-> r, height |-> height]]
    /\ inbox' = inbox \o
          <<Replay, [type |-> "verified", run |-> r, tamper |-> worker.tamper[r],
                     height |-> height, trust |-> trust]>>
    /\ UNCHANGED <<PageVars, posted>>

(* A walk is refused at once, without a tip or out of its range, or asks   *)
(* for headers from the tip it found.                                      *)
WalkTaken ==
    /\ posted # <<>> /\ Head(posted).type = "walk"
    /\ posted' = Tail(posted)
    /\ \/ /\ Posts([type |-> "walk-failed"])
          /\ UNCHANGED worker
       \/ /\ worker.tip # None
          /\ worker' = [worker EXCEPT !.from[Head(posted).walk] = worker.tip]
          /\ Posts([type |-> "walking"])
    /\ UNCHANGED PageVars

(* Mutant: answered by the tip the walk started from.                      *)
WalkAnsweredBySuperseded(w) ==
    /\ worker.from[w] # None
    /\ worker' = [worker EXCEPT !.from[w] = None]
    /\ Posts([type |-> "walked", says |-> "in chain", by |-> worker.from[w].run])
    /\ UNCHANGED <<PageVars, posted>>

(* The headers are here, or not.  The answer is that of the tip there is   *)
(* now: none throws, and one at another height counts the headers wrong.   *)
WalkAnswered(w) ==
    /\ worker.from[w] # None
    /\ worker' = [worker EXCEPT !.from[w] = None]
    /\ \/ Posts([type |-> "walk-failed"])
       \/ /\ worker.tip # None
          /\ \/ Posts([type |-> "walked", says |-> "not shown", by |-> worker.tip.run])
             \/ /\ worker.tip.height = worker.from[w].height
                /\ Posts([type |-> "walked", says |-> "in chain", by |-> worker.tip.run])
    /\ UNCHANGED <<PageVars, posted>>

----------------------------------------------------------------------------
(* The page: messages.                                                     *)

Received(type) == inbox # <<>> /\ Head(inbox).type = type /\ inbox' = Tail(inbox)
WorkerVars == <<posted, runs, walks, worker>>

(* Mutant: the walk form outlives the result.                              *)
PaintAround(s) == stage' = s /\ UNCHANGED walkout

(* paint replaces what is in #stagebody, its walk form included.           *)
Paint(s) == stage' = s /\ walkout' = NoWalk

(* An able device is offered its button; another is told why not.          *)
ProbeAnswered ==
    /\ Received("probe")
    /\ IF Head(inbox).able
       THEN /\ Paint(Stage(IF Head(inbox).warm THEN "ready" ELSE "consent"))
            /\ clearable' \in (IF Head(inbox).warm THEN {TRUE} ELSE BOOLEAN)
       ELSE Paint(Stage("unavailable")) /\ UNCHANGED clearable
    /\ UNCHANGED <<takeover, chip, jobRunning, clears, timers, WorkerVars, last>>

MatrixShown ==
    /\ Received("matrix")
    /\ clearable' = TRUE
    /\ UNCHANGED <<screen, clears, timers, WorkerVars, last>>

ReplayShown ==
    /\ Received("stage")
    /\ Paint(Stage("replaying"))
    /\ UNCHANGED <<takeover, chip, jobRunning, storageRow, WorkerVars, last>>

(* A tampered proof accepted: the alarm covers the stage, whatever is there. *)
AlarmShown ==
    /\ Received("verified") /\ Head(inbox).tamper
    /\ takeover' = "accepted" /\ chip' = "unknown" /\ jobRunning' = FALSE
    /\ last' = Head(inbox)
    /\ UNCHANGED <<stage, walkout, storageRow, WorkerVars>>

(* The walk form is there if the tip has blocks below it to ask for.       *)
VerifiedShown ==
    /\ Received("verified") /\ ~Head(inbox).tamper
    /\ stage' = [kind |-> "result", of |-> Head(inbox)]
    /\ walkout' \in {NoWalk, EmptyForm}
    /\ chip' = Head(inbox).trust /\ jobRunning' = FALSE
    /\ last' = Head(inbox)
    /\ UNCHANGED <<takeover, storageRow, WorkerVars>>

(* Mutant: amber leaves the chip as it was.                                *)
StaleShownUnderTheChip ==
    /\ Received("stale")
    /\ Paint(Stage("stale"))
    /\ jobRunning' = FALSE
    /\ last' = Head(inbox)
    /\ UNCHANGED <<takeover, chip, storageRow, WorkerVars>>

StaleShown ==
    /\ Received("stale")
    /\ Paint(Stage("stale"))
    /\ chip' = "unknown" /\ jobRunning' = FALSE
    /\ last' = Head(inbox)
    /\ UNCHANGED <<takeover, storageRow, WorkerVars>>

(* Mutant: the failure is written beside what is on the stage.             *)
FailedShownBeside ==
    /\ Received("failed")
    /\ chip' = "unknown" /\ jobRunning' = FALSE
    /\ last' = Head(inbox)
    /\ UNCHANGED <<stage, walkout, takeover, storageRow, WorkerVars>>

(* The stage is not painted: the crimson screen is appended over it.       *)
FailedShown ==
    /\ Received("failed")
    /\ takeover' = IF Head(inbox).tamper THEN "rejected" ELSE "failed"
    /\ chip' = "unknown" /\ jobRunning' = FALSE
    /\ last' = Head(inbox)
    /\ UNCHANGED <<stage, walkout, storageRow, WorkerVars>>

(* walkOut writes into the form, if there is one.                          *)
WalkOut(says, by, busy) ==
    walkout' = IF walkout = NoWalk THEN NoWalk ELSE [says |-> says, by |-> by, busy |-> busy]

WalkShown ==
    /\ \/ Received("walking") /\ WalkOut("walking", None, TRUE)
       \/ Received("walk-failed") /\ WalkOut("not shown", None, FALSE)
       \/ Received("walked") /\ WalkOut(Head(inbox).says, Head(inbox).by, FALSE)
    /\ UNCHANGED <<stage, takeover, chip, jobRunning, storageRow, WorkerVars, last>>

----------------------------------------------------------------------------
(* The page: clicks.  A button under a takeover still takes the keyboard.  *)

(* Mutant: the buttons stay where they are while the run is under way.     *)
PostRunUnpainted(tamper) ==
    /\ runs < Runs /\ runs' = runs + 1
    /\ chip' = "unknown" /\ jobRunning' = TRUE
    /\ posted' = Append(posted, [type |-> "run", run |-> runs + 1, tamper |-> tamper])
    /\ UNCHANGED <<stage, walkout, takeover, storageRow, inbox, walks, worker, last>>

PostRun(tamper) ==
    /\ runs < Runs /\ runs' = runs + 1
    /\ Paint(Stage("phases"))
    /\ chip' = "unknown" /\ jobRunning' = TRUE
    /\ posted' = Append(posted, [type |-> "run", run |-> runs + 1, tamper |-> tamper])
    /\ UNCHANGED <<takeover, storageRow, inbox, walks, worker, last>>

Go == stage.kind \in {"consent", "ready", "result", "stale"} /\ PostRun(FALSE)

Tamper == stage.kind \in {"ready", "result"} /\ PostRun(TRUE)

(* Deletes the stored parameters, which VerifyWorker follows; the chip     *)
(* keeps what it says.                                                     *)
Fresh ==
    /\ stage.kind \in {"ready", "result"}
    /\ Paint(Stage("consent"))
    /\ UNCHANGED <<takeover, chip, jobRunning, storageRow, inbox, WorkerVars, last>>

AskWalk ==
    /\ walkout # NoWalk /\ ~walkout.busy
    /\ walks < Walks /\ walks' = walks + 1
    /\ walkout' = [walkout EXCEPT !.busy = TRUE]
    /\ posted' = Append(posted, [type |-> "walk", walk |-> walks + 1])
    /\ UNCHANGED <<stage, takeover, chip, jobRunning, storageRow, inbox, runs, worker, last>>

(* Clear, confirmed.  Nothing looks at jobRunning.                         *)
Clear ==
    /\ clearable /\ clears < Clears
    /\ clears' = clears + 1 /\ timers' = timers + 1
    /\ UNCHANGED <<screen, clearable, inbox, WorkerVars, last>>

(* 400 ms later the page starts over, with whatever storage still holds.   *)
ClearTimer ==
    /\ timers > 0 /\ timers' = timers - 1
    /\ clearable' \in BOOLEAN
    /\ Paint(Stage("consent")) /\ chip' = "unknown"
    /\ UNCHANGED <<takeover, jobRunning, clears, inbox, WorkerVars, last>>

----------------------------------------------------------------------------
EngineWorker ==
    \/ RunTaken \/ WalkTaken
    \/ \E r \in 1..Runs : MatrixScanned(r) \/ RunFails(r) \/ RunIsStale(r)
    \/ \E r \in 1..Runs, height \in Heights, trust \in {"full", "cached"} :
          RunVerifies(r, height, trust)
    \/ \E w \in 1..Walks : WalkAnswered(w)

Messages ==
    \/ ProbeAnswered \/ MatrixShown \/ ReplayShown \/ AlarmShown \/ VerifiedShown
    \/ StaleShown \/ FailedShown \/ WalkShown

Clicks == Go \/ Tamper \/ Fresh \/ AskWalk \/ Clear \/ ClearTimer

Next == EngineWorker \/ Messages \/ Clicks

Spec == Init /\ [][Next]_vars

----------------------------------------------------------------------------
Verdict == {"verified", "stale", "failed"}

TypeOK ==
    /\ stage.kind \in {"blank", "unavailable", "consent", "ready", "phases",
                       "replaying", "result", "stale"}
    /\ stage.of # None <=> stage.kind = "result"
    /\ walkout # NoWalk => stage.kind = "result"
    /\ takeover \in {"none", "failed", "rejected", "accepted"}
    /\ chip \in {"unknown", "full", "cached"} /\ jobRunning \in BOOLEAN
    /\ clearable \in BOOLEAN /\ clears \in 0..Clears /\ timers \in 0..clears
    /\ runs \in 0..Runs /\ walks \in 0..Walks
    /\ last.type \in Verdict \cup {"none"}

(* Runs posted whose verdict the page has not handled.                     *)
Unanswered ==
    {r \in 1..runs : \/ worker.at[r] # "over"
                     \/ \E i \in DOMAIN inbox : inbox[i].type \in Verdict /\ inbox[i].run = r}

(* A stamp "Chain verified" that nothing covers is the last verdict's, and *)
(* the chip beside it is that run's trust: no older, failed or amber run   *)
(* stands behind it, however runs overlap (index.html l.719-745, 790-869). *)
StampIsTheLastVerdict ==
    (stage.kind = "result" /\ takeover = "none") =>
        stage.of = last /\ chip = last.trust /\ ~last.tamper

(* The chip names a trust level only while the last verdict earned it, on  *)
(* whatever stage it is shown (README.md l.248-255).                       *)
ChipIsEarned ==
    chip # "unknown" => last.type = "verified" /\ ~last.tamper /\ last.trust = chip

(* "In the verified chain" stands under the result of the very run whose   *)
(* tip answered the walk, though walks carry no run, the tip is read again *)
(* after the headers, and results are replaced meanwhile (l.822-842); the  *)
(* alarm of l.721, which paints nothing itself, included.                  *)
WalkUnderItsResult ==
    walkout.says = "in chain" => stage.kind = "result" /\ walkout.by = stage.of.run

(* Without the clear button there is at most one run at a time, and        *)
(* leaving is warned of exactly while there is one: the page has no other  *)
(* lock than the buttons it paints (l.492-496, 600-613).                   *)
OneGuardedRun ==
    clears = 0 => Cardinality(Unanswered) <= 1 /\ (jobRunning <=> Unanswered # {})

----------------------------------------------------------------------------
(* What a comment says and the code does not do.                           *)

(* index.html l.791-793: "verification failed" over a proof that did not   *)
(* fail is a false alarm, on the one page that must not cry wolf.          *)
CrimsonIsTheLastVerdict == takeover = "failed" => last.type = "failed"
=============================================================================
