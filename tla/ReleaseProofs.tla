--------------------------- MODULE ReleaseProofs ---------------------------
(***************************************************************************)
(* A release's way to its visitors, for any number of packs, releases,     *)
(* classes and any endpoint: what the metadata frame's checks are worth,   *)
(* what the native verifier prints, what a page builds a verifier of, and  *)
(* what a passed acceptance test says.                                     *)
(***************************************************************************)
EXTENDS Release, AncestryLemmas

----------------------------------------------------------------------------
(* The metadata frame.                                                     *)

(* Past the length checks every slice decode_metadata takes lies inside    *)
(* the file (lib.rs l.85-99), whatever the header claims and however many  *)
(* bits a usize has: nothing is hashed, copied or decoded out of bounds.   *)
THEOREM SlicesLieInTheFile ==
    ASSUME NEW f \in Frames, NEW pinned, NEW word \in Nat \ {0},
           Decode(f, pinned, word) \in Hashed
    PROVE  SlicesFit(f, word)
<1>1. f.length \in Nat /\ f.bodyLen \in Nat /\ BodyLength(f, word) \in Nat
  BY DEF Frames, BodyLength
<1>2. HeaderBytes + BodyLength(f, word) + TrailerBytes = f.length
      /\ BodyLength(f, word) > DigestsBytes
  <2>1. ~(ExpectedLength(f, word) # f.length \/ BodyLength(f, word) <= DigestsBytes)
    BY Zenon DEF Decode, Hashed
  <2>2. DigestsBytes \in Nat
    BY FrameConstants DEF DigestsBytes
  <2> QED
    BY <1>1, <2>1, <2>2 DEF ExpectedLength
<1>3. ASSUME NEW i \in 0..(Leaves - 1)
      PROVE  i * ClassBytes + ClassBytes <= BodyLength(f, word)
  <2>1. (i + 1) * ClassBytes <= Leaves * ClassBytes
    <3>1. i + 1 \in Nat /\ Leaves \in Nat /\ i + 1 <= Leaves /\ ClassBytes \in Nat
      BY FrameConstants
    <3>2. \A x, y, k \in Nat : x <= y => x * k <= y * k
      OBVIOUS
    <3> QED
      BY <3>1, <3>2
  <2>2. i * ClassBytes + ClassBytes = (i + 1) * ClassBytes /\ DigestsBytes = Leaves * ClassBytes
    BY FrameConstants DEF DigestsBytes
  <2> QED
    BY <1>1, <1>2, <2>1, <2>2, FrameConstants
<1> QED
  BY <1>1, <1>2, <1>3, FrameConstants DEF SlicesFit

(* Metadata that is accepted is the pinned release's (lib.rs l.91-93): the *)
(* digest covers the body alone, and a length that was cut to fit a usize  *)
(* changes nothing about which body that is.                               *)
THEOREM AcceptedBodyIsThePinned ==
    ASSUME NEW f \in Frames, NEW b \in Body, NEW word, Decode(f, Digest[b], word) = "ok"
    PROVE  f.body = b
<1>1. f.body \in Body
  BY DEF Frames
<1>2. Digest[f.body] = Digest[b]
  BY Zenon DEF Decode
<1> QED
  BY <1>1, <1>2, DigestInjective

(* A frame a release wrote is accepted under its own pin by any word that  *)
(* can hold its length, and so is one whose header claims a whole word     *)
(* more than the body has.                                                 *)
LEMMA RightLengthIsAccepted ==
    ASSUME NEW b, NEW n \in Nat, n > DigestsBytes,
           NEW word \in Nat, HeaderBytes + n + TrailerBytes < word,
           NEW f, f.magic, f.version = 1, f.length = HeaderBytes + n + TrailerBytes,
           f.body = b, f.trailer = Digest[b], BodyLength(f, word) = n
    PROVE  Decode(f, Digest[b], word) = "ok"
<1>1. DigestsBytes \in Nat
  BY FrameConstants DEF DigestsBytes
<1>2. ExpectedLength(f, word) = f.length
  BY DEF ExpectedLength
<1>3. /\ ~(f.length < HeaderBytes + DigestsBytes + TrailerBytes)
      /\ ~(ExpectedLength(f, word) >= word)
      /\ ~(ExpectedLength(f, word) # f.length \/ BodyLength(f, word) <= DigestsBytes)
  BY <1>1, <1>2, FrameConstants
<1> QED
  BY <1>3, Zenon DEF Decode

THEOREM ReleaseFrameIsAccepted ==
    ASSUME NEW b, NEW n \in Nat, n > DigestsBytes,
           NEW word \in Nat, HeaderBytes + n + TrailerBytes < word
    PROVE  /\ Decode(FrameOf(b, n), Digest[b], word) = "ok"
           /\ Decode([FrameOf(b, n) EXCEPT !.bodyLen = @ + word], Digest[b], word) = "ok"
<1>1. n < word /\ word > 0
  BY FrameConstants
<1>2. n % word = n
  BY <1>1
<1>3. (n + word) % word = n
  BY <1>1
<1>4. Decode(FrameOf(b, n), Digest[b], word) = "ok"
  <2> DEFINE f == FrameOf(b, n)
  <2>1. f.magic /\ f.version = 1 /\ f.length = HeaderBytes + n + TrailerBytes
        /\ f.body = b /\ f.trailer = Digest[b] /\ BodyLength(f, word) = n
    BY <1>2 DEF FrameOf, BodyLength
  <2> HIDE DEF f
  <2>2. Decode(f, Digest[b], word) = "ok"
    BY <2>1, RightLengthIsAccepted
  <2> QED
    BY <2>2 DEF f
<1>5. Decode([FrameOf(b, n) EXCEPT !.bodyLen = @ + word], Digest[b], word) = "ok"
  <2> DEFINE f == [FrameOf(b, n) EXCEPT !.bodyLen = @ + word]
  <2>1. f.magic /\ f.version = 1 /\ f.length = HeaderBytes + n + TrailerBytes
        /\ f.body = b /\ f.trailer = Digest[b] /\ BodyLength(f, word) = n
    BY <1>3 DEF FrameOf, BodyLength
  <2> HIDE DEF f
  <2>2. Decode(f, Digest[b], word) = "ok"
    BY <2>1, RightLengthIsAccepted
  <2> QED
    BY <2>2 DEF f
<1> QED
  BY <1>4, <1>5

----------------------------------------------------------------------------
(* What the native verifier's local variables hold, of a record j of them. *)
LocalGeneration(j) == RelationOf[j.pack]

BoundaryOf(j) == IF j.boundary = None THEN Trio(Missing, Missing, Missing) ELSE j.boundary

Beginning == {"idle", "terminal", "headers", "boundary", "verify"}
Walking   == {"range", "single"}

Fits(j) == /\ j \in JobRecords
           /\ j.pc \in Walking => j.verdict = "verified" /\ j.target \in Targets
                                  /\ j.at < j.tip.height /\ Len(j.got) = j.at - j.target

Read(j) == Decodes(LocalGeneration(j), j.trio)

BoundaryRead(j) == NeedsBoundary(LocalGeneration(j)) => Decodes(LocalGeneration(j), BoundaryOf(j))

(* What has been read before a request for headers, for the boundary and   *)
(* before the replay, and that nothing was said yet.                       *)
Reads(j) ==
    /\ j.pc # "idle" => j.pack \in Pack
    /\ j.pc \in {"headers", "boundary", "verify"} => j.terminal \in Terminal
    /\ j.pc \in {"boundary", "verify"} => j.trio \in DecodedTrios /\ Read(j)
    /\ j.pc = "verify" => BoundaryRead(j)
    /\ j.pc \in Beginning => /\ j.result = "none" /\ j.verdict = "none"
                             /\ j.answer.status = "none" /\ j.got = <<>>
    /\ j.pc # "verify" /\ j.pc \in Beginning => j.loaded = {}

Own(j) == \A m \in j.loaded : m[2] = j.pack

(* What has been printed follows from what was read.                       *)
Judges(j) ==
    /\ j.result = "none" => j.verdict \in {"none", "panic"} /\ j.answer.status = "none"
    /\ j.result # "none" =>
        /\ j.pack \in Pack /\ j.terminal \in Terminal /\ j.trio \in DecodedTrios
        /\ Read(j) /\ BoundaryRead(j)
        /\ j.verdict = VerdictOf(j.pack, j.terminal, j.result)
        /\ j.result = "MatrixSource" => Frame[j.terminal] = LocalGeneration(j)
        /\ j.result # "MatrixSource" =>
            j.result = DecodeVerifyRooted(LocalGeneration(j), j.terminal, j.trio,
                                          BoundaryOf(j), Holds(j.pack, j.terminal))
        /\ j.result = "Ok" =>
            /\ j.tip = TipOf(LocalGeneration(j), j.terminal, j.trio)
            /\ \A c \in Needs[j.terminal] : \E m \in j.loaded : m[1] = c

(* What has been fetched for a walk, and what was answered from it.        *)
Fetches(j) ==
    /\ j.got # <<>> => j.target \in Nat
    /\ \A i \in 1..Len(j.got) : j.got[i] \in Reply(j.target + i - 1)

WalksTruly(j) ==
    /\ j.pc \in Walking => j.result = "Ok" /\ j.target >= j.tip.root
    /\ j.answer.status \in {"in_chain", "not_shown"} =>
        /\ j.result = "Ok" /\ j.target \in Nat
        /\ j.answer = WalkTo(j.tip, j.target, j.got)
        /\ (j.tip.root <= j.target /\ j.target < j.tip.height) =>
              Len(j.got) = j.tip.height - j.target

JobHolds(j) == Fits(j) /\ Reads(j) /\ Own(j) /\ Judges(j) /\ Fetches(j) /\ WalksTruly(j)

NativeInv == assets \in Files /\ JobHolds(job)

(* The scripts: what they count, and what they promote is there.           *)
Promotes ==
    /\ op.pc = "promoting" => work[op.chosen].meta # NoPack
    /\ op.pc = "matrices" => op.step <= Classes

(* A page has the matrices of the classes before the one it waits for.     *)
PageHolds ==
    /\ page.pc = "metadata" => page.class = 1 /\ page.mats = {}
    /\ page.pc = "matrices" => page.meta = page.pin
            /\ page.mats = {<<c, page.pin>> : c \in 1..(page.class - 1)}
    /\ page.pc = "built" => page.meta = page.pin
            /\ page.mats = {<<c, page.pin>> : c \in Class}

(* Between the acceptance test and the end of the deployment nothing in    *)
(* assets/ changes; what the test has loaded lies there.                   *)
TestHolds ==
    /\ op.pc = "tested" => job.pack = assets.meta
            /\ \A m \in job.loaded : assets.mat[m[1]] = m[2]
    /\ op.accepted # None => op.pc = "deploying" /\ AcceptedIsTheChains

(* What a deployment has copied, and what is out when it is through.       *)
PublishedHolds ==
    /\ op.pc = "deploying" => /\ ~last.out /\ last.pin = pin
                              /\ last.whole => assets = Whole(pin)
    /\ (op.pc = "deploying" /\ last.whole) =>
            /\ \A c \in Class : c < op.step => site.files.mat[c] = pin
            /\ op.step > Classes + 1 => site.files.meta = pin
    /\ (last.out /\ last.whole) =>
            site = [worker |-> last.pin, files |-> Whole(last.pin)]

ReleaseInv == NativeInv /\ ReleaseTypeOK /\ Promotes /\ PageHolds /\ TestHolds /\ PublishedHolds

LEMMA NativeInvTypes == NativeInv => NativeTypeOK
BY DEF NativeInv, NativeTypeOK, JobHolds, Fits, Walking

LEMMA IdleJobHolds == JobHolds(IdleJob)
<1>1. /\ IdleJob.pc = "idle" /\ IdleJob.result = "none" /\ IdleJob.verdict = "none"
      /\ IdleJob.answer = [status |-> "none"] /\ IdleJob.loaded = {} /\ IdleJob.got = <<>>
  BY DEF IdleJob
<1>2. IdleJob \in JobRecords
  BY DEF IdleJob, JobRecords, NativePcs, Answers
<1>3. IdleJob.pc \notin Walking /\ Len(IdleJob.got) = 0
  BY <1>1 DEF Walking
<1>4. Fits(IdleJob) /\ Reads(IdleJob) /\ Own(IdleJob)
  BY <1>1, <1>2, <1>3 DEF Fits, Reads, Own
<1>5. Judges(IdleJob) /\ Fetches(IdleJob) /\ WalksTruly(IdleJob)
  BY <1>1, <1>3 DEF Judges, Fetches, WalksTruly
<1> QED
  BY <1>4, <1>5 DEF JobHolds

LEMMA VerdictIsPrinted ==
    ASSUME NEW pack, NEW t, NEW result
    PROVE  VerdictOf(pack, t, result) \in {"verified", "wrong_parameters", "unreadable", "failed"}
BY DEF VerdictOf

LEMMA PanicHolds ==
    ASSUME JobHolds(job), job.pc \notin {"idle", "done"}
    PROVE  JobHolds(Panic) /\ Panic.pack = job.pack /\ Panic.pc = "done"
           /\ Panic.terminal = job.terminal /\ Panic.loaded = job.loaded
<1>0. job \in JobRecords
  BY DEF JobHolds, Fits
<1>1. CASE job.verdict = "none"
  <2> DEFINE j == [job EXCEPT !.pc = "done", !.verdict = "panic"]
  <2>1. Panic = j
    BY <1>1 DEF Panic
  <2>2. job.result = "none"
    BY <1>1, VerdictIsPrinted DEF JobHolds, Judges
  <2>3. j \in JobRecords /\ j.pc = "done" /\ j.verdict = "panic" /\ j.result = "none"
        /\ j.pack = job.pack /\ j.answer = job.answer /\ j.loaded = job.loaded
        /\ j.got = job.got /\ j.target = job.target /\ j.terminal = job.terminal
    <3>1. j \in JobRecords
      BY <1>0, <2>2, ZenonT(40) DEF JobRecords, NativePcs
    <3>2. /\ j.pc = "done" /\ j.verdict = "panic" /\ j.result = "none"
          /\ j.pack = job.pack /\ j.answer = job.answer /\ j.loaded = job.loaded
          /\ j.got = job.got /\ j.target = job.target /\ j.terminal = job.terminal
      BY <1>0, <2>2 DEF JobRecords, NativePcs
    <3> QED
      BY <3>1, <3>2
  <2> HIDE DEF j
  <2>4. Fits(j) /\ Reads(j) /\ Own(j)
    BY <2>3 DEF JobHolds, Fits, Reads, Own, Walking, Beginning
  <2>5. Judges(j) /\ Fetches(j) /\ WalksTruly(j)
    BY <2>2, <2>3 DEF JobHolds, Judges, Fetches, WalksTruly, Walking
  <2> QED
    BY <2>1, <2>3, <2>4, <2>5 DEF JobHolds
<1>2. CASE job.verdict # "none"
  <2> DEFINE j == [job EXCEPT !.pc = "done", !.answer = [status |-> "panic"]]
  <2>1. Panic = j
    BY <1>2 DEF Panic
  <2>2. job.pc \in Walking
    BY <1>0, <1>2 DEF JobHolds, Reads, Beginning, Walking, JobRecords, NativePcs
  <2>3. [status |-> "panic"] \in Answers
    BY DEF Answers
  <2>4. j \in JobRecords /\ j.pc = "done" /\ j.verdict = job.verdict /\ j.result = job.result
        /\ j.pack = job.pack /\ j.answer = [status |-> "panic"] /\ j.loaded = job.loaded
        /\ j.got = job.got /\ j.target = job.target /\ j.terminal = job.terminal
        /\ j.trio = job.trio /\ j.boundary = job.boundary /\ j.tip = job.tip
    <3> DEFINE ended == [status |-> "panic"]
    <3>1. j = [job EXCEPT !.pc = "done", !.answer = ended] /\ ended \in Answers
      BY <2>3
    <3> HIDE DEF ended, j
    <3>2. j \in JobRecords
      BY <1>0, <3>1, ZenonT(40) DEF JobRecords, NativePcs
    <3>3. j.pc = "done" /\ j.verdict = job.verdict /\ j.result = job.result
          /\ j.pack = job.pack /\ j.answer = ended /\ j.loaded = job.loaded
          /\ j.got = job.got /\ j.target = job.target /\ j.terminal = job.terminal
          /\ j.trio = job.trio /\ j.boundary = job.boundary /\ j.tip = job.tip
      BY <1>0, <3>1 DEF JobRecords
    <3> QED
      BY <3>2, <3>3 DEF ended
  <2>5. job.result = "Ok"
    BY <2>2 DEF JobHolds, WalksTruly
  <2> HIDE DEF j
  <2>6. Fits(j) /\ Reads(j) /\ Own(j)
    BY <2>4 DEF JobHolds, Fits, Reads, Own, Walking, Beginning
  <2>7. Judges(j)
    BY <2>4, <2>5 DEF JobHolds, Judges, Read, BoundaryRead, LocalGeneration, BoundaryOf
  <2>8. Fetches(j) /\ WalksTruly(j)
    BY <2>4 DEF JobHolds, Fetches, WalksTruly, Walking
  <2> QED
    BY <2>1, <2>4, <2>6, <2>7, <2>8 DEF JobHolds
<1> QED
  BY <1>1, <1>2

----------------------------------------------------------------------------
(* Start, and the requests before the replay.                              *)
LEMMA StartHolds ==
    ASSUME NEW meta \in Pack, NEW target \in Targets \cup {None}, Start(meta, target)
    PROVE  JobHolds(job')
<1> DEFINE j == [IdleJob EXCEPT !.pc = "terminal", !.pack = meta, !.target = target]
           d == [j EXCEPT !.pc = "done", !.verdict = "panic"]
<1>0. IdleJob \in JobRecords /\ IdleJob.pc = "idle" /\ IdleJob.result = "none"
      /\ IdleJob.verdict = "none" /\ IdleJob.answer = [status |-> "none"]
      /\ IdleJob.loaded = {} /\ IdleJob.got = <<>>
  <2>1. JobHolds(IdleJob)
    BY IdleJobHolds
  <2> QED
    BY <2>1 DEF JobHolds, Fits, IdleJob
<1> HIDE DEF IdleJob
<1>1. j \in JobRecords /\ j.pc = "terminal" /\ j.pack = meta /\ j.result = "none"
      /\ j.verdict = "none" /\ j.answer = [status |-> "none"] /\ j.loaded = {} /\ j.got = <<>>
  <2>1. j \in JobRecords
    BY <1>0, ZenonT(40) DEF JobRecords, NativePcs
  <2>2. /\ j.pc = "terminal" /\ j.pack = meta /\ j.result = "none"
      /\ j.verdict = "none" /\ j.answer = [status |-> "none"] /\ j.loaded = {} /\ j.got = <<>>
    BY <1>0 DEF JobRecords, NativePcs
  <2> QED
    BY <2>1, <2>2
<1> HIDE DEF j
<1>2. d \in JobRecords /\ d.pc = "done" /\ d.pack = meta /\ d.result = "none"
      /\ d.verdict = "panic" /\ d.answer = [status |-> "none"] /\ d.loaded = {} /\ d.got = <<>>
  <2>1. d \in JobRecords
    BY <1>1, ZenonT(40) DEF JobRecords, NativePcs
  <2>2. /\ d.pc = "done" /\ d.pack = meta /\ d.result = "none"
      /\ d.verdict = "panic" /\ d.answer = [status |-> "none"] /\ d.loaded = {} /\ d.got = <<>>
    BY <1>1 DEF JobRecords, NativePcs
  <2> QED
    BY <2>1, <2>2
<1> HIDE DEF d
<1>3. JobHolds(j)
  BY <1>1 DEF JobHolds, Fits, Reads, Own, Judges, Fetches, WalksTruly, Walking, Beginning
<1>4. JobHolds(d)
  BY <1>2 DEF JobHolds, Fits, Reads, Own, Judges, Fetches, WalksTruly, Walking, Beginning
<1>5. job' = d \/ job' = j
  BY Zenon DEF Start, j, d
<1> QED
  BY <1>3, <1>4, <1>5

LEMMA TerminalComesHolds ==
    ASSUME JobHolds(job), TerminalComes
    PROVE  JobHolds(job')
<1>0. job \in JobRecords /\ job.pc = "terminal" /\ JobHolds(Panic)
  BY PanicHolds DEF TerminalComes, JobHolds, Fits
<1>1. PICK t \in Offers \cup {Missing} :
        job' = IF t = Missing \/ (t # Missing /\ WireHeight[t] = TooShort) THEN Panic
               ELSE [job EXCEPT !.pc = "headers", !.terminal = t]
  BY DEF TerminalComes
<1>2. CASE t \in Offers /\ job' = [job EXCEPT !.pc = "headers", !.terminal = t]
  <2> DEFINE j == [job EXCEPT !.pc = "headers", !.terminal = t]
  <2>1. t \in Terminal
    BY <1>2, NativeConstants
  <2>2. j \in JobRecords /\ j.pc = "headers" /\ j.terminal \in Terminal
        /\ j.pack = job.pack /\ j.result = job.result /\ j.verdict = job.verdict
        /\ j.answer = job.answer /\ j.loaded = job.loaded /\ j.got = job.got
    <3>1. j \in JobRecords
      BY <1>0, <2>1, ZenonT(40) DEF JobRecords, NativePcs
    <3>2. /\ j.pc = "headers" /\ j.terminal \in Terminal
          /\ j.pack = job.pack /\ j.result = job.result /\ j.verdict = job.verdict
          /\ j.answer = job.answer /\ j.loaded = job.loaded /\ j.got = job.got
      BY <1>0, <2>1 DEF JobRecords, NativePcs
    <3> QED
      BY <3>1, <3>2
  <2> HIDE DEF j
  <2>3. JobHolds(j)
    BY <1>0, <2>2 DEF JobHolds, Fits, Reads, Own, Judges, Fetches, WalksTruly, Walking, Beginning
  <2> QED
    BY <1>2, <2>3 DEF j
<1> QED
  BY <1>0, <1>1, <1>2

LEMMA TriosDecode ==
    ASSUME NEW g, NEW trio, Decodes(g, trio), NEW need, trio \in Trios(need)
    PROVE  trio \in DecodedTrios
BY DEF Decodes, DecodedTrios, Trios, Trio

LEMMA HeadersComeHolds ==
    ASSUME JobHolds(job), HeadersCome
    PROVE  JobHolds(job')
<1>0. job \in JobRecords /\ job.pc = "headers" /\ JobHolds(Panic)
  BY PanicHolds DEF HeadersCome, JobHolds, Fits
<1>1. PICK trio \in Trios(AnchorHeights(Generation, WireHeight[job.terminal])) :
        job' = IF ~Decodes(Generation, trio) THEN Panic
               ELSE [job EXCEPT !.trio = trio, !.pc = IF NeedsBoundary(Generation)
                                                      THEN "boundary" ELSE "verify"]
  BY DEF HeadersCome
<1>2. ASSUME NEW pc \in {"boundary", "verify"}, Decodes(Generation, trio),
             pc = "verify" => ~NeedsBoundary(Generation)
      PROVE  JobHolds([job EXCEPT !.trio = trio, !.pc = pc])
  <2> DEFINE j == [job EXCEPT !.trio = trio, !.pc = pc]
  <2>1. trio \in DecodedTrios
    BY <1>2, TriosDecode
  <2>2. j \in JobRecords /\ j.pc = pc /\ j.terminal = job.terminal /\ j.trio \in DecodedTrios
        /\ j.pack = job.pack /\ j.result = job.result /\ j.verdict = job.verdict
        /\ j.answer = job.answer /\ j.loaded = job.loaded /\ j.got = job.got
        /\ j.trio = trio
    <3>1. j \in JobRecords
      BY <1>0, <2>1, ZenonT(40) DEF JobRecords, NativePcs
    <3>2. /\ j.pc = pc /\ j.terminal = job.terminal /\ j.trio \in DecodedTrios
          /\ j.pack = job.pack /\ j.result = job.result /\ j.verdict = job.verdict
          /\ j.answer = job.answer /\ j.loaded = job.loaded /\ j.got = job.got
          /\ j.trio = trio
      BY <1>0, <2>1 DEF JobRecords, NativePcs
    <3> QED
      BY <3>1, <3>2
  <2> HIDE DEF j
  <2>4. Read(j) /\ (j.pc = "verify" => BoundaryRead(j))
    BY <1>2, <2>2 DEF Read, BoundaryRead, LocalGeneration, Generation
  <2>3. JobHolds(j)
    BY <1>0, <2>2, <2>4 DEF JobHolds, Fits, Reads, Own, Judges, Fetches, WalksTruly, Walking, Beginning
  <2> QED
    BY <2>3 DEF j
<1> QED
  BY <1>0, <1>1, <1>2

LEMMA BoundaryComesHolds ==
    ASSUME JobHolds(job), BoundaryComes
    PROVE  JobHolds(job')
<1>0. job \in JobRecords /\ job.pc = "boundary" /\ JobHolds(Panic)
  BY PanicHolds DEF BoundaryComes, JobHolds, Fits
<1>1. PICK trio \in Trios(AnchorHeights(Generation, RecursionRootHeight(Generation))) :
        job' = IF ~Decodes(Generation, trio) THEN Panic
               ELSE [job EXCEPT !.boundary = trio, !.pc = "verify"]
  BY DEF BoundaryComes
<1>2. ASSUME Decodes(Generation, trio)
      PROVE  JobHolds([job EXCEPT !.boundary = trio, !.pc = "verify"])
  <2> DEFINE j == [job EXCEPT !.boundary = trio, !.pc = "verify"]
  <2>1. trio \in DecodedTrios
    BY <1>2, TriosDecode
  <2>2. j \in JobRecords /\ j.pc = "verify" /\ j.terminal = job.terminal /\ j.trio = job.trio
        /\ j.pack = job.pack /\ j.result = job.result /\ j.verdict = job.verdict
        /\ j.answer = job.answer /\ j.loaded = job.loaded /\ j.got = job.got
        /\ j.boundary = trio /\ trio # None
    <3>1. j \in JobRecords
      BY <1>0, <2>1, NativeConstants, ZenonT(40) DEF JobRecords, NativePcs
    <3>2. /\ j.pc = "verify" /\ j.terminal = job.terminal /\ j.trio = job.trio
          /\ j.pack = job.pack /\ j.result = job.result /\ j.verdict = job.verdict
          /\ j.answer = job.answer /\ j.loaded = job.loaded /\ j.got = job.got
          /\ j.boundary = trio /\ trio # None
      BY <1>0, <2>1, NativeConstants DEF JobRecords, NativePcs
    <3> QED
      BY <3>1, <3>2
  <2> HIDE DEF j
  <2>4. Read(j) /\ BoundaryRead(j)
    BY <1>0, <1>2, <2>2 DEF JobHolds, Reads, Read, BoundaryRead, LocalGeneration, Generation,
                            BoundaryOf
  <2>3. JobHolds(j)
    BY <1>0, <2>2, <2>4 DEF JobHolds, Fits, Reads, Own, Judges, Fetches, WalksTruly, Walking, Beginning
  <2> QED
    BY <2>3 DEF j
<1> QED
  BY <1>0, <1>1, <1>2

----------------------------------------------------------------------------
(* The verdict.                                                            *)
LEMMA DecodeIsConclusive ==
    ASSUME NEW g, NEW t \in Terminal, NEW trio, NEW boundary, NEW checks
    PROVE  DecodeVerifyRooted(g, t, trio, boundary, checks)
               \in {"Ok", "Verify(Branch)", "Verify(Auxiliary)"} \cup UnreadableFrame
BY ForeignFrames, Zenon DEF DecodeVerifyRooted

LEMMA OkMeansSound ==
    ASSUME NEW g, NEW t \in Terminal, NEW trio, NEW boundary, NEW checks,
           DecodeVerifyRooted(g, t, trio, boundary, checks) = "Ok"
    PROVE  Frame[t] = g /\ BindsBranch(g, t, trio, boundary) /\ checks
<1>1. FrameError[t] # "Ok"
  BY ForeignFrames DEF UnreadableFrame
<1> QED
  BY <1>1, Zenon DEF DecodeVerifyRooted

LEMMA TipIsTyped ==
    ASSUME NEW g, NEW t \in Terminal, NEW trio \in DecodedTrios
    PROVE  TipOf(g, t, trio) \in [height : Int, parent : Hash, root : Int, proof : Terminal]
<1>1. RecursionRootHeight(g) \in Int
  BY NativeConstants DEF RecursionRootHeight, NoRoot, NotScheduled
<1>2. ParentOf[trio.header] \in Hash /\ WireHeight[t] \in Int
  BY HeaderFields, ForeignFrames DEF DecodedTrios
<1> QED
  BY <1>1, <1>2 DEF TipOf

LEMMA NotShownIsAnswer ==
    \A reason \in {"below root", "undecodable", "NotBelowTip", "Count", "Height", "Link"} :
        NotShown(reason) \in Answers /\ NotShown(reason).status = "not_shown"
BY DEF NotShown, Answers

LEMMA WalkBeginsHolds ==
    ASSUME NEW j \in JobRecords, JobHolds(j), j.pc = "done", j.result = "Ok",
           j.verdict = "verified", j.answer.status = "none", j.got = <<>>
    PROVE  JobHolds(WalkBegins(j))
<1>0. j.target \in Targets \cup {None} /\ Targets \subseteq Nat /\ None \notin Nat
      /\ j.tip.height \in Int /\ j.tip.root \in Int
  <2>1. j.terminal \in Terminal /\ j.trio \in DecodedTrios
        /\ j.tip = TipOf(LocalGeneration(j), j.terminal, j.trio)
    BY DEF JobHolds, Judges
  <2>2. j.tip \in [height : Int, parent : Hash, root : Int, proof : Terminal]
    BY <2>1, TipIsTyped
  <2>3. j.target \in Targets \cup {None}
    BY DEF JobRecords
  <2> QED
    BY <2>2, <2>3, NativeConstants
<1>a. j.target # None => j.target \in Targets /\ j.target \in Nat
  BY <1>0
<1>1. CASE j.target = None
  BY <1>1 DEF WalkBegins
<1>2. ASSUME NEW answer \in Answers, j.target # None,
             answer = WalkTo(j.tip, j.target, <<>>),
             ~(j.tip.root <= j.target /\ j.target < j.tip.height)
      PROVE  JobHolds([j EXCEPT !.answer = answer])
  <2> DEFINE k == [j EXCEPT !.answer = answer]
  <2>1. k \in JobRecords
    BY <1>2 DEF JobRecords
  <2>2. k.pc = "done" /\ k.result = "Ok" /\ k.pack = j.pack /\ k.terminal = j.terminal
        /\ k.trio = j.trio /\ k.boundary = j.boundary /\ k.loaded = j.loaded
        /\ k.got = <<>> /\ k.target = j.target /\ k.tip = j.tip /\ k.verdict = j.verdict
        /\ k.answer = answer
    BY <1>2 DEF JobRecords
  <2> HIDE DEF k
  <2>3. Fits(k) /\ Reads(k) /\ Own(k)
    BY <2>1, <2>2 DEF JobHolds, Fits, Reads, Own, Walking, Beginning
  <2>4. Judges(k)
    BY <2>2 DEF JobHolds, Judges, Read, BoundaryRead, LocalGeneration, BoundaryOf
  <2>5. Fetches(k)
    BY <2>2 DEF Fetches
  <2>6. WalksTruly(k)
    BY <1>a, <1>2, <2>2 DEF WalksTruly, Walking
  <2> QED
    BY <2>3, <2>4, <2>5, <2>6 DEF JobHolds, k
<1>3. CASE j.target # None /\ j.target < j.tip.root
  <2>1. NotShown("below root") \in Answers
    BY NotShownIsAnswer
  <2>2. NotShown("below root") = WalkTo(j.tip, j.target, <<>>)
    BY <1>3 DEF WalkTo
  <2>a. ~(j.tip.root <= j.target /\ j.target < j.tip.height)
    BY <1>0, <1>a, <1>3
  <2>3. JobHolds([j EXCEPT !.answer = NotShown("below root")])
    BY <1>2, <1>3, <2>1, <2>2, <2>a
  <2> QED
    BY <1>3, <2>3 DEF WalkBegins
<1>4. CASE j.target # None /\ ~(j.target < j.tip.root) /\ j.target >= j.tip.height
  <2>1. AllDecode(<<>>)
    BY DEF AllDecode
  <2>2. Walk(j.tip.height, j.tip.parent, j.target, <<>>)
            = NotBelowTip(j.target, j.tip.height)
    BY <1>4 DEF Walk
  <2>3. WalkTo(j.tip, j.target, <<>>) = NotShown("NotBelowTip")
    BY <1>4, <2>1, <2>2 DEF WalkTo, NotBelowTip
  <2>4. WalkTo(j.tip, j.target, <<>>) \in Answers
    BY <2>3, NotShownIsAnswer
  <2>5. JobHolds([j EXCEPT !.answer = WalkTo(j.tip, j.target, <<>>)])
    BY <1>0, <1>2, <1>4, <2>4
  <2> QED
    BY <1>4, <2>5 DEF WalkBegins
<1>5. CASE j.target # None /\ ~(j.target < j.tip.root) /\ ~(j.target >= j.tip.height)
  <2> DEFINE k == [j EXCEPT !.pc = "range", !.at = j.target]
  <2>1. k \in JobRecords
    BY <1>0, <1>5, ZenonT(40) DEF JobRecords, NativePcs
  <2>2. k.pc = "range" /\ k.result = "Ok" /\ k.pack = j.pack /\ k.terminal = j.terminal
        /\ k.trio = j.trio /\ k.boundary = j.boundary /\ k.loaded = j.loaded
        /\ k.got = <<>> /\ k.target = j.target /\ k.tip = j.tip /\ k.verdict = j.verdict
        /\ k.answer.status = "none" /\ k.at = j.target /\ Len(k.got) = 0
    BY DEF JobRecords
  <2> HIDE DEF k
  <2>a. j.target \in Targets /\ j.target \in Nat
    BY <1>a, <1>5
  <2>b. j.target < j.tip.height /\ j.target >= j.tip.root /\ j.target - j.target = 0
    BY <1>0, <1>5, <2>a
  <2>t. k.target \in Targets /\ k.target \in Nat
        /\ k.at < k.tip.height /\ k.target >= k.tip.root /\ k.at - k.target = 0
    BY <2>a, <2>b, <2>2
  <2>3. Fits(k) /\ Reads(k)
    BY <2>1, <2>2, <2>t DEF JobHolds, Fits, Reads, Walking, Beginning
  <2>4. Own(k) /\ Judges(k)
    BY <2>2 DEF JobHolds, Own, Judges, Read, BoundaryRead, LocalGeneration, BoundaryOf
  <2>5. Fetches(k)
    BY <2>2 DEF Fetches
  <2>6. WalksTruly(k)
    BY <2>2, <2>t DEF WalksTruly, Walking
  <2>7. JobHolds(k)
    BY <2>3, <2>4, <2>5, <2>6 DEF JobHolds
  <2> QED
    BY <1>5, <2>7 DEF WalkBegins, k
<1> QED
  BY <1>1, <1>3, <1>4, <1>5

LEMMA ConcludedHolds ==
    ASSUME JobHolds(job), job.pc = "verify", NEW result,
           \/ result = "MatrixSource" /\ OurFrame
           \/ /\ result = DecodeVerifyRooted(Generation, job.terminal, job.trio,
                              BoundaryHeader, Holds(job.pack, job.terminal))
              /\ Wanted \subseteq Held
    PROVE  JobHolds(Concluded(result))
<1> DEFINE verdict == VerdictOf(job.pack, job.terminal, result)
           j == [job EXCEPT !.pc = "done", !.result = result, !.verdict = verdict]
           tip == TipOf(Generation, job.terminal, job.trio)
           k == [j EXCEPT !.tip = tip]
<1>0. /\ job \in JobRecords /\ job.pack \in Pack /\ job.terminal \in Terminal
      /\ job.trio \in DecodedTrios /\ job.answer.status = "none" /\ job.got = <<>> /\ Own(job)
      /\ Read(job) /\ BoundaryRead(job)
  BY DEF JobHolds, Fits, Reads, Beginning
<1>1. result \in {"Ok", "MatrixSource", "Verify(Branch)", "Verify(Auxiliary)"} \cup UnreadableFrame
  BY <1>0, DecodeIsConclusive
<1>2. /\ result = "MatrixSource" => OurFrame
      /\ result # "MatrixSource" =>
            result = DecodeVerifyRooted(Generation, job.terminal, job.trio,
                         BoundaryHeader, Holds(job.pack, job.terminal))
            /\ Wanted \subseteq Held
  <2>1. "MatrixSource" \notin {"Ok", "Verify(Branch)", "Verify(Auxiliary)"} \cup UnreadableFrame
    BY DEF UnreadableFrame
  <2>2. DecodeVerifyRooted(Generation, job.terminal, job.trio, BoundaryHeader,
            Holds(job.pack, job.terminal)) # "MatrixSource"
    BY <1>0, <2>1, DecodeIsConclusive
  <2> QED
    BY <2>2
<1>3. verdict \in {"verified", "wrong_parameters", "unreadable", "failed"}
      /\ (result = "Ok" => verdict = "verified")
  BY VerdictIsPrinted DEF VerdictOf
<1> HIDE DEF verdict
<1>4. j \in JobRecords
  BY <1>0, <1>1, <1>3, ZenonT(40) DEF JobRecords, NativePcs
<1>5. j.pc = "done" /\ j.result = result /\ j.verdict = verdict /\ j.pack = job.pack
      /\ j.terminal = job.terminal /\ j.trio = job.trio /\ j.boundary = job.boundary
      /\ j.loaded = job.loaded /\ j.got = <<>> /\ j.answer.status = "none"
  BY <1>0 DEF JobRecords
<1> HIDE DEF j
<1>6. result # "none"
  BY <1>1 DEF UnreadableFrame
<1>7. BoundaryOf(j) = BoundaryHeader /\ LocalGeneration(j) = Generation
  BY <1>5 DEF BoundaryOf, BoundaryHeader, LocalGeneration, Generation
<1>8. CASE result # "Ok"
  <2>1. Concluded(result) = j
    BY <1>8 DEF Concluded, j, verdict
  <2>2. Fits(j) /\ Reads(j) /\ Own(j)
    BY <1>0, <1>4, <1>5 DEF Fits, Reads, Own, Walking, Beginning
  <2>3. Judges(j)
    <3>1. Read(j) /\ BoundaryRead(j)
      BY <1>0, <1>5 DEF Read, BoundaryRead, LocalGeneration, BoundaryOf
    <3> QED
      BY <1>0, <1>2, <1>5, <1>6, <1>7, <1>8, <3>1 DEF Judges, verdict, OurFrame
  <2>4. Fetches(j)
    BY <1>5 DEF Fetches
  <2>5. WalksTruly(j)
    BY <1>5 DEF WalksTruly, Walking
  <2> QED
    BY <2>1, <2>2, <2>3, <2>4, <2>5 DEF JobHolds
<1>9. CASE result = "Ok"
  <2>1. Concluded(result) = WalkBegins(k)
    BY <1>9 DEF Concluded, j, k, verdict, tip
  <2>2. tip \in [height : Int, parent : Hash, root : Int, proof : Terminal]
    BY <1>0, TipIsTyped
  <2> HIDE DEF tip
  <2>3. k \in JobRecords
    BY <1>4, <2>2 DEF JobRecords
  <2>4. k.pc = "done" /\ k.result = "Ok" /\ k.verdict = "verified" /\ k.pack = job.pack
        /\ k.terminal = job.terminal /\ k.trio = job.trio /\ k.boundary = job.boundary
        /\ k.loaded = job.loaded /\ k.got = <<>> /\ k.answer.status = "none" /\ k.tip = tip
    BY <1>3, <1>4, <1>5, <1>9 DEF JobRecords
  <2> HIDE DEF k
  <2>5. Frame[job.terminal] = Generation /\ Wanted \subseteq Held
    <3>1. Wanted \subseteq Held /\ DecodeVerifyRooted(Generation, job.terminal, job.trio,
              BoundaryHeader, Holds(job.pack, job.terminal)) = "Ok"
      BY <1>2, <1>9
    <3> QED
      BY <1>0, <3>1, OkMeansSound
  <2>6. \A c \in Needs[k.terminal] : \E m \in k.loaded : m[1] = c
    BY <2>4, <2>5 DEF Wanted, Held, OurFrame
  <2>7. Fits(k) /\ Reads(k) /\ Own(k)
    BY <1>0, <2>3, <2>4 DEF Fits, Reads, Own, Walking, Beginning
  <2>8. LocalGeneration(k) = Generation /\ BoundaryOf(k) = BoundaryHeader
    BY <2>4 DEF BoundaryOf, BoundaryHeader, LocalGeneration, Generation
  <2>9. Judges(k)
    <3>1. verdict = VerdictOf(job.pack, job.terminal, "Ok") /\ verdict = "verified"
      BY <1>3, <1>9 DEF verdict
    <3>2. tip = TipOf(LocalGeneration(k), k.terminal, k.trio)
      BY <2>4, <2>8 DEF tip
    <3>3. Read(k) /\ BoundaryRead(k)
      BY <1>0, <2>4 DEF Read, BoundaryRead, LocalGeneration, BoundaryOf
    <3> QED
      BY <1>0, <1>2, <1>9, <2>4, <2>6, <2>8, <3>1, <3>2, <3>3 DEF Judges
  <2>10. Fetches(k) /\ WalksTruly(k)
    BY <2>4 DEF Fetches, WalksTruly, Walking
  <2>11. JobHolds(k)
    BY <2>7, <2>9, <2>10 DEF JobHolds
  <2> QED
    BY <2>1, <2>3, <2>4, <2>11, WalkBeginsHolds
<1> QED
  BY <1>8, <1>9

LEMMA LoadHolds ==
    ASSUME JobHolds(job), assets \in Files, NEW c \in Class, Load(c)
    PROVE  JobHolds(job')
<1>0. job \in JobRecords /\ job.pc = "verify" /\ c \in Wanted /\ job.pack \in Pack
  BY DEF Load, JobHolds, Fits, Reads
<1>1. CASE assets.mat[c] = job.pack
  <2> DEFINE j == [job EXCEPT !.loaded = @ \cup {<<c, job.pack>>}]
  <2>1. j \in JobRecords
    BY <1>0 DEF JobRecords
  <2>2. j.pc = "verify" /\ j.terminal = job.terminal /\ j.trio = job.trio
        /\ j.pack = job.pack /\ j.result = job.result /\ j.verdict = job.verdict
        /\ j.answer = job.answer /\ j.loaded = job.loaded \cup {<<c, job.pack>>}
        /\ j.got = job.got /\ j.boundary = job.boundary
    BY <1>0 DEF JobRecords
  <2> HIDE DEF j
  <2>4. Read(j) /\ BoundaryRead(j)
    BY <1>0, <2>2 DEF JobHolds, Reads, Read, BoundaryRead, LocalGeneration, BoundaryOf
  <2>3. JobHolds(j)
    BY <1>0, <2>1, <2>2, <2>4 DEF JobHolds, Fits, Reads, Own, Judges, Fetches, WalksTruly, Walking, Beginning
  <2> QED
    BY <1>1, <2>3 DEF Load, j
<1>2. CASE assets.mat[c] # job.pack
  <2>1. OurFrame
    BY <1>0 DEF Wanted
  <2>2. JobHolds(Concluded("MatrixSource"))
    BY <1>0, <2>1, ConcludedHolds
  <2> QED
    BY <1>2, <2>2 DEF Load
<1> QED
  BY <1>1, <1>2

LEMMA ReplaysHolds ==
    ASSUME JobHolds(job), Replays
    PROVE  JobHolds(job')
<1>1. job.pc = "verify" /\ Wanted \subseteq Held /\ Own(job)
  BY DEF Replays, JobHolds
<1>2. Checks(job.pack, job.terminal, job.loaded) = {Holds(job.pack, job.terminal)}
  BY <1>1 DEF Checks, Own
<1>3. job' = Concluded(DecodeVerifyRooted(Generation, job.terminal, job.trio,
                           BoundaryHeader, Holds(job.pack, job.terminal)))
  BY <1>2 DEF Replays
<1> QED
  BY <1>1, <1>3, ConcludedHolds

----------------------------------------------------------------------------
(* The walk: what it is answered from, and what the answer says.           *)

LEMMA WalkKinds ==
    ASSUME NEW tipHeight, NEW parent, NEW target, NEW hs
    PROVE  Walk(tipHeight, parent, target, hs).kind
                \in {"InChain", "NotBelowTip", "Count", "Height", "Link"}
BY DEF Walk, InChain, NotBelowTip, Count, WrongHeight, BrokenLink

(* What walk_to answers about a history, of headers that all decode.       *)
LEMMA WalkToIsTrue ==
    ASSUME NEW tip, NEW chain, SealedHistory(chain, tip.root, tip.height, tip.parent),
           NEW target \in Nat, NEW hs \in Seq(Header)
    PROVE  /\ WalkTo(tip, target, hs) \in Answers
           /\ WalkTo(tip, target, hs).status = "in_chain" =>
                WalkTo(tip, target, hs).found = chain[target]
           /\ (WalkTo(tip, target, hs).status = "not_shown"
                    /\ tip.root <= target /\ target < tip.height) =>
                hs # RunOf(chain, target, tip.height)
<1> DEFINE w == Walk(tip.height, tip.parent, target, hs)
           a == WalkTo(tip, target, hs)
<1>1. tip.root \in Nat /\ tip.height \in Nat /\ AllDecode(hs)
  BY DEF SealedHistory, AllDecode
<1>2. CASE target < tip.root
  <2>1. a = NotShown("below root")
    BY <1>2 DEF WalkTo
  <2> HIDE DEF a
  <2>2. a \in Answers /\ a.status = "not_shown"
    BY <2>1, NotShownIsAnswer
  <2> QED
    BY <1>1, <1>2, <2>2 DEF a
<1>3. CASE ~(target < tip.root) /\ w.kind = "InChain"
  <2>1. target < tip.height /\ Len(hs) = tip.height - target
    <3>1. Walk(tip.height, tip.parent, target, hs).kind = "InChain"
      BY <1>3
    <3> HIDE DEF w
    <3> QED
      BY <1>1, <3>1, WalkAccepts
  <2>2. w.found = chain[target] /\ hs = RunOf(chain, target, tip.height)
    BY <1>1, <1>3, WalkIsSound
  <2>3. a = Shown(w.found)
    BY <1>1, <1>3 DEF WalkTo
  <2>4. w.found \in Header
    BY <1>1, <1>3, <2>1, <2>2 DEF SealedHistory
  <2> HIDE DEF w, a
  <2>5. a = [status |-> "in_chain", found |-> w.found]
    BY <2>3 DEF Shown
  <2>6. a \in Answers
    BY <2>4, <2>5 DEF Answers
  <2>7. a.status = "in_chain" /\ a.found = chain[target]
    BY <2>2, <2>5
  <2> QED
    BY <2>6, <2>7 DEF a
<1>4. CASE ~(target < tip.root) /\ w.kind # "InChain"
  <2>1. a = NotShown(w.kind)
    BY <1>1, <1>4 DEF WalkTo
  <2>3. (tip.root <= target /\ target < tip.height) => hs # RunOf(chain, target, tip.height)
    BY <1>1, <1>4, WalkIsComplete DEF InChain
  <2>4. w.kind \in {"InChain", "NotBelowTip", "Count", "Height", "Link"}
    BY WalkKinds
  <2> HIDE DEF a, w
  <2>2. a \in Answers /\ a.status = "not_shown"
    BY <1>4, <2>1, <2>4, NotShownIsAnswer
  <2> QED
    BY <2>2, <2>3 DEF a
<1> QED
  BY <1>2, <1>3, <1>4

(* A job that says verified has a tip under which a history is sealed.     *)
LEMMA ProvenTip ==
    ASSUME NEW j, JobHolds(j), j.result = "Ok"
    PROVE  /\ Holds(j.pack, j.terminal)
           /\ SealedHistory(History[j.terminal], j.tip.root, j.tip.height, j.tip.parent)
<1>1. /\ j.terminal \in Terminal /\ j.trio \in DecodedTrios
      /\ DecodeVerifyRooted(LocalGeneration(j), j.terminal, j.trio,
                            BoundaryOf(j), Holds(j.pack, j.terminal)) = "Ok"
      /\ j.tip = TipOf(LocalGeneration(j), j.terminal, j.trio)
  BY DEF JobHolds, Judges
<1>2. /\ Frame[j.terminal] = LocalGeneration(j) /\ Holds(j.pack, j.terminal)
      /\ BindsBranch(LocalGeneration(j), j.terminal, j.trio, BoundaryOf(j))
  BY <1>1, OkMeansSound
<1>3. Sound[j.terminal] /\ Statement[j.terminal].header \in Header /\ j.trio.header \in Header
  BY <1>1, <1>2, SoundProofs DEF Holds, DecodedTrios
<1>4. ParentOf[j.trio.header] = ParentOf[Statement[j.terminal].header]
  BY <1>2, <1>3, ProjectionCoversParent DEF BindsBranch
<1>5. /\ j.tip.root = RecursionRootHeight(Frame[j.terminal])
      /\ j.tip.height = WireHeight[j.terminal] /\ j.tip.parent = ParentOf[j.trio.header]
  BY <1>1, <1>2 DEF TipOf
<1> QED
  BY <1>1, <1>2, <1>3, <1>4, <1>5, SoundProofs

(* What a walking job holds, in numbers.                                   *)
LEMMA WalkingJob ==
    ASSUME JobHolds(job), job.pc \in Walking
    PROVE  /\ job \in JobRecords /\ job.result = "Ok" /\ job.verdict = "verified"
           /\ job.target \in Targets /\ job.target \in Nat /\ job.at \in Nat
           /\ job.tip.height \in Nat /\ job.tip.root \in Nat /\ job.target >= job.tip.root
           /\ job.at < job.tip.height /\ Len(job.got) = job.at - job.target
           /\ job.got \in Seq(Header)
<1>1. job.result = "Ok" /\ job.target >= job.tip.root
  BY DEF JobHolds, WalksTruly
<1>2. job.tip.height \in Nat /\ job.tip.root \in Nat
  BY <1>1, ProvenTip DEF SealedHistory
<1>3. job \in JobRecords /\ job.verdict = "verified" /\ job.target \in Targets
      /\ job.at < job.tip.height /\ Len(job.got) = job.at - job.target
  BY DEF JobHolds, Fits
<1>4. job.at \in Nat /\ job.got \in Seq(Header)
  BY <1>3 DEF JobRecords
<1> QED
  BY <1>1, <1>2, <1>3, <1>4, NativeConstants

LEMMA Concatenation ==
    ASSUME NEW S, NEW s \in Seq(S), NEW u \in Seq(S)
    PROVE  /\ s \o u \in Seq(S) /\ Len(s \o u) = Len(s) + Len(u)
           /\ Len(s) \in Nat /\ Len(u) \in Nat
           /\ \A i \in 1..Len(s) : (s \o u)[i] = s[i]
           /\ \A k \in 1..Len(u) : (s \o u)[Len(s) + k] = u[k]
OBVIOUS

(* A reply appended: one header for each of the next heights.              *)
LEMMA AppendedHolds ==
    ASSUME JobHolds(job), job.pc \in Walking, NEW pc \in Walking,
           NEW n \in Nat, n <= job.tip.height - job.at, NEW hs \in Runs(n)
    PROVE  JobHolds(Appended(hs, pc))
<1> DEFINE got == job.got \o hs
           at  == job.at + Len(hs)
<1>1. /\ job \in JobRecords /\ job.result = "Ok" /\ job.verdict = "verified"
      /\ job.target \in Targets /\ job.target \in Nat /\ job.at \in Nat
      /\ job.tip.height \in Nat /\ job.tip.root \in Nat /\ job.target >= job.tip.root
      /\ job.at < job.tip.height /\ Len(job.got) = job.at - job.target
      /\ job.got \in Seq(Header)
  BY WalkingJob
<1>2. /\ Len(hs) = n /\ hs \in [1..n -> Header \cup {Missing, Undecodable}]
      /\ \A i \in 1..n : hs[i] \in Reply(job.at + i - 1)
  BY DEF Runs
<1>3. CASE \E i \in 1..Len(hs) : hs[i] \notin Header
  <2>1. Appended(hs, pc) = Panic
    BY <1>3, Zenon DEF Appended
  <2>2. job.pc \notin {"idle", "done"}
    BY DEF Walking
  <2> QED
    BY <2>1, <2>2, PanicHolds
<1>4. CASE \A i \in 1..Len(hs) : hs[i] \in Header
  <2>1. hs \in Seq(Header)
    BY <1>2, <1>4
  <2>2. /\ got \in Seq(Header) /\ at \in Nat /\ at <= job.tip.height
        /\ Len(got) = at - job.target
    <3>1. got \in Seq(Header) /\ Len(got) = Len(job.got) + n
      BY <1>1, <1>2, <2>1, Concatenation
    <3> HIDE DEF got
    <3> QED
      BY <1>1, <1>2, <3>1, SMTT(40)
  <2>3. \A i \in 1..Len(got) : got[i] \in Reply(job.target + i - 1)
    <3>1. /\ \A i \in 1..Len(job.got) : got[i] = job.got[i]
          /\ \A k \in 1..n : got[Len(job.got) + k] = hs[k]
          /\ Len(got) = Len(job.got) + n
      <4>1. job.got \in Seq(Header) /\ n = Len(hs)
        BY <1>1, <1>2
      <4> QED
        BY <2>1, <4>1, Concatenation
    <3>2. \A i \in 1..Len(job.got) : job.got[i] \in Reply(job.target + i - 1)
      BY DEF JobHolds, Fetches
    <3> HIDE DEF got
    <3> TAKE i \in 1..Len(got)
    <3>3. CASE i <= Len(job.got)
      BY <1>1, <3>1, <3>2, <3>3
    <3>4. CASE ~(i <= Len(job.got))
      <4> DEFINE k == i - Len(job.got)
      <4>1. k \in 1..n /\ i = Len(job.got) + k /\ job.at + k - 1 = job.target + i - 1
        <5>1. PICK l \in Nat, from \in Nat, target \in Nat :
                l = Len(job.got) /\ from = job.at /\ target = job.target
          BY <1>1
        <5>2. i \in Nat /\ i <= l + n /\ ~(i <= l) /\ l = from - target
          BY <1>1, <3>1, <3>4, <5>1
        <5>3. i - l \in 1..n /\ i = l + (i - l) /\ from + (i - l) - 1 = target + i - 1
          BY <5>2
        <5> QED
          BY <5>1, <5>3
      <4>2. hs[k] \in Reply(job.at + k - 1) /\ got[Len(job.got) + k] = hs[k]
        BY <1>2, <3>1, <4>1
      <4> HIDE DEF k
      <4> QED
        BY <4>1, <4>2
    <3> QED
      BY <3>3, <3>4
  <2> HIDE DEF got, at
  <2>4. job.pack \in Pack /\ Own(job) /\ Judges(job)
    BY DEF JobHolds, Judges, Reads, Walking
  <2>5. CASE at < job.tip.height
    <3> DEFINE j == [job EXCEPT !.pc = pc, !.at = at, !.got = got]
    <3>1. Appended(hs, pc) = j
      BY <1>4, <2>5, Zenon DEF Appended, got, at
    <3>2. j \in JobRecords
      BY <1>1, <2>2, ZenonT(40) DEF JobRecords, NativePcs, Walking
    <3>3. j.pc = pc /\ j.at = at /\ j.got = got /\ j.pack = job.pack
          /\ j.terminal = job.terminal /\ j.trio = job.trio /\ j.boundary = job.boundary
          /\ j.loaded = job.loaded /\ j.result = job.result /\ j.verdict = job.verdict
          /\ j.tip = job.tip /\ j.target = job.target /\ j.answer = job.answer
      BY <1>1 DEF JobRecords
    <3> HIDE DEF j
    <3>4. Fits(j)
      BY <1>1, <2>2, <2>5, <3>2, <3>3 DEF Fits
    <3>5. Reads(j) /\ Own(j)
      BY <2>4, <3>3 DEF Reads, Own, Beginning, Walking
    <3>6. Judges(j)
      BY <2>4, <3>3 DEF Judges, Read, BoundaryRead, LocalGeneration, BoundaryOf
    <3>7. Fetches(j)
      BY <1>1, <2>3, <3>3 DEF Fetches
    <3>8. job.answer.status \notin {"in_chain", "not_shown"}
      <4>1. job.answer.status \in {"in_chain", "not_shown"} => Len(job.got) = job.tip.height - job.target
        BY <1>1 DEF JobHolds, WalksTruly
      <4> QED
        BY <1>1, <4>1
    <3>9. WalksTruly(j)
      BY <1>1, <3>3, <3>8 DEF WalksTruly
    <3> QED
      BY <3>1, <3>4, <3>5, <3>6, <3>7, <3>9 DEF JobHolds
  <2>6. CASE ~(at < job.tip.height)
    <3> DEFINE answer == WalkTo(job.tip, job.target, got)
               j == [job EXCEPT !.pc = "done", !.at = at, !.got = got, !.answer = answer]
    <3>1. Appended(hs, pc) = j
      BY <1>4, <2>6, Zenon DEF Appended, got, at
    <3>a. answer \in Answers
      BY <1>1, <2>2, ProvenTip, WalkToIsTrue
    <3>b. answer = WalkTo(job.tip, job.target, got)
      OBVIOUS
    <3> HIDE DEF answer
    <3>2. j \in JobRecords
      BY <1>1, <2>2, <3>a, ZenonT(40) DEF JobRecords, NativePcs
    <3>3. j.pc = "done" /\ j.at = at /\ j.got = got /\ j.pack = job.pack
          /\ j.terminal = job.terminal /\ j.trio = job.trio /\ j.boundary = job.boundary
          /\ j.loaded = job.loaded /\ j.result = job.result /\ j.verdict = job.verdict
          /\ j.tip = job.tip /\ j.target = job.target /\ j.answer = answer
      BY <1>1 DEF JobRecords
    <3> HIDE DEF j
    <3>4. Fits(j) /\ Reads(j) /\ Own(j)
      BY <2>4, <3>2, <3>3 DEF Fits, Reads, Own, Beginning, Walking
    <3>5. Judges(j)
      BY <1>1, <2>4, <3>3 DEF Judges, Read, BoundaryRead, LocalGeneration, BoundaryOf
    <3>6. Fetches(j)
      BY <1>1, <2>3, <3>3 DEF Fetches
    <3>7. Len(got) = job.tip.height - job.target
      BY <1>1, <2>2, <2>6
    <3>8. WalksTruly(j)
      BY <1>1, <3>b, <3>3, <3>7 DEF WalksTruly, Walking
    <3> QED
      BY <3>1, <3>4, <3>5, <3>6, <3>8 DEF JobHolds
  <2> QED
    BY <2>5, <2>6
<1> QED
  BY <1>3, <1>4

LEMMA RangeUnknownHolds ==
    ASSUME JobHolds(job), RangeUnknown
    PROVE  JobHolds(job')
<1> DEFINE j == [job EXCEPT !.pc = "single", !.at = job.target, !.got = <<>>]
<1>1. /\ job.pc \in Walking /\ job \in JobRecords /\ job.result = "Ok"
      /\ job.verdict = "verified" /\ job.target \in Targets /\ job.target \in Nat
      /\ job.at \in Nat /\ job.tip.height \in Nat /\ job.target >= job.tip.root
      /\ job.at < job.tip.height /\ Len(job.got) = job.at - job.target
      /\ job.got \in Seq(Header)
  BY WalkingJob DEF RangeUnknown, Walking
<1>2. j \in JobRecords
  <2>1. <<>> \in Seq(Header)
    OBVIOUS
  <2> DEFINE nothing == <<>>
  <2>2. j = [job EXCEPT !.pc = "single", !.at = job.target, !.got = nothing]
        /\ nothing \in Seq(Header)
    BY <2>1
  <2> HIDE DEF j, nothing
  <2> QED
    BY <1>1, <2>2, ZenonT(40) DEF JobRecords, NativePcs
<1>3. j.pc = "single" /\ j.at = job.target /\ j.got = <<>> /\ j.pack = job.pack
      /\ j.terminal = job.terminal /\ j.trio = job.trio /\ j.boundary = job.boundary
      /\ j.loaded = job.loaded /\ j.result = job.result /\ j.verdict = job.verdict
      /\ j.tip = job.tip /\ j.target = job.target /\ j.answer = job.answer
  BY <1>1 DEF JobRecords
<1>4. job' = j
  BY DEF RangeUnknown
<1> HIDE DEF j
<1>5. Len(j.got) = 0 /\ j.at < j.tip.height /\ j.at - j.target = 0
  <2>1. Len(job.got) \in Nat
    BY <1>1
  <2>2. job.target < job.tip.height
    BY <1>1, <2>1
  <2> QED
    BY <1>1, <1>3, <2>2
<1>6. Fits(j)
  BY <1>1, <1>2, <1>3, <1>5 DEF Fits
<1>7. Reads(j) /\ Own(j)
  BY <1>1, <1>3 DEF JobHolds, Reads, Own, Beginning, Walking
<1>8. Judges(j)
  BY <1>3 DEF JobHolds, Judges, Read, BoundaryRead, LocalGeneration, BoundaryOf
<1>9. Fetches(j)
  BY <1>3, <1>5 DEF Fetches
<1>10. job.answer.status \notin {"in_chain", "not_shown"}
  <2>1. job.answer.status \in {"in_chain", "not_shown"} =>
            ((job.tip.root <= job.target /\ job.target < job.tip.height) =>
                Len(job.got) = job.tip.height - job.target)
    BY DEF JobHolds, WalksTruly
  <2>2. job.tip.root <= job.target /\ job.target < job.tip.height
    BY <1>1, <1>3, <1>5, WalkingJob
  <2> QED
    BY <1>1, <2>1, <2>2
<1>11. WalksTruly(j)
  BY <1>1, <1>3, <1>10 DEF WalksTruly
<1> QED
  BY <1>4, <1>6, <1>7, <1>8, <1>9, <1>11 DEF JobHolds

LEMMA NativeStepHolds ==
    ASSUME NativeInv, NativeStep
    PROVE  NativeInv'
<1>1. assets \in Files /\ JobHolds(job)
  BY DEF NativeInv
<1>2. CASE TerminalComes
  BY <1>1, <1>2, TerminalComesHolds DEF NativeInv, TerminalComes
<1>3. CASE HeadersCome
  BY <1>1, <1>3, HeadersComeHolds DEF NativeInv, HeadersCome
<1>4. CASE BoundaryComes
  BY <1>1, <1>4, BoundaryComesHolds DEF NativeInv, BoundaryComes
<1>5. CASE \E c \in Class : Load(c)
  BY <1>1, <1>5, LoadHolds DEF NativeInv, Load
<1>6. CASE Replays
  BY <1>1, <1>6, ReplaysHolds DEF NativeInv, Replays
<1>7. CASE RangeComes
  <2>1. job.pc \in Walking /\ "range" \in Walking
    BY <1>7 DEF RangeComes, Walking
  <2>2. job.tip.height \in Nat /\ job.at \in Nat /\ job.at < job.tip.height
    BY <1>1, <2>1, WalkingJob
  <2>3. Batch \in Nat /\ Batch <= job.tip.height - job.at
    BY <2>2, NativeConstants DEF Batch
  <2> QED
    BY <1>1, <1>7, <2>1, <2>3, AppendedHolds DEF NativeInv, RangeComes
<1>8. CASE RangePanics
  BY <1>1, <1>8, PanicHolds DEF NativeInv, RangePanics
<1>9. CASE RangeUnknown
  BY <1>1, <1>9, RangeUnknownHolds DEF NativeInv, RangeUnknown
<1>10. CASE SingleComes
  <2>1. job.pc \in Walking /\ "single" \in Walking
    BY <1>10 DEF SingleComes, Walking
  <2>2. job.tip.height \in Nat /\ job.at \in Nat /\ job.at < job.tip.height
    BY <1>1, <2>1, WalkingJob
  <2>3. 1 \in Nat /\ 1 <= job.tip.height - job.at
    BY <2>2
  <2> QED
    BY <1>1, <1>10, <2>1, <2>3, AppendedHolds DEF NativeInv, SingleComes
<1> QED
  BY <1>2, <1>3, <1>4, <1>5, <1>6, <1>7, <1>8, <1>9, <1>10 DEF NativeStep

----------------------------------------------------------------------------
(* The native verifier among the scripts.                                  *)
LEMMA PromotedFits ==
    ASSUME ReleaseTypeOK, Promotes, assets \in Files
    PROVE  /\ PromoteMetadata => assets' \in Files
           /\ PromoteMatrix => assets' \in Files
<1>1. op.chosen \in Gen /\ work[op.chosen] \in Extracted /\ op.step \in 1..(Classes + 2)
  BY DEF ReleaseTypeOK
<1>2. ASSUME PromoteMetadata PROVE assets' \in Files
  <2>1. work[op.chosen].meta \in Pack
    BY <1>1, <1>2 DEF PromoteMetadata, Promotes, Extracted
  <2> QED
    BY <1>2, <2>1 DEF PromoteMetadata, Files
<1>3. ASSUME PromoteMatrix PROVE assets' \in Files
  <2>1. op.step \in Class
    BY <1>1, <1>3, NativeConstants DEF PromoteMatrix, Promotes, Class
  <2>2. work[op.chosen].mat[op.step] # NoPack => work[op.chosen].mat[op.step] \in Pack
    BY <1>1, <2>1 DEF Extracted
  <2> QED
    BY <1>3, <2>1, <2>2 DEF PromoteMatrix, Files
<1> QED
  BY <1>2, <1>3

LEMMA NativeInvNext ==
    ASSUME NativeInv, ReleaseTypeOK, Promotes, Next
    PROVE  NativeInv'
<1>1. assets \in Files /\ JobHolds(job)
  BY DEF NativeInv
<1>2. CASE NativeStep
  BY <1>2, NativeStepHolds
<1>3. CASE RunNative
  BY <1>1, <1>3, StartHolds, NativeConstants DEF RunNative, Start, NativeInv, Files
<1>4. CASE RunAcceptanceTest
  <2>1. Start(assets.meta, None) /\ assets.meta \in Pack
    BY <1>1, <1>4 DEF RunAcceptanceTest, Files
  <2>2. JobHolds(job') /\ assets' = assets
    BY <2>1, StartHolds DEF Start
  <2> QED
    BY <1>1, <2>2 DEF NativeInv
<1>5. CASE HeedTheTest
  <2>1. job' = IdleJob /\ assets' = assets
    BY <1>5 DEF HeedTheTest, DeployBegins
  <2> QED
    BY <1>1, <2>1, IdleJobHolds DEF NativeInv
<1>6. CASE PromoteMetadata \/ PromoteMatrix
  <2>1. job' = job /\ assets' \in Files
    BY <1>1, <1>6, PromotedFits DEF PromoteMetadata, PromoteMatrix
  <2> QED
    BY <1>1, <2>1 DEF NativeInv
<1>7. CASE UNCHANGED nativeVars
  BY <1>1, <1>7 DEF NativeInv, nativeVars
<1>8. ASSUME NEW tag \in Tag, NEW n \in 0..FilesOf(tag), Extract(tag, n)
      PROVE  UNCHANGED nativeVars
  BY <1>8 DEF Extract
<1>9. Choose \/ ComparePins \/ ScriptAborts \/ SetPin \/ DeployAnyway \/ Copy \/ PageStep
        => UNCHANGED nativeVars
  BY DEF Choose, ComparePins, ScriptAborts, SetPin, DeployAnyway, DeployBegins, Copy,
         PageStep, OpenPage, MetadataComes, MatrixComes, pageOnly, nativeVars
<1> QED
  BY <1>2, <1>3, <1>4, <1>5, <1>6, <1>7, <1>8, <1>9 DEF Next, Script, Native

(* What a step of the native verifier leaves of what the test is about.    *)
Keeps(j) == j.pack = job.pack /\ j.loaded = job.loaded

LEMMA ConcludedKeeps ==
    ASSUME job \in JobRecords, NEW result
    PROVE  Keeps(Concluded(result))
<1> DEFINE verdict == VerdictOf(job.pack, job.terminal, result)
           tip == TipOf(Generation, job.terminal, job.trio)
           j == [job EXCEPT !.pc = "done", !.result = result, !.verdict = verdict]
           k == [j EXCEPT !.tip = tip]
<1>1. Concluded(result) = IF result # "Ok" THEN j ELSE WalkBegins(k)
  BY DEF Concluded
<1> HIDE DEF verdict, tip
<1>2. Keeps(j) /\ DOMAIN j = DOMAIN job /\ "pack" \in DOMAIN job /\ "loaded" \in DOMAIN job
  BY DEF Keeps, JobRecords
<1> HIDE DEF j
<1>3. Keeps(k) /\ DOMAIN k = DOMAIN job
  BY <1>2 DEF Keeps
<1> HIDE DEF k
<1>4. WalkBegins(k) = k \/ (\E a : WalkBegins(k) = [k EXCEPT !.answer = a])
      \/ (\E a : WalkBegins(k) = [k EXCEPT !.pc = "range", !.at = a])
  BY Zenon DEF WalkBegins
<1>5. Keeps(WalkBegins(k))
  BY <1>2, <1>3, <1>4 DEF Keeps
<1> QED
  BY <1>1, <1>2, <1>5

LEMMA NativeKeeps ==
    ASSUME NativeInv, NativeStep
    PROVE  /\ assets' = assets /\ job'.pack = job.pack
           /\ \A m \in job'.loaded : m \in job.loaded \/ assets.mat[m[1]] = m[2]
<1>1. job \in JobRecords
  BY DEF NativeInv, JobHolds, Fits
<1>2. "pack" \in DOMAIN job /\ "loaded" \in DOMAIN job
  BY <1>1 DEF JobRecords
<1>3. Keeps(Panic)
  <2> DEFINE ended == [status |-> "panic"]
  <2>1. Panic = [job EXCEPT !.pc = "done", !.verdict = "panic"]
        \/ Panic = [job EXCEPT !.pc = "done", !.answer = ended]
    BY Zenon DEF Panic
  <2> HIDE DEF ended
  <2> QED
    BY <1>2, <2>1 DEF Keeps
<1>4. CASE TerminalComes
  BY <1>2, <1>3, <1>4 DEF TerminalComes, Keeps
<1>5. CASE HeadersCome
  BY <1>2, <1>3, <1>5 DEF HeadersCome, Keeps
<1>6. CASE BoundaryComes
  BY <1>2, <1>3, <1>6 DEF BoundaryComes, Keeps
<1>7. ASSUME NEW c \in Class, Load(c)
      PROVE  /\ assets' = assets /\ job'.pack = job.pack
             /\ \A m \in job'.loaded : m \in job.loaded \/ assets.mat[m[1]] = m[2]
  <2>1. CASE assets.mat[c] = job.pack
    <3>1. job'.loaded = job.loaded \cup {<<c, job.pack>>} /\ job'.pack = job.pack /\ assets' = assets
      BY <1>2, <1>7, <2>1 DEF Load
    <3> QED
      BY <2>1, <3>1
  <2>2. CASE assets.mat[c] # job.pack
    <3>1. job' = Concluded("MatrixSource") /\ assets' = assets
      BY <1>7, <2>2 DEF Load
    <3> QED
      BY <1>1, <3>1, ConcludedKeeps DEF Keeps
  <2> QED
    BY <2>1, <2>2
<1>8. CASE Replays
  BY <1>1, <1>8, ConcludedKeeps DEF Replays, Keeps
<1>9. ASSUME NEW hs, NEW pc PROVE Keeps(Appended(hs, pc))
  <2>1. \/ Appended(hs, pc) = Panic
        \/ \E at, got : Appended(hs, pc) = [job EXCEPT !.pc = pc, !.at = at, !.got = got]
        \/ \E at, got, a : Appended(hs, pc) = [job EXCEPT !.pc = "done", !.at = at,
                                                          !.got = got, !.answer = a]
    BY Zenon DEF Appended
  <2> QED
    BY <1>2, <1>3, <2>1 DEF Keeps
<1>10. CASE RangeComes \/ SingleComes
  BY <1>9, <1>10 DEF RangeComes, SingleComes, Keeps
<1>11. CASE RangePanics
  BY <1>3, <1>11 DEF RangePanics, Keeps
<1>12. CASE RangeUnknown
  <2>1. \E at, got : job' = [job EXCEPT !.pc = "single", !.at = at, !.got = got]
    BY <1>12 DEF RangeUnknown
  <2> QED
    BY <1>2, <1>12, <2>1 DEF RangeUnknown
<1> QED
  BY <1>4, <1>5, <1>6, <1>7, <1>8, <1>10, <1>11, <1>12 DEF NativeStep

----------------------------------------------------------------------------
(* The scripts.                                                            *)
LEMMA HighestIsIn ==
    ASSUME NEW n \in Nat, NEW S \in SUBSET (0..n), S # {}
    PROVE  Highest(S) \in S
<1> DEFINE T == {n - i : i \in S}
<1>0. \A i \in S : n - i \in Nat
  OBVIOUS
<1>1. T \in SUBSET Nat /\ T # {}
  BY <1>0, Zenon
<1>2. PICK k \in T : \A m \in T : k <= m
  BY <1>1, LeastNatural
<1>3. PICK i \in S : k = n - i
  BY <1>2
<1>4. \A j \in S : n - i <= n - j
  BY <1>2, <1>3
<1> HIDE DEF T
<1>5. \A j \in S : j <= i
  BY <1>4
<1> QED
  BY <1>3, <1>5, Zenon DEF Highest

LEMMA MatchingIsChosen ==
    ASSUME ReleaseTypeOK, NEW want, Matching(want) # {}
    PROVE  Highest(Matching(want)) \in Gen /\ work[Highest(Matching(want))].meta # NoPack
<1>1. MaxPacks - 1 \in Nat /\ Matching(want) \in SUBSET (0..(MaxPacks - 1))
  BY ReleaseConstants DEF Matching, Gen
<1>2. Highest(Matching(want)) \in Matching(want)
  BY <1>1, HighestIsIn
<1> QED
  BY <1>2 DEF Matching

LEMMA ExtractFits ==
    ASSUME ReleaseTypeOK, NEW tag \in Tag, NEW n \in 0..FilesOf(tag), Extract(tag, n)
    PROVE  work' \in [Gen -> Extracted]
<1>1. Classes \in Nat \ {0} /\ Len(Carries[tag]) \in 1..MaxPacks /\ MaxPacks \in Nat
      /\ \A i \in 1..Len(Carries[tag]) : Carries[tag][i] \in Pack
  BY NativeConstants, ReleaseConstants
<1>2. ASSUME NEW g \in Gen, NEW i, Written(tag, g, i, n) PROVE Carries[tag][g + 1] \in Pack
  <2>1. g + 1 \in 1..Len(Carries[tag])
    BY <1>1, <1>2 DEF Written, Gen
  <2> QED
    BY <1>1, <2>1
<1>3. ASSUME NEW g \in Gen
      PROVE  [meta |-> IF Written(tag, g, 0, n) THEN Carries[tag][g + 1] ELSE work[g].meta,
              mat  |-> [c \in Class |-> IF Written(tag, g, c, n) THEN Carries[tag][g + 1]
                                        ELSE work[g].mat[c]]] \in Extracted
  <2>1. work[g] \in Extracted
    BY DEF ReleaseTypeOK
  <2> QED
    BY <1>2, <2>1 DEF Extracted
<1> QED
  BY <1>3 DEF Extract

LEMMA ScriptTypes ==
    ASSUME NativeInv, ReleaseTypeOK, Promotes, Script
    PROVE  ReleaseTypeOK' /\ Promotes'
<1>1. Classes \in Nat \ {0} /\ Shipped \in Pack /\ 0 \in Gen
      /\ 1 \in 1..(Classes + 2) /\ assets.meta \in Pack
  BY NativeConstants, ReleaseConstants DEF Gen, NativeInv, Files
<1>2. /\ op \in [pc : OpPcs, tag : Tag \cup {NoPack}, chosen : Gen,
                 step : 1..(Classes + 2), accepted : Terminal \cup {None}]
      /\ work \in [Gen -> Extracted] /\ pin \in Pack
      /\ site \in [worker : Pack, files : Files]
      /\ last \in [pin : Pack, whole : BOOLEAN, out : BOOLEAN]
  BY DEF ReleaseTypeOK
<1>b. /\ Classes \in Nat /\ 1 <= Classes /\ 1 \in 1..(Classes + 2)
      /\ op \in [pc : OpPcs, tag : Tag \cup {NoPack}, chosen : Gen,
                 step : 1..(Classes + 2), accepted : Terminal \cup {None}]
  <2>1. \A n \in Nat \ {0} : 1 <= n
    OBVIOUS
  <2> QED
    BY <1>1, <1>2, <2>1
<1>3. IdleOp \in [pc : OpPcs, tag : Tag \cup {NoPack}, chosen : Gen,
                  step : 1..(Classes + 2), accepted : Terminal \cup {None}] /\ IdleOp.pc = "idle"
  BY <1>1 DEF IdleOp, OpPcs
<1>4. ASSUME NEW tag \in Tag, NEW n \in 0..FilesOf(tag), Extract(tag, n)
      PROVE  ReleaseTypeOK' /\ Promotes'
  <2>1. work' \in [Gen -> Extracted]
    BY <1>4, ExtractFits
  <2>2. op' \in [pc : OpPcs, tag : Tag \cup {NoPack}, chosen : Gen,
                 step : 1..(Classes + 2), accepted : Terminal \cup {None}]
        /\ op'.pc \in {"idle", "extracted"}
    BY <1>3, <1>4 DEF Extract, OpPcs
  <2> QED
    BY <1>4, <2>1, <2>2 DEF Extract, ReleaseTypeOK, Promotes
<1>5. CASE Choose
  <2>1. PICK want : op' = IF Matching(want) = {} THEN [op EXCEPT !.pc = "idle"]
                ELSE [op EXCEPT !.pc = "promoting", !.chosen = Highest(Matching(want))]
    BY <1>5 DEF Choose
  <2>2. CASE Matching(want) = {}
    BY <1>2, <1>5, <2>1, <2>2 DEF Choose, ReleaseTypeOK, Promotes, OpPcs
  <2>3. CASE Matching(want) # {}
    <3> DEFINE chosen == Highest(Matching(want))
    <3>1. chosen \in Gen /\ work[chosen].meta # NoPack
      BY <2>3, MatchingIsChosen
    <3>2. op' = [op EXCEPT !.pc = "promoting", !.chosen = chosen]
      BY <2>1, <2>3
    <3> HIDE DEF chosen
    <3> QED
      BY <1>2, <1>5, <3>1, <3>2 DEF Choose, ReleaseTypeOK, Promotes, OpPcs
  <2> QED
    BY <2>2, <2>3
<1>6. CASE PromoteMetadata
  <2>1. op' = [op EXCEPT !.pc = "matrices", !.step = 1]
    BY <1>6 DEF PromoteMetadata
  <2>2. op' \in [pc : OpPcs, tag : Tag \cup {NoPack}, chosen : Gen,
                 step : 1..(Classes + 2), accepted : Terminal \cup {None}]
        /\ op'.pc = "matrices" /\ op'.step <= Classes
    BY <1>b, <2>1 DEF OpPcs
  <2> QED
    BY <1>6, <2>2 DEF PromoteMetadata, ReleaseTypeOK, Promotes
<1>7. CASE PromoteMatrix
  <2>1. op' = IF op.step = Classes THEN [op EXCEPT !.pc = "pins", !.step = 1]
              ELSE [op EXCEPT !.step = @ + 1]
    BY <1>7 DEF PromoteMatrix
  <2>2. op.pc = "matrices" /\ op.step <= Classes
    BY <1>7 DEF PromoteMatrix, Promotes
  <2>3. op' \in [pc : OpPcs, tag : Tag \cup {NoPack}, chosen : Gen,
                 step : 1..(Classes + 2), accepted : Terminal \cup {None}]
        /\ op'.pc \in {"pins", "matrices"} /\ op'.step <= Classes
    <3>1. op.step \in Nat /\ (op.step # Classes => op.step + 1 \in 1..(Classes + 2)
                                                  /\ op.step + 1 <= Classes)
      BY <1>b, <2>2
    <3> QED
      BY <1>b, <2>1, <2>2, <3>1 DEF OpPcs
  <2> QED
    BY <1>7, <2>3 DEF PromoteMatrix, ReleaseTypeOK, Promotes
<1>8. CASE ComparePins
  BY <1>1, <1>2, <1>8 DEF ComparePins, ReleaseTypeOK, Promotes, OpPcs
<1>9. CASE ScriptAborts
  BY <1>2, <1>3, <1>9 DEF ScriptAborts, ReleaseTypeOK, Promotes, OpPcs
<1>10. CASE SetPin
  BY <1>1, <1>2, <1>10 DEF SetPin, ReleaseTypeOK, Promotes, OpPcs, PrintedDigest
<1>11. CASE RunAcceptanceTest
  BY <1>1, <1>2, <1>11 DEF RunAcceptanceTest, ReleaseTypeOK, Promotes, OpPcs
<1>12. ASSUME NEW accepted \in Terminal \cup {None}, DeployBegins(accepted)
       PROVE  ReleaseTypeOK' /\ Promotes'
  BY <1>1, <1>2, <1>12 DEF DeployBegins, ReleaseTypeOK, Promotes, OpPcs
<1>13. CASE HeedTheTest
  <2>1. CASE job.verdict = "verified"
    <3>1. job.terminal \in Terminal \cup {None}
      BY DEF NativeInv, JobHolds, Fits, JobRecords
    <3> QED
      BY <1>12, <1>13, <2>1, <3>1 DEF HeedTheTest
  <2>2. CASE job.verdict # "verified"
    BY <1>2, <1>3, <1>13, <2>2 DEF HeedTheTest, ReleaseTypeOK, Promotes
  <2> QED
    BY <2>1, <2>2
<1>14. CASE DeployAnyway
  BY <1>12, <1>14 DEF DeployAnyway
<1>15. CASE Copy
  <2>1. site' \in [worker : Pack, files : Files]
    <3>1. CASE op.step <= Classes
      <4>1. op.step \in Class /\ assets.mat[op.step] \in Pack
        BY <1>1, <1>2, <3>1 DEF NativeInv, Files, Class
      <4>2. site.files \in Files
        BY <1>2
      <4>3. site' = [site EXCEPT !.files.mat[op.step] = assets.mat[op.step]]
        BY <1>15, <3>1 DEF Copy
      <4> QED
        BY <1>2, <4>1, <4>2, <4>3 DEF Files
    <3>2. CASE ~(op.step <= Classes)
      BY <1>1, <1>2, <1>15, <3>2 DEF Copy, Files
    <3> QED
      BY <3>1, <3>2
  <2>2. last' \in [pin : Pack, whole : BOOLEAN, out : BOOLEAN]
    BY <1>2, <1>15, Zenon DEF Copy
  <2>3. op' \in [pc : OpPcs, tag : Tag \cup {NoPack}, chosen : Gen,
                 step : 1..(Classes + 2), accepted : Terminal \cup {None}]
        /\ op'.pc \in {"idle", "deploying"}
    BY <1>1, <1>2, <1>3, <1>15 DEF Copy
  <2> QED
    BY <1>15, <2>1, <2>2, <2>3 DEF Copy, ReleaseTypeOK, Promotes
<1> QED
  BY <1>4, <1>5, <1>6, <1>7, <1>8, <1>9, <1>10, <1>11, <1>13, <1>14, <1>15 DEF Script

----------------------------------------------------------------------------
(* Page loads.                                                             *)
LEMMA ServedFramesAreFrames ==
    ASSUME ReleaseTypeOK, NEW f \in ServedFrames
    PROVE  f \in Frames /\ f.body = site.files.meta
<1>1. site.files.meta \in Body /\ Digest[site.files.meta] \in {Digest[b] : b \in Body}
  BY ReleaseConstants DEF ReleaseTypeOK, Files
<1>2. HeaderBytes + BodyBytes + TrailerBytes \in Nat \ {0} /\ BodyBytes \in Nat /\ PageWord \in Nat
  <2>1. DigestsBytes \in Nat
    BY FrameConstants DEF DigestsBytes
  <2> QED
    BY <2>1, FrameConstants, ReleaseConstants
<1>3. Intact \in Frames /\ Intact.body = site.files.meta
      /\ Intact.length = HeaderBytes + BodyBytes + TrailerBytes /\ Intact.bodyLen = BodyBytes
  BY <1>1, <1>2 DEF Intact, FrameOf, Frames
<1>4. Intact.length - 1 \in Nat /\ Intact.bodyLen + PageWord \in Nat
  BY <1>2, <1>3
<1>5. \/ f = Intact \/ f = [Intact EXCEPT !.bodyLen = @ + PageWord]
      \/ f = [Intact EXCEPT !.length = @ - 1]
  BY DEF ServedFrames
<1> QED
  BY <1>3, <1>4, <1>5 DEF Frames

LEMMA PageStepHolds ==
    ASSUME ReleaseTypeOK, PageHolds, PageStep
    PROVE  ReleaseTypeOK' /\ PageHolds'
<1> DEFINE Pages == [pc : {"away", "metadata", "matrices", "built", "refused"}, pin : Pack,
                     meta : Pack \cup {NoPack}, class : Class, mats : SUBSET (Class \X Pack)]
<1>1. page \in Pages /\ site.worker \in Pack /\ Shipped \in Pack /\ 1 \in Class
      /\ Classes \in Nat /\ 1 <= Classes
  <2>1. \A n \in Nat \ {0} : 1 <= n /\ 1 \in 1..n
    OBVIOUS
  <2> QED
    BY <2>1, NativeConstants, ReleaseConstants DEF ReleaseTypeOK, Class
<1>2. UNCHANGED <<work, pin, site, op, last>>
  BY DEF PageStep, OpenPage, MetadataComes, MatrixComes, pageOnly
<1>3. SUFFICES page' \in Pages /\ PageHolds'
  BY <1>2 DEF ReleaseTypeOK
<1>4. NoPage \in Pages /\ NoPage.class = 1 /\ NoPage.mats = {}
  BY <1>1 DEF NoPage
<1>5. CASE Refuses
  BY <1>1, <1>4, <1>5 DEF Refuses, PageHolds
<1>6. CASE OpenPage
  BY <1>1, <1>4, <1>6 DEF OpenPage, PageHolds
<1>7. ASSUME MetadataComes, ~Refuses
      PROVE  page' \in Pages /\ PageHolds'
  <2>1. PICK f \in ServedFrames : Decode(f, Digest[page.pin], PageWord) = "ok"
                                  /\ page' = [page EXCEPT !.pc = "matrices", !.meta = f.body]
    BY <1>7 DEF MetadataComes
  <2>2. f.body = page.pin
    BY <1>1, <2>1, ServedFramesAreFrames, AcceptedBodyIsThePinned, ReleaseConstants
  <2>3. page.pc = "metadata"
    BY <1>7 DEF MetadataComes
  <2>4. page.class = 1 /\ page.mats = {}
    BY <2>3 DEF PageHolds
  <2>5. page' = [page EXCEPT !.pc = "matrices", !.meta = page.pin]
    BY <2>1, <2>2
  <2>6. page' \in Pages /\ page'.pc = "matrices" /\ page'.meta = page'.pin
        /\ page'.class = 1 /\ page'.mats = {}
    BY <1>1, <2>4, <2>5
  <2>7. {<<c, page'.pin>> : c \in 1..(page'.class - 1)} = {}
    BY <2>6
  <2> QED
    BY <2>6, <2>7 DEF PageHolds
<1>8. ASSUME MatrixComes, ~Refuses
      PROVE  page' \in Pages /\ PageHolds'
  <2>1. page.pc = "matrices" /\ page.meta = page.pin
        /\ page.mats = {<<c, page.pin>> : c \in 1..(page.class - 1)}
    BY <1>8 DEF MatrixComes, PageHolds
  <2>2. page.class \in 1..Classes /\ page.pin \in Pack
    BY <1>1 DEF Class
  <2> DEFINE mats == page.mats \cup {<<page.class, page.pin>>}
  <2>3. mats = {<<c, page.pin>> : c \in 1..page.class} /\ mats \in SUBSET (Class \X Pack)
    <3>1. 1..page.class = (1..(page.class - 1)) \cup {page.class}
      BY <2>2
    <3>2. mats = {<<c, page.pin>> : c \in (1..(page.class - 1)) \cup {page.class}}
      BY <2>1
    <3>3. 1..page.class \subseteq Class
      BY <1>1, <2>2 DEF Class
    <3> QED
      BY <2>2, <3>1, <3>2, <3>3
  <2> HIDE DEF mats
  <2>4. page' = [page EXCEPT !.mats = mats,
                             !.pc = IF page.class = Classes THEN "built" ELSE @,
                             !.class = IF page.class = Classes THEN 1 ELSE @ + 1]
    BY <1>8, <2>1 DEF MatrixComes, mats
  <2>5. CASE page.class = Classes
    <3>1. page' = [page EXCEPT !.mats = mats, !.pc = "built", !.class = 1]
      BY <2>4, <2>5
    <3> QED
      <4>1. page' \in Pages /\ page'.pc = "built" /\ page'.meta = page'.pin
            /\ page'.pin = page.pin /\ page'.mats = mats
        BY <1>1, <2>1, <2>3, <3>1
      <4> QED
        BY <2>3, <2>5, <4>1 DEF PageHolds, Class
  <2>6. CASE page.class # Classes
    <3>1. page' = [page EXCEPT !.mats = mats, !.class = page.class + 1]
      BY <2>4, <2>6
    <3>2. page.class + 1 \in Class /\ (page.class + 1) - 1 = page.class
      BY <1>1, <2>2, <2>6 DEF Class
    <3>3. page' \in Pages /\ page'.pc = "matrices" /\ page'.meta = page'.pin
          /\ page'.pin = page.pin /\ page'.mats = mats /\ page'.class - 1 = page.class
      BY <1>1, <2>1, <2>3, <3>1, <3>2
    <3> QED
      BY <2>3, <3>3 DEF PageHolds
  <2> QED
    BY <2>5, <2>6
<1> QED
  BY <1>5, <1>6, <1>7, <1>8 DEF PageStep

----------------------------------------------------------------------------
(* The acceptance test and the deployment.                                 *)
LEMMA VerifiedIsOk ==
    ASSUME NEW j, JobHolds(j), j.verdict = "verified"
    PROVE  j.result = "Ok"
<1>1. j.result # "none" /\ j.verdict = VerdictOf(j.pack, j.terminal, j.result)
  BY DEF JobHolds, Judges
<1> QED
  BY <1>1 DEF VerdictOf

LEMMA TestNext ==
    ASSUME NativeInv, ReleaseTypeOK, TestHolds, Next
    PROVE  TestHolds'
<1>0. /\ op \in [pc : OpPcs, tag : Tag \cup {NoPack}, chosen : Gen,
                 step : 1..(Classes + 2), accepted : Terminal \cup {None}]
      /\ IdleOp.pc = "idle" /\ IdleOp.accepted = None
      /\ DOMAIN IdleOp = {"pc", "tag", "chosen", "step", "accepted"}
  BY DEF ReleaseTypeOK, IdleOp
<1>1. CASE NativeStep /\ UNCHANGED <<work, pin, op, last, site, page>>
  BY <1>1, NativeKeeps DEF TestHolds, AcceptedIsTheChains, Holds
<1>2. CASE UNCHANGED <<nativeVars, op>>
  BY <1>2 DEF TestHolds, AcceptedIsTheChains, Holds, nativeVars
<1>3. ASSUME op.pc # "deploying", op'.pc # "tested", op'.accepted \in {op.accepted, None}
      PROVE  TestHolds'
  BY <1>3 DEF TestHolds
<1>4. ASSUME op.pc = "deploying", op'.pc = "deploying", op'.accepted = op.accepted,
             UNCHANGED assets
      PROVE  TestHolds'
  BY <1>4 DEF TestHolds, AcceptedIsTheChains, Holds
<1>5. ASSUME op'.pc # "tested", op'.accepted = None
      PROVE  TestHolds'
  BY <1>5 DEF TestHolds
<1>6. ASSUME NEW tag \in Tag, NEW n \in 0..FilesOf(tag), Extract(tag, n)
      PROVE  TestHolds'
  BY <1>0, <1>5, <1>6 DEF Extract
<1>7. CASE Choose
  BY <1>0, <1>3, <1>7 DEF Choose
<1>8. CASE PromoteMetadata
  BY <1>0, <1>3, <1>8 DEF PromoteMetadata
<1>9. CASE PromoteMatrix
  BY <1>0, <1>3, <1>9 DEF PromoteMatrix
<1>10. CASE ComparePins
  BY <1>0, <1>3, <1>10 DEF ComparePins
<1>11. CASE ScriptAborts
  BY <1>0, <1>5, <1>11 DEF ScriptAborts
<1>12. CASE SetPin
  BY <1>0, <1>3, <1>12 DEF SetPin
<1>13. CASE RunAcceptanceTest
  <2>1. job'.pack = assets.meta /\ job'.loaded = {} /\ assets' = assets
    BY <1>13 DEF RunAcceptanceTest, Start, IdleJob
  <2>2. op'.accepted = op.accepted /\ op.pc # "deploying"
    BY <1>0, <1>13 DEF RunAcceptanceTest
  <2> QED
    BY <2>1, <2>2 DEF TestHolds
<1>14. CASE HeedTheTest /\ job.verdict = "verified"
  <2>1. op.pc = "tested" /\ DeployBegins(job.terminal)
    BY <1>14 DEF HeedTheTest
  <2>2. op'.pc = "deploying" /\ op'.accepted = job.terminal /\ assets' = assets
    BY <1>0, <2>1 DEF DeployBegins
  <2>3. JobHolds(job) /\ job.result = "Ok" /\ job.pack = assets.meta
        /\ \A m \in job.loaded : assets.mat[m[1]] = m[2]
    BY <1>14, <2>1, VerifiedIsOk DEF NativeInv, TestHolds
  <2>4. Holds(job.pack, job.terminal)
    BY <2>3, ProvenTip
  <2>5. ASSUME NEW c \in Needs[job.terminal] PROVE assets.mat[c] = job.pack
    <3>1. PICK m \in job.loaded : m[1] = c
      BY <2>3 DEF JobHolds, Judges
    <3> QED
      BY <2>3, <3>1 DEF JobHolds, Own
  <2> QED
    BY <2>2, <2>3, <2>4, <2>5 DEF TestHolds, AcceptedIsTheChains, Holds
<1>15. CASE HeedTheTest /\ job.verdict # "verified"
  BY <1>0, <1>5, <1>15 DEF HeedTheTest
<1>16. CASE DeployAnyway
  BY <1>0, <1>5, <1>16 DEF DeployAnyway, DeployBegins
<1>17. CASE Copy
  BY <1>0, <1>4, <1>5, <1>17 DEF Copy, nativeVars
<1>18. CASE op.pc = "idle" /\ RunNative /\ UNCHANGED <<work, pin, op, last, site, page>>
  BY <1>3, <1>18
<1>19. CASE PageStep
  BY <1>2, <1>19 DEF PageStep, OpenPage, MetadataComes, MatrixComes, pageOnly
<1> QED
  BY <1>1, <1>6, <1>7, <1>8, <1>9, <1>10, <1>11, <1>12, <1>13, <1>14, <1>15, <1>16, <1>17,
     <1>18, <1>19 DEF Next, Script, Native

LEMMA CopyHolds ==
    ASSUME NativeInv, ReleaseTypeOK, PublishedHolds, Copy
    PROVE  PublishedHolds'
<1>1. /\ op \in [pc : OpPcs, tag : Tag \cup {NoPack}, chosen : Gen,
                 step : 1..(Classes + 2), accepted : Terminal \cup {None}]
      /\ op.pc = "deploying" /\ ~last.out /\ last.pin = pin
      /\ last \in [pin : Pack, whole : BOOLEAN, out : BOOLEAN]
      /\ site \in [worker : Pack, files : Files] /\ site.files \in Files
      /\ Classes \in Nat /\ IdleOp.pc = "idle" /\ op.step \in 1..(Classes + 2)
      /\ UNCHANGED <<assets, pin>>
  BY NativeConstants DEF ReleaseTypeOK, PublishedHolds, Copy, IdleOp, nativeVars
<1>2. last.whole => /\ assets = Whole(pin)
                    /\ \A c \in Class : c < op.step => site.files.mat[c] = pin
                    /\ op.step > Classes + 1 => site.files.meta = pin
  BY <1>1 DEF PublishedHolds
<1>3. Whole(pin).meta = pin /\ \A c \in Class : Whole(pin).mat[c] = pin
  BY DEF Whole
<1>4. CASE op.step <= Classes
  <2>1. op.step \in Class
    BY <1>1, <1>4 DEF Class
  <2>2. site'.files.mat = [site.files.mat EXCEPT ![op.step] = assets.mat[op.step]]
    BY <1>1, <1>4 DEF Copy, Files
  <2>3. op'.pc = "deploying" /\ op'.step = op.step + 1
    BY <1>1, <1>4 DEF Copy
  <2>4. last'.pin = last.pin /\ last'.whole = last.whole /\ last'.out = FALSE
    BY <1>1, <1>4 DEF Copy
  <2>5. ASSUME last.whole, NEW c \in Class, c < op.step + 1 PROVE site'.files.mat[c] = pin
    <3>1. site.files.mat \in [Class -> Pack]
      BY <1>1 DEF Files
    <3>2. CASE c = op.step
      BY <1>2, <1>3, <2>1, <2>2, <2>5, <3>1, <3>2
    <3>3. CASE c # op.step
      <4>1. c < op.step
        BY <1>1, <2>5, <3>3 DEF Class
      <4> QED
        BY <1>2, <2>1, <2>2, <2>5, <3>1, <3>3, <4>1
    <3> QED
      BY <3>2, <3>3
  <2>6. ~(op.step + 1 > Classes + 1)
    BY <1>1, <1>4
  <2> QED
    BY <1>1, <1>2, <2>3, <2>4, <2>5, <2>6 DEF PublishedHolds
<1>5. CASE op.step = Classes + 1
  <2>1. site' = [site EXCEPT !.files.meta = assets.meta]
    BY <1>1, <1>5 DEF Copy
  <2>2. site'.files.meta = assets.meta /\ site'.files.mat = site.files.mat
    BY <1>1, <2>1 DEF Files
  <2>3. op'.pc = "deploying" /\ op'.step = op.step + 1
    BY <1>1, <1>5 DEF Copy
  <2>4. last'.pin = last.pin /\ last'.whole = last.whole /\ last'.out = FALSE
    BY <1>1, <1>5 DEF Copy
  <2>5. \A c \in Class : c < op.step
    BY <1>1, <1>5 DEF Class
  <2> QED
    BY <1>1, <1>2, <1>3, <2>2, <2>3, <2>4, <2>5 DEF PublishedHolds
<1>6. CASE op.step = Classes + 2
  <2>1. site' = [site EXCEPT !.worker = pin]
    BY <1>1, <1>6 DEF Copy
  <2>2. op'.pc = "idle"
    BY <1>1, <1>6 DEF Copy
  <2>3. last'.pin = pin /\ last'.whole = last.whole
    BY <1>1 DEF Copy
  <2>4. ASSUME last.whole PROVE site' = [worker |-> pin, files |-> Whole(pin)]
    <3>1. \A c \in Class : c < op.step
      BY <1>1, <1>6 DEF Class
    <3>2. site.files.meta = pin /\ \A c \in Class : site.files.mat[c] = pin
      BY <1>1, <1>2, <1>6, <2>4, <3>1
    <3>3. site.files = Whole(pin)
      BY <1>1, <3>2 DEF Files, Whole
    <3> QED
      BY <1>1, <2>1, <3>3
  <2> QED
    BY <2>2, <2>3, <2>4 DEF PublishedHolds
<1>7. \/ op.step <= Classes \/ op.step = Classes + 1 \/ op.step = Classes + 2
  BY <1>1
<1> QED
  BY <1>4, <1>5, <1>6, <1>7

LEMMA PublishedNext ==
    ASSUME NativeInv, ReleaseTypeOK, PublishedHolds, Next
    PROVE  PublishedHolds'
<1>0. /\ op \in [pc : OpPcs, tag : Tag \cup {NoPack}, chosen : Gen,
                 step : 1..(Classes + 2), accepted : Terminal \cup {None}]
      /\ IdleOp.pc = "idle" /\ DOMAIN IdleOp = {"pc", "tag", "chosen", "step", "accepted"}
  BY DEF ReleaseTypeOK, IdleOp
<1>1. ASSUME op'.pc # "deploying", UNCHANGED <<last, site>>
      PROVE  PublishedHolds'
  BY <1>1 DEF PublishedHolds
<1>2. CASE UNCHANGED <<assets, pin, op, last, site>>
  BY <1>2 DEF PublishedHolds
<1>3. ASSUME NEW accepted, DeployBegins(accepted)
      PROVE  PublishedHolds'
  <2>1. op'.pc = "deploying" /\ op'.step = 1 /\ last'.out = FALSE /\ last'.pin = pin
        /\ last'.whole = (assets = Whole(pin)) /\ assets' = assets /\ pin' = pin
    BY <1>0, <1>3 DEF DeployBegins
  <2>2. ~(1 > Classes + 1) /\ \A c \in Class : ~(c < 1)
    BY NativeConstants DEF Class
  <2> QED
    BY <2>1, <2>2 DEF PublishedHolds
<1>4. ASSUME NEW tag \in Tag, NEW n \in 0..FilesOf(tag), Extract(tag, n)
      PROVE  PublishedHolds'
  BY <1>0, <1>1, <1>4 DEF Extract
<1>5. CASE Choose
  BY <1>0, <1>1, <1>5 DEF Choose
<1>6. CASE PromoteMetadata
  BY <1>0, <1>1, <1>6 DEF PromoteMetadata
<1>7. CASE PromoteMatrix
  BY <1>0, <1>1, <1>7 DEF PromoteMatrix
<1>8. CASE ComparePins
  BY <1>0, <1>1, <1>8 DEF ComparePins
<1>9. CASE ScriptAborts
  BY <1>0, <1>1, <1>9 DEF ScriptAborts
<1>10. CASE SetPin
  BY <1>0, <1>1, <1>10 DEF SetPin
<1>11. CASE RunAcceptanceTest
  BY <1>0, <1>1, <1>11 DEF RunAcceptanceTest
<1>12. CASE HeedTheTest
  <2>1. CASE job.verdict = "verified"
    BY <1>3, <1>12, <2>1 DEF HeedTheTest
  <2>2. CASE job.verdict # "verified"
    BY <1>0, <1>1, <1>12, <2>2 DEF HeedTheTest
  <2> QED
    BY <2>1, <2>2
<1>13. CASE DeployAnyway
  BY <1>3, <1>13 DEF DeployAnyway
<1>14. CASE Copy
  BY <1>14, CopyHolds
<1>15. CASE Native
  BY <1>2, <1>15, NativeKeeps DEF Native, RunNative, Start
<1>16. CASE PageStep
  BY <1>2, <1>16 DEF PageStep, OpenPage, MetadataComes, MatrixComes, pageOnly, nativeVars
<1> QED
  BY <1>4, <1>5, <1>6, <1>7, <1>8, <1>9, <1>10, <1>11, <1>12, <1>13, <1>14, <1>15, <1>16
     DEF Next, Script

----------------------------------------------------------------------------
LEMMA WholeIsFiles == \A pack \in Pack : Whole(pack) \in Files
BY DEF Whole, Files

LEMMA ReleaseInit == Init => ReleaseInv
<1> SUFFICES ASSUME Init
             PROVE  ReleaseInv
  OBVIOUS
<1>1. Classes \in Nat /\ 1 \in Class /\ Shipped \in Pack /\ 0 \in Gen /\ 1 \in 1..(Classes + 2)
  BY NativeConstants, ReleaseConstants DEF Class, Gen
<1>2. NativeInv
  BY <1>1, IdleJobHolds, WholeIsFiles DEF Init, NativeInv
<1>3. work \in [Gen -> Extracted]
  <2>1. NoFiles \in Extracted /\ Whole(Shipped) \in Extracted
    BY <1>1 DEF NoFiles, Whole, Extracted
  <2> QED
    BY <2>1 DEF Init
<1>4. op \in [pc : OpPcs, tag : Tag \cup {NoPack}, chosen : Gen,
              step : 1..(Classes + 2), accepted : Terminal \cup {None}]
      /\ op.pc = "idle" /\ op.accepted = None
  BY <1>1 DEF Init, IdleOp, OpPcs
<1>5. page \in [pc : {"away", "metadata", "matrices", "built", "refused"}, pin : Pack,
                meta : Pack \cup {NoPack}, class : Class, mats : SUBSET (Class \X Pack)]
      /\ page.pc = "away"
  BY <1>1 DEF Init, NoPage
<1>6. ReleaseTypeOK
  BY <1>1, <1>3, <1>4, <1>5, WholeIsFiles DEF Init, ReleaseTypeOK
<1>7. Promotes /\ PageHolds /\ TestHolds
  BY <1>4, <1>5 DEF Promotes, PageHolds, TestHolds
<1>8. PublishedHolds
  BY <1>4 DEF Init, PublishedHolds
<1> QED
  BY <1>2, <1>6, <1>7, <1>8 DEF ReleaseInv

LEMMA ReleaseStep == ReleaseInv /\ [Next]_vars => ReleaseInv'
<1> SUFFICES ASSUME ReleaseInv, [Next]_vars
             PROVE  ReleaseInv'
  OBVIOUS
<1>1. CASE Next
  <2>1. NativeInv' /\ TestHolds' /\ PublishedHolds'
    BY <1>1, NativeInvNext, TestNext, PublishedNext DEF ReleaseInv
  <2>2. CASE Script
    <3>1. ReleaseTypeOK' /\ Promotes'
      BY <2>2, ScriptTypes DEF ReleaseInv
    <3>2. page' = page
      BY <2>2 DEF Script, Extract, Choose, PromoteMetadata, PromoteMatrix, ComparePins,
                  ScriptAborts, SetPin, RunAcceptanceTest, HeedTheTest, DeployAnyway,
                  DeployBegins, Copy
    <3> QED
      BY <2>1, <3>1, <3>2 DEF ReleaseInv, PageHolds
  <2>3. CASE Native
    BY <2>1, <2>3 DEF Native, ReleaseInv, ReleaseTypeOK, Promotes, PageHolds
  <2>4. CASE PageStep
    <3>1. ReleaseTypeOK' /\ PageHolds'
      BY <2>4, PageStepHolds DEF ReleaseInv
    <3>2. UNCHANGED <<work, op>>
      BY <2>4 DEF PageStep, OpenPage, MetadataComes, MatrixComes, pageOnly
    <3> QED
      BY <2>1, <3>1, <3>2 DEF ReleaseInv, Promotes
  <2> QED
    BY <1>1, <2>2, <2>3, <2>4 DEF Next
<1>2. CASE UNCHANGED vars
  BY <1>2 DEF vars, nativeVars, ReleaseInv, NativeInv, ReleaseTypeOK, Promotes, PageHolds,
              TestHolds, AcceptedIsTheChains, PublishedHolds
<1> QED
  BY <1>1, <1>2

LEMMA ReleaseInvariant == FairSpec => []ReleaseInv
<1> QED
  BY ReleaseInit, ReleaseStep, PTL DEF FairSpec

(* The types, with the loop invariant of headers_between.                  *)
THEOREM ReleaseTypes == FairSpec => []TypeOK
<1>1. ReleaseInv => TypeOK
  BY NativeInvTypes DEF ReleaseInv, TypeOK
<1> QED
  BY <1>1, ReleaseInvariant, PTL

(* CHAIN VERIFIED means the proof holds under the pack whose metadata was  *)
(* read, whatever else lies in assets/ and whoever answered.               *)
THEOREM NativeVerdictIsSound == FairSpec => []NativeVerifiedIsSound
<1>1. ReleaseInv => NativeVerifiedIsSound
  BY VerifiedIsOk, ProvenTip DEF ReleaseInv, NativeInv, NativeVerifiedIsSound
<1> QED
  BY <1>1, ReleaseInvariant, PTL

(* What the native verifier prints of an older block is true, and where it *)
(* prints that a block is not shown, what it was served is to blame.       *)
THEOREM NativeWalksTruly == FairSpec => []NativeWalkIsTrue
<1>1. ASSUME ReleaseInv PROVE NativeWalkIsTrue
  <2>1. JobHolds(job) /\ job.got \in Seq(Header)
    BY <1>1 DEF ReleaseInv, NativeInv, JobHolds, Fits, JobRecords
  <2>2. CASE job.answer.status \in {"in_chain", "not_shown"}
    <3>1. /\ job.result = "Ok" /\ job.target \in Nat
          /\ job.answer = WalkTo(job.tip, job.target, job.got)
          /\ (job.tip.root <= job.target /\ job.target < job.tip.height) =>
                Len(job.got) = job.tip.height - job.target
      BY <2>1, <2>2 DEF JobHolds, WalksTruly
    <3>2. SealedHistory(History[job.terminal], job.tip.root, job.tip.height, job.tip.parent)
      BY <2>1, <3>1, ProvenTip
    <3>3. /\ job.answer.status = "in_chain" =>
                job.answer.found = History[job.terminal][job.target]
          /\ (job.answer.status = "not_shown"
                /\ job.tip.root <= job.target /\ job.target < job.tip.height) =>
                job.got # RunOf(History[job.terminal], job.target, job.tip.height)
      BY <2>1, <3>1, <3>2, WalkToIsTrue
    <3>4. job.tip.root \in Nat
      BY <3>2 DEF SealedHistory
    <3>5. job.target >= job.tip.root => job.tip.root <= job.target
      BY <3>1, <3>4
    <3> QED
      BY <2>1, <3>1, <3>3, <3>5 DEF NativeWalkIsTrue, JobHolds, Fetches
  <2>3. CASE job.answer.status \notin {"in_chain", "not_shown"}
    BY <2>3 DEF NativeWalkIsTrue
  <2> QED
    BY <2>2, <2>3
<1> QED
  BY <1>1, ReleaseInvariant, PTL

(* What a page builds a verifier of is the one pack its PIN names.         *)
THEOREM PagesBuildOnePack == FairSpec => []PageBuildsOnePack
<1>1. ReleaseInv => PageBuildsOnePack
  BY DEF ReleaseInv, PageHolds, PageBuildsOnePack
<1> QED
  BY <1>1, ReleaseInvariant, PTL

(* A passed acceptance test says of the metadata, and of every matrix its  *)
(* replay asked for, that they are of the pack the live proof was made     *)
(* under.                                                                  *)
THEOREM AcceptanceSaysSo == FairSpec => []AcceptedIsTheChains
<1>1. ReleaseInv => AcceptedIsTheChains
  BY DEF ReleaseInv, TestHolds, AcceptedIsTheChains
<1> QED
  BY <1>1, ReleaseInvariant, PTL

(* The native verifier and the page's say the same of the same bytes.      *)
THEOREM TheTwinsAgree == FairSpec => []TwinAgrees
<1>1. ASSUME JobHolds(job), job.result \notin {"none", "MatrixSource"},
             NeedsBoundary(Generation) =>
                HeightOf[job.boundary.header] = RecursionRootHeight(Generation)
      PROVE  CASE job.verdict = "verified" ->
                    PageSays = Verified(job.tip) \/ OtherRelation(Generation, job.terminal)
               [] job.verdict = "wrong_parameters" -> PageSays = Stale(TRUE)
               [] job.verdict = "unreadable"       -> PageSays = Stale(FALSE)
               [] job.verdict = "failed"           -> PageSays = Rejected(job.result)
  <2>1. BoundaryOf(job) = BoundaryHeader /\ LocalGeneration(job) = Generation
    BY DEF BoundaryOf, BoundaryHeader, LocalGeneration, Generation
  <2>2. /\ job.verdict = VerdictOf(job.pack, job.terminal, job.result)
        /\ job.result = DecodeVerifyRooted(Generation, job.terminal, job.trio,
                                           BoundaryHeader, Holds(job.pack, job.terminal))
        /\ job.result = "Ok" => job.tip = TipOf(Generation, job.terminal, job.trio)
        /\ Decodes(Generation, job.trio)
        /\ NeedsBoundary(Generation) => Decodes(Generation, BoundaryHeader)
    BY <1>1, <2>1 DEF JobHolds, Judges, Read, BoundaryRead
  <2>3. NeedsBoundary(Generation) =>
            HeightOf[BoundaryHeader.header] = RecursionRootHeight(Generation)
    <3>1. ASSUME NeedsBoundary(Generation), job.boundary = None PROVE FALSE
      <4>1. BoundaryHeader.header = Missing /\ BoundaryHeader.header \in Header
        BY <2>2, <3>1 DEF BoundaryHeader, Trio, Decodes
      <4> QED
        BY <4>1, NativeConstants
    <3> QED
      BY <1>1, <3>1 DEF BoundaryHeader
  <2>4. Supplied(Generation, job.trio, BoundaryHeader)
    BY <2>2, <2>3 DEF Supplied
  <2>5. NeverParsed(job.result) = IsUnreadableFrame(job.result)
    BY DEF NeverParsed, IsUnreadableFrame, UnreadableFrame
  <2>6. OtherRelation(RelationOf[job.pack], job.terminal)
            = OtherRelation(Generation, job.terminal)
    BY DEF Generation
  <2>7. CASE OtherRelation(Generation, job.terminal)
    <3>1. PageSays = Stale(TRUE) /\ job.verdict \in {"verified", "wrong_parameters"}
      BY <2>2, <2>6, <2>7 DEF PageSays, Verify, VerdictOf
    <3> QED
      BY <2>7, <3>1
  <2>8. CASE ~OtherRelation(Generation, job.terminal)
    <3>1. PageSays = IF job.result = "Ok" THEN Verified(TipOf(Generation, job.terminal, job.trio))
                     ELSE IF IsUnreadableFrame(job.result) THEN Stale(FALSE)
                     ELSE Rejected(job.result)
      BY <2>2, <2>4, <2>8 DEF PageSays, Verify
    <3>2. job.verdict = IF job.result = "Ok" THEN "verified"
                        ELSE IF IsUnreadableFrame(job.result) THEN "unreadable" ELSE "failed"
      BY <2>2, <2>5, <2>6, <2>8 DEF VerdictOf
    <3> QED
      BY <2>2, <3>1, <3>2
  <2> QED
    BY <2>7, <2>8
<1>2. ReleaseInv => TwinAgrees
  BY <1>1 DEF TwinAgrees, ReleaseInv, NativeInv
<1> QED
  BY <1>2, ReleaseInvariant, PTL

(* Once a whole release is out, a page with its pin is never refused.      *)
LEMMA RefusedBeforeItIsOut ==
    ASSUME ReleaseInv, Next, page.pc # "refused", page'.pc = "refused",
           last.out, last.whole, last.pin = page.pin
    PROVE  FALSE
<1>1. /\ site = [worker |-> page.pin, files |-> Whole(page.pin)] /\ op.pc # "deploying"
      /\ page.pin \in Pack
  BY DEF ReleaseInv, PublishedHolds, ReleaseTypeOK
<1>2. site.files.meta = page.pin /\ \A c \in Class : site.files.mat[c] = page.pin
  BY <1>1 DEF Whole
<1>3. \A step : ~Torn(step)
  BY <1>1 DEF Torn
<1>4. PageStep
  <2>1. Script => page' = page
    BY DEF Script, Extract, Choose, PromoteMetadata, PromoteMatrix, ComparePins,
           ScriptAborts, SetPin, RunAcceptanceTest, HeedTheTest, DeployAnyway,
           DeployBegins, Copy
  <2>2. Native => page' = page
    BY DEF Native
  <2> QED
    BY <2>1, <2>2 DEF Next
<1>5. CASE OpenPage
  BY <1>5 DEF OpenPage, NoPage
<1>6. CASE MetadataComes
  <2>1. PICK f \in ServedFrames :
            IF Decode(f, Digest[page.pin], PageWord) = "ok"
            THEN page' = [page EXCEPT !.pc = "matrices", !.meta = f.body] ELSE Refuses
    BY <1>6 DEF MetadataComes
  <2>2. f = Intact \/ f = [Intact EXCEPT !.bodyLen = @ + PageWord]
    BY <1>3 DEF ServedFrames
  <2>3. Intact = FrameOf(page.pin, BodyBytes)
    BY <1>2 DEF Intact
  <2>4. Decode(f, Digest[page.pin], PageWord) = "ok"
    <3>1. /\ Decode(FrameOf(page.pin, BodyBytes), Digest[page.pin], PageWord) = "ok"
          /\ Decode([FrameOf(page.pin, BodyBytes) EXCEPT !.bodyLen = @ + PageWord],
                    Digest[page.pin], PageWord) = "ok"
      <4>1. /\ BodyBytes \in Nat /\ BodyBytes > DigestsBytes /\ PageWord \in Nat
            /\ HeaderBytes + BodyBytes + TrailerBytes < PageWord
        BY ReleaseConstants
      <4> QED
        BY <4>1, ReleaseFrameIsAccepted
    <3>2. f = FrameOf(page.pin, BodyBytes)
          \/ f = [FrameOf(page.pin, BodyBytes) EXCEPT !.bodyLen = @ + PageWord]
      BY <2>2, <2>3
    <3> QED
      BY <3>1, <3>2
  <2>5. page' = [page EXCEPT !.pc = "matrices", !.meta = f.body] /\ "pc" \in DOMAIN page
    BY <2>1, <2>4 DEF ReleaseInv, ReleaseTypeOK
  <2> QED
    BY <2>5
<1>7. CASE MatrixComes
  <2>1. page.pc = "matrices" /\ page.meta = page.pin /\ page.class \in Class
        /\ DOMAIN page = {"pc", "pin", "meta", "class", "mats"}
    BY <1>7 DEF MatrixComes, ReleaseInv, PageHolds, ReleaseTypeOK
  <2>2. ~(site.files.mat[page.class] # page.meta \/ Torn(page.class))
    BY <1>2, <1>3, <2>1
  <2>3. page'.pc \in {"built", "matrices"}
    BY <1>7, <2>1, <2>2 DEF MatrixComes
  <2> QED
    BY <2>3
<1> QED
  BY <1>4, <1>5, <1>6, <1>7 DEF PageStep

THEOREM PublishedFilesAreFound == FairSpec => PublishedPagesFindTheirFiles
<1>1. ReleaseInv /\ [Next]_vars =>
        [(page.pc # "refused" /\ page'.pc = "refused") =>
            ~(last.out /\ last.whole /\ last.pin = page.pin)]_vars
  BY RefusedBeforeItIsOut
<1> QED
  BY <1>1, ReleaseInvariant, PTL DEF FairSpec, PublishedPagesFindTheirFiles
=============================================================================
