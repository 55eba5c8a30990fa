---------------------------- MODULE AncestryWalk ----------------------------
(***************************************************************************)
(* The loop of `walk` in src/ancestry.rs, one action per check: the guards *)
(* on the range and the count, the ascending pass over the heights, then   *)
(* the descending pass over the links with its running `link`.             *)
(***************************************************************************)
EXTENDS Ancestry

CONSTANTS
    Tip,        \* heights a verified tip may have
    Target,     \* heights asked for
    MaxLen      \* longest run of headers a source is made to serve

ASSUME WalkInputs == Tip \subseteq Nat /\ Target \subseteq Nat /\ MaxLen \in Nat

VARIABLES
    tip, parent, target, headers,   \* the arguments, never changed
    pc,                             \* "range", "count", "heights", "links", "done"
    at,                             \* position of the header under check
    link,                           \* the loop's `link`
    answer                          \* the returned Result

args == <<tip, parent, target, headers>>
vars == <<tip, parent, target, headers, pc, at, link, answer>>

NoAnswer == [kind |-> "none"]

Served == UNION {[1..n -> Header] : n \in 0..MaxLen}

Init ==
    /\ tip \in Tip /\ parent \in Hash /\ target \in Target
    /\ headers \in Served
    /\ pc = "range" /\ at = 1 /\ link = parent /\ answer = NoAnswer

Return(a) == pc' = "done" /\ answer' = a /\ UNCHANGED <<at, link>>

(* Mutant: the tip itself passes the range check.                          *)
CheckRangeInclusive ==
    /\ pc = "range"
    /\ IF target > tip
       THEN Return(NotBelowTip(target, tip))
       ELSE pc' = "count" /\ UNCHANGED <<at, link, answer>>

CheckRange ==
    /\ pc = "range"
    /\ IF target >= tip
       THEN Return(NotBelowTip(target, tip))
       ELSE pc' = "count" /\ UNCHANGED <<at, link, answer>>

CheckCount ==
    /\ pc = "count"
    /\ IF Len(headers) # tip - target
       THEN Return(Count(tip - target, Len(headers)))
       ELSE pc' = "heights" /\ UNCHANGED <<at, link, answer>>

(* Mutants of the ascending pass: the descending one starts past the last  *)
(* header, or skips it, or the position is never advanced.                 *)
HeightsThenLinksFrom(start) ==
    /\ pc = "heights"
    /\ IF at > Len(headers)
       THEN /\ pc' = "links" /\ at' = start /\ link' = parent
            /\ UNCHANGED answer
       ELSE IF HeightOf[headers[at]] # ExpectedHeight(target, at)
       THEN Return(WrongHeight(ExpectedHeight(target, at), HeightOf[headers[at]]))
       ELSE at' = at + 1 /\ UNCHANGED <<pc, link, answer>>

CheckHeightPastTheEnd == HeightsThenLinksFrom(at)
CheckHeightSkipsTheTop == HeightsThenLinksFrom(Len(headers) - 1)
CheckHeightStands == pc = "heights" /\ UNCHANGED <<pc, at, link, answer>>

(* Ascending.  Past the last header the descending pass starts at it, from *)
(* the link the proof binds.                                               *)
CheckHeight ==
    /\ pc = "heights"
    /\ IF at > Len(headers)
       THEN /\ pc' = "links" /\ at' = Len(headers) /\ link' = parent
            /\ UNCHANGED answer
       ELSE IF HeightOf[headers[at]] # ExpectedHeight(target, at)
       THEN Return(WrongHeight(ExpectedHeight(target, at), HeightOf[headers[at]]))
       ELSE at' = at + 1 /\ UNCHANGED <<pc, link, answer>>

(* Mutant: `link` stays the tip's parent all the way down.                 *)
CheckLinkNeverMoves ==
    /\ pc = "links"
    /\ IF at = 0
       THEN Return(InChain(headers[1]))
       ELSE IF BlockId[headers[at]] # link
       THEN Return(BrokenLink(HeightOf[headers[at]]))
       ELSE at' = at - 1 /\ UNCHANGED <<pc, link, answer>>

(* Descending.                                                             *)
CheckLink ==
    /\ pc = "links"
    /\ IF at = 0
       THEN Return(InChain(headers[1]))
       ELSE IF BlockId[headers[at]] # link
       THEN Return(BrokenLink(HeightOf[headers[at]]))
       ELSE /\ link' = ParentOf[headers[at]] /\ at' = at - 1
            /\ UNCHANGED <<pc, answer>>

Step == CheckRange \/ CheckCount \/ CheckHeight \/ CheckLink
Next == Step /\ UNCHANGED args

Spec     == Init /\ [][Next]_vars
FairSpec == Spec /\ WF_vars(Next)

----------------------------------------------------------------------------
(* Type invariant: the arguments are what Init chose them from, and `at`   *)
(* stays on a header or one past either end.                               *)
TypeOK ==
    /\ tip \in Tip /\ parent \in Hash /\ target \in Target /\ headers \in Served
    /\ pc \in {"range", "count", "heights", "links", "done"}
    /\ at \in 0..(Len(headers) + 1)
    /\ pc \in {"range", "count", "heights"} => at >= 1
    /\ pc = "links" => at <= Len(headers)
    /\ link \in Hash
    /\ pc # "done" => answer = NoAnswer

(* The two passes return exactly the declared answer: of all the headers   *)
(* that could be reported, the lowest misplaced one, else the highest one  *)
(* that does not hash to its child's link (ancestry.rs walk).              *)
AnswersAsStated == pc = "done" => answer = Walk(tip, parent, target, headers)

(* The claim of ancestry.rs l.15-19: an accepted run of headers is the run *)
(* the proof verified, block for block.  Whatever history is sealed under  *)
(* this tip's parent link, the headers are that history's.                 *)
AcceptedIsSealed ==
    (pc = "done" /\ answer.kind = "InChain") =>
        \A root \in 0..target : \A chain \in [root..(tip - 1) -> Header] :
            SealedHistory(chain, root, tip, parent) =>
                headers = RunOf(chain, target, tip)

(* And conversely a source that serves the sealed headers is never refused *)
(* whatever it is asked for below the tip.                                 *)
SealedIsAccepted ==
    pc = "done" =>
        \A root \in 0..target : \A chain \in [root..(tip - 1) -> Header] :
            (SealedHistory(chain, root, tip, parent) /\ target < tip
                /\ headers = RunOf(chain, target, tip))
            => answer = InChain(chain[target])

(* README.md l.234: a header that does not belong breaks the walk at   *)
(* that height.  The height a Link error names is the highest at which the *)
(* served run departs from the sealed history.                             *)
BreakIsPinpointed ==
    (pc = "done" /\ answer.kind = "Link") =>
        \A root \in 0..target : \A chain \in [root..(tip - 1) -> Header] :
            SealedHistory(chain, root, tip, parent) =>
                LET i == answer.height - target + 1
                IN  /\ headers[i] # chain[answer.height]
                    /\ \A j \in (i + 1)..Len(headers) :
                            headers[j] = chain[ExpectedHeight(target, j)]

(* The walk returns, whatever it is given.                                 *)
Returns == <>(pc = "done")
=============================================================================
