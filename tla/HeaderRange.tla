----------------------------- MODULE HeaderRange -----------------------------
(***************************************************************************)
(* headerRange of the gateway, src/rpc-proxy.mjs: one request for a range  *)
(* of headers becomes Count requests to the node, made by a few lanes that *)
(* share the counter `next`.  A lane runs alone between two awaits, so     *)
(* each action is what follows the settlement of one upstream call.        *)
(*                                                                         *)
(* The node's chain moves while the range is fetched: a header is of a     *)
(* height and of one of the blocks that may be there.                      *)
(***************************************************************************)
EXTENDS Integers, FiniteSetsExt

CONSTANTS
    Start,      \* first height asked for
    Count,      \* how many, 1..RANGE_MAX
    Parallel,   \* RANGE_PARALLEL
    Block,      \* what may be at a height
    Tips        \* heights the node's tip may be at

ASSUME RangeConstants ==
    /\ Start \in Nat /\ Count \in Nat \ {0} /\ Parallel \in Nat \ {0}
    /\ Tips \subseteq Nat

Pending   == [status |-> "pending"]    \* headerRange has not settled
Undefined == [is |-> "undefined"]      \* a slot of `new Array(count)` unwritten
NoHeader  == [is |-> "null"]           \* the node has no such height
Asking(i) == [pc |-> "asking", at |-> i]
Returned  == [pc |-> "returned"]       \* a lane whose loop has ended
Threw     == [pc |-> "threw"]          \* a lane whose call rejected

VARIABLES
    tip,     \* the node's tip
    lowest,  \* the lowest tip since the request came (history)
    next,    \* next offset to ask for
    lane,    \* offset a lane waits for, or how the lane ended
    out,     \* the array of answers
    result   \* how headerRange's promise settled

node == <<tip, lowest>>
vars == <<node, next, lane, out, result>>

Offsets == 0..(Count - 1)
Lanes   == 1..(IF Parallel < Count THEN Parallel ELSE Count)
Header  == [is : {"header"}, height : Nat, block : Block]

(* Array.from starts every lane in turn, so each has its first call out    *)
(* before any answer.                                                      *)
Init ==
    /\ tip \in Tips /\ lowest = tip
    /\ lane = [l \in Lanes |-> Asking(l - 1)] /\ next = Cardinality(Lanes)
    /\ out = [i \in Offsets |-> Undefined]
    /\ result = Pending

----------------------------------------------------------------------------
(* The node has this answer to jetsam_getHeaderByHeight at this moment.    *)
NodeAnswers(h) ==
    IF h > tip THEN {NoHeader} ELSE {[is |-> "header", height |-> h, block |-> b] : b \in Block}

(* Mutant: `next <= count`.                                                *)
OnwardPastTheEnd(l) ==
    IF next <= Count THEN lane' = [lane EXCEPT ![l] = Asking(next)] /\ next' = next + 1
    ELSE lane' = [lane EXCEPT ![l] = Returned] /\ UNCHANGED next

(* Mutant: the counter is advanced before it is read.                      *)
OnwardTakingTheLast(l) ==
    IF next < Count THEN lane' = [lane EXCEPT ![l] = Asking(next - 1)] /\ next' = next + 1
    ELSE lane' = [lane EXCEPT ![l] = Returned] /\ UNCHANGED next

(* The loop's test, then the next call.                                    *)
Onward(l) ==
    IF next < Count THEN lane' = [lane EXCEPT ![l] = Asking(next)] /\ next' = next + 1
    ELSE lane' = [lane EXCEPT ![l] = Returned] /\ UNCHANGED next

(* Mutant: answers are pushed as they come.                                *)
AnsweredInTurn(l) ==
    /\ lane[l].pc = "asking"
    /\ \E a \in NodeAnswers(Start + lane[l].at), i \in Offsets :
        /\ out[i].is = "undefined" /\ \A k \in 0..(i - 1) : out[k].is # "undefined"
        /\ out' = [out EXCEPT ![i] = a]
    /\ Onward(l)
    /\ UNCHANGED <<node, result>>

(* What follows the await.                                                 *)
Answered(l) ==
    /\ lane[l].pc = "asking"
    /\ \E a \in NodeAnswers(Start + lane[l].at) : out' = [out EXCEPT ![lane[l].at] = a]
    /\ Onward(l)
    /\ UNCHANGED <<node, result>>

(* Mutant: no AbortSignal, on a node that answers nothing.                 *)
FailedUntimed(l) == FALSE

(* Mutant: a lane asks again for what failed.                              *)
FailedRetried(l) ==
    /\ lane[l].pc = "asking"
    /\ result' = IF result.status = "pending" THEN [status |-> "unavailable"] ELSE result
    /\ UNCHANGED <<node, next, lane, out>>

(* A call fails, or its 30 seconds are over.  Promise.all rejects with the *)
(* first one; the lanes that remain know nothing of it.                    *)
Failed(l) ==
    /\ lane[l].pc = "asking"
    /\ lane' = [lane EXCEPT ![l] = Threw]
    /\ result' = IF result.status = "pending" THEN [status |-> "unavailable"] ELSE result
    /\ UNCHANGED <<node, next, out>>

Absent == {i \in Offsets : out[i].is # "header"}

(* Mutant: Promise.race in the place of Promise.all.                       *)
SettleAtTheFirst ==
    /\ result.status = "pending" /\ \E l \in Lanes : lane[l].pc = "returned"
    /\ result' = IF Absent = {} THEN [status |-> "ok", headers |-> out]
                 ELSE [status |-> "past_tip", height |-> Start + Min(Absent)]
    /\ UNCHANGED <<node, next, lane, out>>

(* Promise.all has every lane.                                             *)
Settle ==
    /\ result.status = "pending" /\ \A l \in Lanes : lane[l].pc = "returned"
    /\ result' = IF Absent = {} THEN [status |-> "ok", headers |-> out]
                 ELSE [status |-> "past_tip", height |-> Start + Min(Absent)]
    /\ UNCHANGED <<node, next, lane, out>>

(* The node takes blocks and gives some back.                              *)
ChainMoves ==
    /\ tip' \in Tips \ {tip}
    /\ lowest' = IF tip' < lowest THEN tip' ELSE lowest
    /\ UNCHANGED <<next, lane, out, result>>

Next == ChainMoves \/ Settle \/ \E l \in Lanes : Answered(l) \/ Failed(l)

Spec == Init /\ [][Next]_vars

(* AbortSignal.timeout fails the calls that are not answered in time; that *)
(* the node answers is not assumed.                                        *)
FairSpec == Spec /\ WF_vars(Settle) /\ \A l \in Lanes : WF_vars(Failed(l))

----------------------------------------------------------------------------
Results ==
    [status : {"pending", "unavailable"}]
    \cup [status : {"ok"}, headers : [Offsets -> Header]]
    \cup [status : {"past_tip"}, height : Nat]

TypeOK ==
    /\ tip \in Tips /\ lowest \in Tips /\ lowest <= tip
    /\ next \in 0..Count
    /\ lane \in [Lanes -> [pc : {"asking"}, at : Offsets] \cup {Returned, Threw}]
    /\ out \in [Offsets -> Header \cup {Undefined, NoHeader}]
    /\ result \in Results

(* No height is asked for twice, whatever order answers come in: a height  *)
(* waited for is waited for by one lane, and has no answer yet             *)
(* (rpc-proxy.mjs l.73-75).                                                *)
AskedOnce ==
    \A l \in Lanes : lane[l].pc = "asking" =>
        /\ out[lane[l].at].is = "undefined"
        /\ \A k \in Lanes : lane[k].pc = "asking" /\ lane[k].at = lane[l].at => k = l

(* "Headers start..start+count, ascending" (l.67): an answered range holds *)
(* a header of every height asked for, in its place.                       *)
RangeInOrder ==
    result.status = "ok" =>
        \A i \in Offsets : result.headers[i].height = Start + i

(* "the first height the node does not have" (l.67-68): the height named   *)
(* was above the node's tip at some moment of the request, and the node    *)
(* has answered for every lower one.                                       *)
NamedIsPastTip ==
    result.status = "past_tip" =>
        /\ result.height \in Start..(Start + Count - 1)
        /\ result.height > lowest
        /\ \A h \in Start..(result.height - 1) : out[h - Start].is = "header"

(* The handler gets its answer, and the lanes stop asking the node, also   *)
(* after a failure the handler has already reported.                       *)
Settles == <>(result.status # "pending")
LanesStop == <>[](\A l \in Lanes : lane[l].pc # "asking")
=============================================================================
