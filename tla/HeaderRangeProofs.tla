-------------------------- MODULE HeaderRangeProofs --------------------------
(***************************************************************************)
(* The invariants of headerRange, for every range, number of lanes and     *)
(* movement of the node's tip.                                             *)
(*                                                                         *)
(* That a range is answered whole rests on an account of every offset: at  *)
(* or past `next` it is untouched; below, it is answered, waited for by    *)
(* one lane, or was lost by a lane that threw, and then the request has    *)
(* failed already.                                                         *)
(***************************************************************************)
EXTENDS HeaderRange, FiniteSetTheorems, WellFoundedInduction, TLAPS

(* A lane that ended without throwing left nothing to ask for.             *)
LanesAccounted ==
    \A l \in Lanes :
        /\ lane[l].pc = "asking" => lane[l].at < next
        /\ lane[l].pc = "returned" => next = Count
        /\ lane[l].pc = "threw" => result.status # "pending"

WaitedFor(i) == \E l \in Lanes : lane[l].pc = "asking" /\ lane[l].at = i
Lost == \E l \in Lanes : lane[l].pc = "threw"

OffsetsAccounted ==
    \A i \in Offsets :
        /\ i >= next => out[i].is = "undefined"
        /\ i < next => out[i].is # "undefined" \/ WaitedFor(i) \/ Lost

(* What an answer in a slot says of the node.                              *)
AnswersTrue ==
    \A i \in Offsets :
        /\ out[i].is = "header" => out[i].height = Start + i
        /\ out[i].is = "null" => Start + i > lowest

(* What a settled range has seen: Promise.all fulfils after the last lane. *)
SettledTrue ==
    /\ result.status = "ok" => \A i \in Offsets : result.headers[i].height = Start + i
    /\ result.status = "past_tip" =>
        /\ \A l \in Lanes : lane[l].pc = "returned"
        /\ result.height \in Start..(Start + Count - 1)
        /\ out[result.height - Start].is = "null"
        /\ \A h \in Start..(result.height - 1) : out[h - Start].is = "header"

RangeInv ==
    /\ TypeOK /\ AskedOnce /\ LanesAccounted /\ OffsetsAccounted
    /\ AnswersTrue /\ SettledTrue
----------------------------------------------------------------------------
(* Every nonempty set of offsets has a least one, and Min finds it.        *)
LEMMA MinOfOffsets ==
    ASSUME NEW S \in SUBSET Offsets, S # {}
    PROVE  Min(S) \in S /\ \A m \in S : Min(S) <= m
<1> DEFINE R == {ss \in Nat \X Nat : ss[1] < ss[2]}
<1>1. IsWellFoundedOn(R, Nat)
  BY NatLessThanWellFounded DEF OpToRel
<1>2. S \in SUBSET Nat
  BY RangeConstants DEF Offsets
<1> HIDE DEF R
<1>3. PICK x \in S : \A y \in S : ~(<<y, x>> \in R)
  BY <1>1, <1>2, WFMin
<1>4. \A y \in S : ~(y < x)
  BY <1>2, <1>3 DEF R
<1>5. \A y \in S : x <= y
  BY <1>2, <1>4
<1> QED
  BY <1>5, Zenon DEF Min

(* As many lanes start as were counted.                                    *)
LEMMA LanesCounted ==
    /\ Cardinality(Lanes) \in Nat
    /\ Lanes = 1..Cardinality(Lanes)
    /\ Cardinality(Lanes) <= Count
<1> DEFINE n == IF Parallel < Count THEN Parallel ELSE Count
<1>1. n \in Nat \ {0} /\ n <= Count
  BY RangeConstants
<1>2. Cardinality(1..n) = n
  BY <1>1, FS_Interval
<1> QED
  BY <1>1, <1>2 DEF Lanes

(* What a lane can be, as the provers need it.                             *)
LEMMA LaneShapes ==
    ASSUME TypeOK, NEW l \in Lanes
    PROVE  /\ lane[l].pc \in {"asking", "returned", "threw"}
           /\ lane[l].pc = "asking" => lane[l].at \in Offsets
  BY DEF TypeOK, Returned, Threw

LEMMA OutShapes ==
    ASSUME TypeOK, NEW i \in Offsets
    PROVE  out[i].is \in {"undefined", "null", "header"}
  BY DEF TypeOK, Header, Undefined, NoHeader

LEMMA RangeInit ==
    ASSUME Init
    PROVE  RangeInv
<1> USE DEF Asking, Undefined, Pending
<1>1. \A l \in Lanes : l - 1 \in Offsets /\ l - 1 < next
  BY LanesCounted, RangeConstants DEF Init, Offsets
<1>2. TypeOK
  <2>1. lane \in [Lanes -> [pc : {"asking"}, at : Offsets] \cup {Returned, Threw}]
    BY <1>1 DEF Init
  <2> QED
    BY <2>1, LanesCounted, RangeConstants DEF Init, TypeOK, Results, Header
<1>3. \A l \in Lanes : lane[l].pc = "asking" /\ lane[l].at = l - 1
  BY DEF Init
<1>4. \A i \in Offsets : out[i].is = "undefined"
  BY DEF Init
<1>5. AskedOnce
  <2>1. \A k, l \in Lanes : k - 1 = l - 1 => k = l
    BY LanesCounted
  <2> QED
    BY <1>1, <1>3, <1>4, <2>1 DEF AskedOnce
<1>6. LanesAccounted
  BY <1>1, <1>3 DEF LanesAccounted
<1>7. OffsetsAccounted
  <2>1. \A i \in Offsets : i < next => i + 1 \in Lanes /\ (i + 1) - 1 = i
    BY LanesCounted, RangeConstants DEF Init, Offsets
  <2>2. \A i \in Offsets : i < next => WaitedFor(i)
    BY <2>1, <1>3 DEF WaitedFor
  <2> QED
    BY <2>2, <1>4 DEF OffsetsAccounted
<1>8. AnswersTrue /\ SettledTrue
  BY <1>4 DEF AnswersTrue, SettledTrue, Init
<1> QED
  BY <1>2, <1>5, <1>6, <1>7, <1>8 DEF RangeInv

----------------------------------------------------------------------------
(* A lane moves on: the next offset is its own, or there is none.          *)
LEMMA OnwardLanes ==
    ASSUME RangeInv, NEW l \in Lanes, lane[l].pc = "asking", Onward(l)
    PROVE  /\ next' \in 0..Count /\ next <= next'
           /\ lane' \in [Lanes -> [pc : {"asking"}, at : Offsets] \cup {Returned, Threw}]
           /\ \A k \in Lanes \ {l} : lane'[k] = lane[k]
           /\ \/ next < Count /\ next' = next + 1 /\ lane'[l].pc = "asking" /\ lane'[l].at = next
              \/ next = Count /\ next' = next /\ lane'[l].pc = "returned"
<1> USE DEF Asking, Returned
<1>1. next \in 0..Count /\ Count \in Nat \ {0}
  BY RangeConstants DEF RangeInv, TypeOK
<1>2. lane \in [Lanes -> [pc : {"asking"}, at : Offsets] \cup {Returned, Threw}]
  BY DEF RangeInv, TypeOK
<1>3. CASE next < Count
  <2>1. lane' = [lane EXCEPT ![l] = [pc |-> "asking", at |-> next]] /\ next' = next + 1
    BY <1>3 DEF Onward
  <2>2. next \in Offsets
    BY <1>1, <1>3 DEF Offsets
  <2>3. [pc |-> "asking", at |-> next] \in [pc : {"asking"}, at : Offsets]
    BY <2>2
  <2>4. lane' \in [Lanes -> [pc : {"asking"}, at : Offsets] \cup {Returned, Threw}]
    BY <1>2, <2>1, <2>3
  <2> QED
    BY <1>1, <1>2, <1>3, <2>1, <2>4
<1>4. CASE ~(next < Count)
  <2>1. lane' = [lane EXCEPT ![l] = [pc |-> "returned"]] /\ next' = next
    BY <1>4 DEF Onward
  <2> QED
    BY <1>1, <1>2, <1>4, <2>1
<1> QED
  BY <1>3, <1>4

(* The answer that comes in belongs to the offset it is for.               *)
LEMMA AnswerIsTheNodes ==
    ASSUME TypeOK, NEW i \in Offsets, NEW a \in NodeAnswers(Start + i)
    PROVE  /\ a \in Header \cup {NoHeader}
           /\ a.is \in {"header", "null"}
           /\ a.is = "header" => a.height = Start + i
           /\ a.is = "null" => Start + i > lowest
<1>1. Start + i \in Nat /\ tip \in Nat /\ lowest \in Nat /\ lowest <= tip
  BY RangeConstants DEF Offsets, TypeOK
<1> QED
  BY <1>1 DEF NodeAnswers, Header, NoHeader

LEMMA AnsweredKeeps ==
    ASSUME RangeInv, NEW l \in Lanes, Answered(l)
    PROVE  RangeInv'
<1> DEFINE i == lane[l].at
<1>1. lane[l].pc = "asking" /\ i \in Offsets /\ Onward(l)
  BY LaneShapes DEF Answered, RangeInv
<1>2. PICK a \in NodeAnswers(Start + i) : out' = [out EXCEPT ![i] = a]
  BY DEF Answered
<1>3. /\ a \in Header \cup {NoHeader}
      /\ a.is \in {"header", "null"}
      /\ a.is = "header" => a.height = Start + i
      /\ a.is = "null" => Start + i > lowest
  BY <1>1, <1>2, AnswerIsTheNodes DEF RangeInv
<1>4. tip' = tip /\ lowest' = lowest /\ result' = result
  BY DEF Answered, node
<1>5. out \in [Offsets -> Header \cup {Undefined, NoHeader}]
  BY DEF RangeInv, TypeOK
<1> HIDE DEF i
<1>6. /\ out' \in [Offsets -> Header \cup {Undefined, NoHeader}]
      /\ out'[i] = a
      /\ \A j \in Offsets \ {i} : out'[j] = out[j]
  BY <1>1, <1>2, <1>3, <1>5
<1>7. next \in 0..Count /\ Count \in Nat /\ Offsets \in SUBSET Nat /\ \A j \in Offsets : j < Count
  BY RangeConstants DEF RangeInv, TypeOK, Offsets
<1>8. /\ next' \in 0..Count /\ next <= next'
      /\ lane' \in [Lanes -> [pc : {"asking"}, at : Offsets] \cup {Returned, Threw}]
      /\ \A k \in Lanes \ {l} : lane'[k] = lane[k]
      /\ \/ next < Count /\ next' = next + 1 /\ lane'[l].pc = "asking" /\ lane'[l].at = next
         \/ next = Count /\ next' = next /\ lane'[l].pc = "returned"
  BY <1>1, OnwardLanes
<1>9. TypeOK'
  BY <1>4, <1>6, <1>8 DEF RangeInv, TypeOK
<1>10. i < next /\ \A k \in Lanes : lane[k].pc = "asking" /\ lane[k].at = i => k = l
  BY <1>1 DEF RangeInv, LanesAccounted, AskedOnce, i
<1>11. AskedOnce'
  <2> SUFFICES ASSUME NEW k \in Lanes, lane'[k].pc = "asking"
               PROVE  /\ out'[lane'[k].at].is = "undefined"
                      /\ \A m \in Lanes : lane'[m].pc = "asking" /\ lane'[m].at = lane'[k].at => m = k
    BY DEF AskedOnce
  <2>1. \A m \in Lanes \ {l} : lane[m].pc = "asking" =>
            lane[m].at \in Offsets /\ lane[m].at < next /\ lane[m].at # i
                /\ out[lane[m].at].is = "undefined"
    BY <1>10, LaneShapes DEF RangeInv, LanesAccounted, AskedOnce
  <2>2. CASE k = l
    <3>1. next \in Offsets /\ next # i /\ lane'[k].at = next
      BY <2>2, <1>7, <1>8, <1>10 DEF Offsets
    <3>2. out[next].is = "undefined"
      BY <3>1, <1>7 DEF RangeInv, OffsetsAccounted
    <3>3. \A m \in Lanes \ {l} : lane'[m].pc = "asking" => lane'[m].at # next
      BY <1>7, <1>8, <2>1
    <3> QED
      BY <2>2, <3>1, <3>2, <3>3, <1>6
  <2>3. CASE k # l
    <3>1. lane'[k] = lane[k] /\ lane[k].at \in Offsets /\ lane[k].at < next
                /\ out'[lane[k].at].is = "undefined"
      BY <2>1, <2>3, <1>6, <1>8
    <3>2. lane'[l].pc = "asking" => lane'[l].at # lane[k].at
      BY <3>1, <1>7, <1>8
    <3>3. \A m \in Lanes \ {l} : lane[m].pc = "asking" /\ lane[m].at = lane[k].at => m = k
      BY <2>3, <3>1 DEF RangeInv, AskedOnce
    <3> QED
      BY <3>1, <3>2, <3>3, <1>8
  <2> QED
    BY <2>2, <2>3
<1>12. LanesAccounted'
  <2>1. \A k \in Lanes : lane[k].pc = "asking" => lane[k].at < next' /\ lane[k].at \in Nat
    <3>1. \A k \in Lanes : lane[k].pc = "asking" => lane[k].at \in Offsets /\ lane[k].at < next
      BY LaneShapes DEF RangeInv, LanesAccounted
    <3>2. next \in Nat /\ next' \in Nat /\ next <= next'
      BY <1>7, <1>8
    <3>3. \A k \in Lanes : lane[k].pc = "asking" => lane[k].at \in Nat
      BY <3>1, <1>7
    <3>4. ASSUME NEW k \in Lanes, lane[k].pc = "asking"
          PROVE  lane[k].at < next' /\ lane[k].at \in Nat
      <4>1. lane[k].at < next /\ lane[k].at \in Nat
        BY <3>1, <3>3, <3>4
      <4> QED
        BY <3>2, <4>1
    <3> QED
      BY <3>4
  <2>2. \A k \in Lanes : lane[k].pc = "returned" => next' = Count
    BY <1>7, <1>8 DEF RangeInv, LanesAccounted
  <2> QED
    BY <1>4, <1>7, <1>8, <2>1, <2>2 DEF RangeInv, LanesAccounted
<1>13. OffsetsAccounted'
  <2> SUFFICES ASSUME NEW j \in Offsets
               PROVE  /\ j >= next' => out'[j].is = "undefined"
                      /\ j < next' => out'[j].is # "undefined" \/ WaitedFor(j)' \/ Lost'
    BY DEF OffsetsAccounted
  <2>1. CASE j = i
    BY <2>1, <1>3, <1>6, <1>7, <1>8, <1>10
  <2>2. CASE j # i
    <3>1. out'[j] = out[j]
      BY <2>2, <1>6
    <3>2. WaitedFor(j) => WaitedFor(j)'
      BY <2>2, <1>8, i = lane[l].at DEF WaitedFor, i
    <3>3. Lost => Lost'
      BY <1>1, <1>8 DEF Lost
    <3>4. j = next /\ next < next' => WaitedFor(j)'
      BY <1>7, <1>8 DEF WaitedFor
    <3> QED
      BY <3>1, <3>2, <3>3, <3>4, <1>7, <1>8 DEF RangeInv, OffsetsAccounted
  <2> QED
    BY <2>1, <2>2
<1>14. AnswersTrue'
  BY <1>3, <1>4, <1>6 DEF RangeInv, AnswersTrue
<1>15. SettledTrue'
  <2>1. result.status # "past_tip"
    BY <1>1 DEF RangeInv, SettledTrue
  <2> QED
    BY <2>1, <1>4 DEF RangeInv, SettledTrue
<1> QED
  BY <1>9, <1>11, <1>12, <1>13, <1>14, <1>15 DEF RangeInv

----------------------------------------------------------------------------
LEMMA FailedKeeps ==
    ASSUME RangeInv, NEW l \in Lanes, Failed(l)
    PROVE  RangeInv'
<1>1. /\ lane[l].pc = "asking" /\ lane' = [lane EXCEPT ![l] = Threw]
      /\ tip' = tip /\ lowest' = lowest /\ next' = next /\ out' = out
      /\ result' = IF result.status = "pending" THEN [status |-> "unavailable"] ELSE result
  BY DEF Failed, node
<1>2. lane \in [Lanes -> [pc : {"asking"}, at : Offsets] \cup {Returned, Threw}]
  BY DEF RangeInv, TypeOK
<1>3. /\ lane' \in [Lanes -> [pc : {"asking"}, at : Offsets] \cup {Returned, Threw}]
      /\ lane'[l].pc = "threw" /\ \A k \in Lanes \ {l} : lane'[k] = lane[k]
  BY <1>1, <1>2 DEF Threw
<1>4. /\ result' \in Results /\ result'.status # "pending"
      /\ result.status # "past_tip" /\ result'.status # "past_tip"
      /\ result'.status = "ok" => result' = result
  <2>1. result \in Results /\ result.status # "past_tip"
    BY <1>1 DEF RangeInv, TypeOK, SettledTrue
  <2> QED
    BY <1>1, <2>1 DEF Results
<1>5. TypeOK'
  BY <1>1, <1>3, <1>4 DEF RangeInv, TypeOK
<1>6. AskedOnce'
  BY <1>1, <1>3 DEF RangeInv, AskedOnce
<1>7. LanesAccounted'
  BY <1>1, <1>3, <1>4 DEF RangeInv, LanesAccounted
<1>8. OffsetsAccounted'
  <2>1. Lost'
    BY <1>3 DEF Lost
  <2> QED
    BY <1>1, <2>1 DEF RangeInv, OffsetsAccounted
<1>9. AnswersTrue' /\ SettledTrue'
  BY <1>1, <1>4 DEF RangeInv, AnswersTrue, SettledTrue
<1> QED
  BY <1>5, <1>6, <1>7, <1>8, <1>9 DEF RangeInv

(* Promise.all has fulfilled: no slot is left unwritten.                   *)
LEMMA AllAnswered ==
    ASSUME RangeInv, result.status = "pending", \A l \in Lanes : lane[l].pc = "returned"
    PROVE  \A i \in Offsets : out[i].is \in {"null", "header"}
<1>1. Lanes # {}
  BY RangeConstants, 1 \in Lanes DEF Lanes
<1>2. next = Count
  BY <1>1 DEF RangeInv, LanesAccounted
<1>3. ~Lost /\ \A i \in Offsets : ~WaitedFor(i)
  BY DEF Lost, WaitedFor
<1>4. \A i \in Offsets : i < next
  BY <1>2, RangeConstants DEF Offsets
<1>5. \A i \in Offsets : out[i].is # "undefined"
  BY <1>3, <1>4 DEF RangeInv, OffsetsAccounted
<1> QED
  BY <1>5, OutShapes DEF RangeInv

LEMMA SettleKeeps ==
    ASSUME RangeInv, Settle
    PROVE  RangeInv'
<1>1. /\ tip' = tip /\ lowest' = lowest /\ next' = next /\ lane' = lane /\ out' = out
      /\ result.status = "pending" /\ \A l \in Lanes : lane[l].pc = "returned"
      /\ result' = IF Absent = {} THEN [status |-> "ok", headers |-> out]
                   ELSE [status |-> "past_tip", height |-> Start + Min(Absent)]
  BY DEF Settle, node
<1>2. \A i \in Offsets : out[i].is \in {"null", "header"}
  BY <1>1, AllAnswered
<1>3. /\ result' \in Results /\ result'.status # "pending"
      /\ SettledTrue'
  <2>1. CASE Absent = {}
    <3>1. \A i \in Offsets : out[i].is = "header"
      BY <2>1 DEF Absent
    <3>2. out \in [Offsets -> Header]
      <4>1. out \in [Offsets -> Header \cup {Undefined, NoHeader}]
        BY DEF RangeInv, TypeOK
      <4> QED
        BY <3>1, <4>1 DEF Undefined, NoHeader
    <3>3. result' = [status |-> "ok", headers |-> out]
      BY <1>1, <2>1
    <3>4. \A i \in Offsets : out[i].height = Start + i
      BY <3>1 DEF RangeInv, AnswersTrue
    <3> QED
      BY <3>2, <3>3, <3>4 DEF Results, SettledTrue
  <2>2. CASE Absent # {}
    <3> DEFINE m == Min(Absent)
    <3>1. m \in Absent /\ \A j \in Absent : m <= j
      BY <2>2, MinOfOffsets DEF Absent
    <3>2. result' = [status |-> "past_tip", height |-> Start + m]
      BY <1>1, <2>2
    <3> HIDE DEF m
    <3>3. m \in Offsets /\ out[m].is = "null"
      BY <1>2, <3>1 DEF Absent
    <3>4. \A j \in Offsets : j < m => out[j].is = "header"
      BY <3>1, <3>3 DEF Absent, Offsets
    <3>5. /\ Start + m \in Nat /\ Start + m \in Start..(Start + Count - 1)
          /\ (Start + m) - Start = m
          /\ \A h \in Start..(Start + m - 1) : h - Start \in Offsets /\ h - Start < m
      BY <3>3, RangeConstants DEF Offsets
    <3>6. /\ result'.status = "past_tip" /\ result'.height = Start + m
          /\ result' \in Results
      BY <3>2, <3>5 DEF Results
    <3>7. /\ result'.height \in Start..(Start + Count - 1)
          /\ out[result'.height - Start].is = "null"
      BY <3>3, <3>5, <3>6
    <3>8. \A h \in Start..(result'.height - 1) : out[h - Start].is = "header"
      <4>1. \A h \in Start..(Start + m - 1) : out[h - Start].is = "header"
        BY <3>4, <3>5
      <4>2. result'.height = Start + m /\ Start \in Nat /\ m \in Nat
        BY <3>3, <3>6, RangeConstants DEF Offsets
      <4>3. ASSUME NEW h \in Start..(result'.height - 1)
            PROVE  h \in Start..(Start + m - 1)
        BY <4>2
      <4> QED
        BY <4>1, <4>3
    <3> QED
      BY <1>1, <3>6, <3>7, <3>8 DEF SettledTrue
  <2> QED
    BY <2>1, <2>2
<1>4. TypeOK'
  BY <1>1, <1>3 DEF RangeInv, TypeOK
<1>5. AskedOnce' /\ LanesAccounted' /\ AnswersTrue'
  BY <1>1, <1>3 DEF RangeInv, AskedOnce, LanesAccounted, AnswersTrue
<1>6. OffsetsAccounted'
  <2>1. \A i \in Offsets : (WaitedFor(i) <=> WaitedFor(i)') /\ (Lost <=> Lost')
    BY <1>1 DEF WaitedFor, Lost
  <2> QED
    BY <1>1, <2>1 DEF RangeInv, OffsetsAccounted
<1> QED
  BY <1>3, <1>4, <1>5, <1>6 DEF RangeInv

(* A height that was missing was above the tip of then, so above the       *)
(* lowest there has been, however the tip moves.                           *)
LEMMA ChainMovesKeeps ==
    ASSUME RangeInv, ChainMoves
    PROVE  RangeInv'
<1>1. /\ next' = next /\ lane' = lane /\ out' = out /\ result' = result
      /\ tip' \in Tips /\ lowest' = IF tip' < lowest THEN tip' ELSE lowest
  BY DEF ChainMoves
<1>2. Tips \in SUBSET Nat /\ tip \in Tips /\ lowest \in Tips
  BY RangeConstants DEF RangeInv, TypeOK
<1>3. lowest' \in Tips /\ lowest' <= tip' /\ lowest' <= lowest
  BY <1>1, <1>2
<1>4. TypeOK'
  BY <1>1, <1>3 DEF RangeInv, TypeOK
<1>5. AnswersTrue'
  BY <1>1, <1>2, <1>3, RangeConstants DEF RangeInv, AnswersTrue, Offsets
<1>6. AskedOnce' /\ LanesAccounted' /\ SettledTrue'
  BY <1>1 DEF RangeInv, AskedOnce, LanesAccounted, SettledTrue
<1>7. OffsetsAccounted'
  BY <1>1 DEF RangeInv, OffsetsAccounted, WaitedFor, Lost
<1> QED
  BY <1>4, <1>5, <1>6, <1>7 DEF RangeInv

LEMMA RangeStep ==
    ASSUME RangeInv, [Next]_vars
    PROVE  RangeInv'
<1>1. CASE ChainMoves
  BY <1>1, ChainMovesKeeps
<1>2. CASE Settle
  BY <1>2, SettleKeeps
<1>3. ASSUME NEW l \in Lanes, Answered(l) PROVE RangeInv'
  BY <1>3, AnsweredKeeps
<1>4. ASSUME NEW l \in Lanes, Failed(l) PROVE RangeInv'
  BY <1>4, FailedKeeps
<1>5. CASE UNCHANGED vars
  BY <1>5 DEF vars, node, RangeInv, TypeOK, AskedOnce, LanesAccounted, OffsetsAccounted,
              WaitedFor, Lost, AnswersTrue, SettledTrue
<1> QED
  BY <1>1, <1>2, <1>3, <1>4, <1>5 DEF Next

LEMMA RangeInvHolds == Spec => []RangeInv
  BY RangeInit, RangeStep, PTL DEF Spec

(* The type invariant of headerRange (rpc-proxy.mjs l.69-82).              *)
THEOREM RangeTypeOK == Spec => []TypeOK
<1>1. RangeInv => TypeOK
  BY DEF RangeInv
<1> QED
  BY <1>1, RangeInvHolds, PTL

(* The lanes share one counter and never ask for a height twice, in        *)
(* whatever order the node answers (rpc-proxy.mjs l.72-77).                *)
THEOREM LanesShareTheCounter == Spec => []AskedOnce
<1>1. RangeInv => AskedOnce
  BY DEF RangeInv
<1> QED
  BY <1>1, RangeInvHolds, PTL

(* A range that is answered is whole and in order (l.67, 81).              *)
THEOREM RangeIsWhole == Spec => []RangeInOrder
<1>1. RangeInv => RangeInOrder
  BY DEF RangeInv, SettledTrue, RangeInOrder
<1> QED
  BY <1>1, RangeInvHolds, PTL

(* The height an error names is the first that was missing, and it was     *)
(* above the tip of the node during the request (l.67-68, 79-80).          *)
THEOREM TheFirstMissingIsNamed == Spec => []NamedIsPastTip
<1>1. ASSUME RangeInv, result.status = "past_tip"
      PROVE  result.height > lowest
  <2>1. result.height \in Start..(Start + Count - 1) /\ out[result.height - Start].is = "null"
    BY <1>1 DEF RangeInv, SettledTrue
  <2>2. result.height - Start \in Offsets /\ Start + (result.height - Start) = result.height
    BY <2>1, RangeConstants DEF Offsets
  <2> QED
    BY <1>1, <2>1, <2>2 DEF RangeInv, AnswersTrue
<1>2. RangeInv => NamedIsPastTip
  BY <1>1 DEF RangeInv, SettledTrue, NamedIsPastTip
<1> QED
  BY <1>2, RangeInvHolds, PTL
=============================================================================
