---------------------------- MODULE GatewayProofs ----------------------------
(***************************************************************************)
(* For any numbers of requests and visitors, any limits and any clock:     *)
(* what a visitor is let through in a window's time.                       *)
(*                                                                         *)
(* Windows are fixed and start more than RateMs after each other, so no    *)
(* interval of RateMs meets three of them.  The invariant says so without  *)
(* naming the windows that are gone: of what came at `start - RateMs` or   *)
(* later, at most one window's limit is not in the bucket there is now,    *)
(* and of what came after `start` everything is.  It has to allow for a    *)
(* bucket that is charged long after it has expired, and for a charge to   *)
(* one bucket and the start of the next at the same moment.                *)
(***************************************************************************)
EXTENDS Gateway, FiniteSetTheorems, TLAPS

(* Sent, Admitted and Headers of any state of the requests.                *)
SentOf(rq, v, a, b) ==
    {r \in Request : rq[r].pc # "unsent" /\ rq[r].ip = v /\ rq[r].at \in a..b}

AdmittedOf(rq, v, a, b) == {r \in SentOf(rq, v, a, b) : rq[r].reply # "rate limited"}

HeadersOf(rq, v, a, b) ==
    {h \in Request \X Nat : /\ rq[h[1]].ip = v /\ rq[h[1]].charged \in a..b
                            /\ h[2] \in 1..rq[h[1]].count}

Least(x, y) == IF x <= y THEN x ELSE y

(* Visitor v at time t without a bucket ...                                *)
Quiet(rq, v, t) ==
    /\ Cardinality(AdmittedOf(rq, v, t - RateMs, t)) <= RateMax
    /\ Cardinality(HeadersOf(rq, v, t - RateMs, t)) <= RangeBudget

(* ... and with bucket k.                                                  *)
Counted(rq, v, k, t) ==
    /\ k.start <= t
    /\ k.n <= Cardinality(SentOf(rq, v, k.start, t))
    /\ Cardinality(AdmittedOf(rq, v, k.start + 1, t)) <= Least(k.n, RateMax)
    /\ Cardinality(AdmittedOf(rq, v, k.start - RateMs, t)) <= RateMax + Least(k.n, RateMax)
    /\ Cardinality(HeadersOf(rq, v, k.start + 1, t)) <= Least(k.headers, RangeBudget)
    /\ Cardinality(HeadersOf(rq, v, k.start - RateMs, t))
            <= RangeBudget + Least(k.headers, RangeBudget)

BucketHolds(rq, v, k, t) == IF k = NoBucket THEN Quiet(rq, v, t) ELSE Counted(rq, v, k, t)

(* What was sent and charged is finite and past; a request that is waiting *)
(* has been told nothing, and one that is not through has fetched nothing. *)
SaneRequest(q, t) ==
    /\ q.at <= t /\ q.charged <= t
    /\ q.pc # "unsent" => q.ip \in Visitor
    /\ q.pc \in {"unsent", "reading"} => q.count = 0
    /\ q.pc \in {"unsent", "reading", "forwarded", "fetching"} => q.reply = "none"

Sane(rq, t) ==
    /\ IsFiniteSet({r \in Request : rq[r].pc # "unsent"})
    /\ IsFiniteSet({h \in Request \X Nat : h[2] \in 1..rq[h[1]].count})
    /\ \A r \in Request : SaneRequest(rq[r], t)

(* Every interval of RateMs.                                               *)
WithinTwo(rq, v) ==
    \A t \in Nat : /\ Cardinality(AdmittedOf(rq, v, t, t + RateMs)) <= 2 * RateMax
                   /\ Cardinality(HeadersOf(rq, v, t, t + RateMs)) <= 2 * RangeBudget

OverWhenLimited(rq) ==
    \A r \in Request : rq[r].reply = "rate limited" =>
        Cardinality(SentOf(rq, rq[r].ip, rq[r].at - RateMs, rq[r].at)) > RateMax

----------------------------------------------------------------------------
(* Sets of requests and headers, counted.                                  *)
LEMMA Bigger ==
  ASSUME NEW S, NEW T, IsFiniteSet(T), S \subseteq T
  PROVE  /\ IsFiniteSet(S) /\ Cardinality(S) \in Nat /\ Cardinality(T) \in Nat
         /\ Cardinality(S) <= Cardinality(T)
BY FS_Subset, FS_CardinalityType

LEMMA AreFinite ==
  ASSUME NEW rq, NEW v, NEW a, NEW b, NEW t, Sane(rq, t)
  PROVE  /\ IsFiniteSet(SentOf(rq, v, a, b)) /\ Cardinality(SentOf(rq, v, a, b)) \in Nat
         /\ IsFiniteSet(AdmittedOf(rq, v, a, b)) /\ Cardinality(AdmittedOf(rq, v, a, b)) \in Nat
         /\ IsFiniteSet(HeadersOf(rq, v, a, b)) /\ Cardinality(HeadersOf(rq, v, a, b)) \in Nat
<1>1. SentOf(rq, v, a, b) \subseteq {r \in Request : rq[r].pc # "unsent"}
  BY DEF SentOf
<1>2. AdmittedOf(rq, v, a, b) \subseteq SentOf(rq, v, a, b)
  BY DEF AdmittedOf
<1>3. HeadersOf(rq, v, a, b) \subseteq {h \in Request \X Nat : h[2] \in 1..rq[h[1]].count}
  BY DEF HeadersOf
<1> QED  BY <1>1, <1>2, <1>3, Bigger DEF Sane

LEMMA BucketTypes ==
  ASSUME NEW k, k \in Buckets
  PROVE  k.start \in Nat /\ k.n \in Nat /\ k.headers \in Nat
BY DEF Buckets

LEMMA RequestTypes ==
  ASSUME NEW rq, rq \in [Request -> Requests]
  PROVE  \A r \in Request :
           /\ rq[r] \in Requests
           /\ rq[r].at \in Nat /\ rq[r].charged \in Nat /\ rq[r].count \in Nat
<1>1. \A q : q \in Requests => q.at \in Nat /\ q.charged \in Nat /\ q.count \in Counts \cup {0}
  BY DEF Requests
<1>2. Counts \cup {0} \subseteq Nat
  BY GatewayConstants
<1>3. \A r \in Request : rq[r] \in Requests
  OBVIOUS
<1> QED  BY <1>1, <1>2, <1>3

(* Nothing is of a time after t, so what counts is where an interval begins. *)
LEMMA LaterIsLess ==
  ASSUME NEW rq, NEW v, NEW t, NEW a, NEW b, NEW c,
         rq \in [Request -> Requests], Sane(rq, t),
         t \in Int, a \in Int, b \in Int, c \in Int, c <= a
  PROVE  /\ Cardinality(SentOf(rq, v, a, b)) <= Cardinality(SentOf(rq, v, c, t))
         /\ Cardinality(AdmittedOf(rq, v, a, b)) <= Cardinality(AdmittedOf(rq, v, c, t))
         /\ Cardinality(HeadersOf(rq, v, a, b)) <= Cardinality(HeadersOf(rq, v, c, t))
<1>0. \A r \in Request : /\ rq[r].at \in Int /\ rq[r].charged \in Int
                         /\ rq[r].at <= t /\ rq[r].charged <= t
  BY RequestTypes DEF Sane, SaneRequest
<1>1. SentOf(rq, v, a, b) \subseteq SentOf(rq, v, c, t)
  BY <1>0 DEF SentOf
<1>2. AdmittedOf(rq, v, a, b) \subseteq AdmittedOf(rq, v, c, t)
  BY <1>1 DEF AdmittedOf
<1>3. HeadersOf(rq, v, a, b) \subseteq HeadersOf(rq, v, c, t)
  BY <1>0 DEF HeadersOf
<1> QED  BY <1>1, <1>2, <1>3, AreFinite, Bigger

(* A window that has expired leaves the visitor quiet.                     *)
LEMMA ExpiredIsQuiet ==
  ASSUME NEW rq, NEW v, NEW k, NEW t, rq \in [Request -> Requests], Sane(rq, t),
         t \in Nat, k \in Buckets, Counted(rq, v, k, t), t - k.start > RateMs
  PROVE  Quiet(rq, v, t)
<1>1. RateMs \in Nat /\ RateMax \in Nat /\ RangeBudget \in Nat
  BY GatewayConstants
<1>2. k.start \in Nat /\ k.n \in Nat /\ k.headers \in Nat
  BY DEF Buckets
<1>3. /\ Least(k.n, RateMax) \in Nat /\ Least(k.n, RateMax) <= RateMax
      /\ Least(k.headers, RangeBudget) \in Nat /\ Least(k.headers, RangeBudget) <= RangeBudget
  BY <1>1, <1>2 DEF Least
<1>4. t - RateMs \in Int /\ k.start + 1 \in Int /\ k.start + 1 <= t - RateMs
  BY <1>1, <1>2
<1>5. /\ Cardinality(AdmittedOf(rq, v, t - RateMs, t)) <= Cardinality(AdmittedOf(rq, v, k.start + 1, t))
      /\ Cardinality(HeadersOf(rq, v, t - RateMs, t)) <= Cardinality(HeadersOf(rq, v, k.start + 1, t))
  BY <1>4, LaterIsLess
<1> QED  BY <1>1, <1>3, <1>5, AreFinite DEF Quiet, Counted

(* What an interval of RateMs that reaches to t holds, from the bucket.    *)
LEMMA LastWindows ==
  ASSUME NEW rq, NEW v, NEW k, NEW t, NEW a, rq \in [Request -> Requests], Sane(rq, t),
         t \in Nat, a \in Nat, t <= a + RateMs, k \in Buckets, Counted(rq, v, k, t)
  PROVE  /\ Cardinality(AdmittedOf(rq, v, a, a + RateMs)) <= 2 * RateMax
         /\ Cardinality(HeadersOf(rq, v, a, a + RateMs)) <= 2 * RangeBudget
<1>1. RateMs \in Nat /\ RateMax \in Nat /\ RangeBudget \in Nat
  BY GatewayConstants
<1>2. k.start \in Nat /\ k.n \in Nat /\ k.headers \in Nat
  BY DEF Buckets
<1>3. /\ Least(k.n, RateMax) \in Nat /\ Least(k.n, RateMax) <= RateMax
      /\ Least(k.headers, RangeBudget) \in Nat /\ Least(k.headers, RangeBudget) <= RangeBudget
  BY <1>1, <1>2 DEF Least
<1>4. k.start - RateMs \in Int /\ a + RateMs \in Int /\ k.start - RateMs <= a
  BY <1>1, <1>2 DEF Counted
<1>5. /\ Cardinality(AdmittedOf(rq, v, a, a + RateMs))
             <= Cardinality(AdmittedOf(rq, v, k.start - RateMs, t))
      /\ Cardinality(HeadersOf(rq, v, a, a + RateMs))
             <= Cardinality(HeadersOf(rq, v, k.start - RateMs, t))
  BY <1>4, LaterIsLess
<1>6. /\ Cardinality(AdmittedOf(rq, v, k.start - RateMs, t)) <= RateMax + Least(k.n, RateMax)
      /\ Cardinality(HeadersOf(rq, v, k.start - RateMs, t))
             <= RangeBudget + Least(k.headers, RangeBudget)
  BY DEF Counted
<1>7. /\ Cardinality(AdmittedOf(rq, v, k.start - RateMs, t)) \in Nat
      /\ Cardinality(AdmittedOf(rq, v, a, a + RateMs)) \in Nat
      /\ Cardinality(HeadersOf(rq, v, k.start - RateMs, t)) \in Nat
      /\ Cardinality(HeadersOf(rq, v, a, a + RateMs)) \in Nat
  BY AreFinite
<1> QED  BY <1>1, <1>3, <1>5, <1>6, <1>7

----------------------------------------------------------------------------
(* What each kind of step does to the sets.                                *)
Others(rq, rq2, r) == \A s \in Request \ {r} : rq2[s] = rq[s]

Limited(q) == q.reply = "rate limited"

(* r comes from v at time t.                                               *)
Comes(rq, rq2, r, v, t) ==
    /\ rq[r].pc = "unsent" /\ rq[r].count = 0 /\ Others(rq, rq2, r)
    /\ rq2[r].ip = v /\ rq2[r].at = t /\ rq2[r].count = 0
    /\ IF rq2[r].reply = "rate limited" THEN rq2[r].pc = "done"
       ELSE rq2[r].pc = "reading" /\ rq2[r].reply = "none"

LEMMA ComesCounts ==
  ASSUME NEW rq, NEW rq2, NEW r, NEW v, NEW t, r \in Request, Comes(rq, rq2, r, v, t),
         NEW u, NEW a, NEW b
  PROVE  /\ r \notin SentOf(rq, u, a, b)
         /\ SentOf(rq, u, a, b) \subseteq SentOf(rq2, u, a, b)
         /\ u = v /\ t \in a..b => SentOf(rq2, u, a, b) = SentOf(rq, u, a, b) \cup {r}
         /\ u # v \/ t \notin a..b \/ Limited(rq2[r])
              => AdmittedOf(rq2, u, a, b) = AdmittedOf(rq, u, a, b)
         /\ u # v \/ t \notin a..b => SentOf(rq2, u, a, b) = SentOf(rq, u, a, b)
         /\ AdmittedOf(rq2, u, a, b) \subseteq AdmittedOf(rq, u, a, b) \cup {r}
         /\ HeadersOf(rq2, u, a, b) = HeadersOf(rq, u, a, b)
<1>1. r \notin SentOf(rq, u, a, b)
  BY DEF Comes, SentOf
<1>2. \A s \in Request : s \in SentOf(rq2, u, a, b) <=>
                            \/ s \in SentOf(rq, u, a, b)
                            \/ s = r /\ u = v /\ t \in a..b
  <2> TAKE s \in Request
  <2>1. CASE s = r
    BY <2>1, <1>1 DEF Comes, SentOf
  <2>2. CASE s # r
    BY <2>2 DEF Comes, Others, SentOf
  <2> QED  BY <2>1, <2>2
<1>3. \A s \in Request : s \in AdmittedOf(rq2, u, a, b) <=>
                            \/ s \in AdmittedOf(rq, u, a, b)
                            \/ s = r /\ u = v /\ t \in a..b /\ rq2[r].reply # "rate limited"
  BY <1>1, <1>2 DEF AdmittedOf, Comes, Others
<1>4. HeadersOf(rq2, u, a, b) = HeadersOf(rq, u, a, b)
  <2>1. \A h \in Request \X Nat : h \in HeadersOf(rq2, u, a, b) <=> h \in HeadersOf(rq, u, a, b)
    <3> TAKE h \in Request \X Nat
    <3>1. CASE h[1] = r
      <4>1. rq[h[1]].count = 0 /\ rq2[h[1]].count = 0 /\ h[2] \in Nat
        BY <3>1 DEF Comes
      <4> QED  BY <4>1 DEF HeadersOf
    <3>2. CASE h[1] # r
      BY <3>2 DEF Comes, Others, HeadersOf
    <3> QED  BY <3>1, <3>2
  <2> QED  BY <2>1 DEF HeadersOf
<1>5. SentOf(rq, u, a, b) \subseteq Request /\ SentOf(rq2, u, a, b) \subseteq Request
  BY DEF SentOf
<1>6. AdmittedOf(rq, u, a, b) \subseteq Request /\ AdmittedOf(rq2, u, a, b) \subseteq Request
  BY <1>5 DEF AdmittedOf
<1>7. /\ SentOf(rq, u, a, b) \subseteq SentOf(rq2, u, a, b)
      /\ u = v /\ t \in a..b => SentOf(rq2, u, a, b) = SentOf(rq, u, a, b) \cup {r}
      /\ u # v \/ t \notin a..b => SentOf(rq2, u, a, b) = SentOf(rq, u, a, b)
  BY <1>2, <1>5
<1>8. /\ u # v \/ t \notin a..b \/ Limited(rq2[r])
           => AdmittedOf(rq2, u, a, b) = AdmittedOf(rq, u, a, b)
      /\ AdmittedOf(rq2, u, a, b) \subseteq AdmittedOf(rq, u, a, b) \cup {r}
  BY <1>3, <1>6 DEF Limited
<1> QED  BY <1>1, <1>4, <1>7, <1>8

LEMMA ComesAdmits ==
  ASSUME NEW rq, NEW rq2, NEW r, NEW v, NEW t, r \in Request, Comes(rq, rq2, r, v, t),
         Sane(rq, t), Sane(rq2, t), NEW u, NEW a, NEW b
  PROVE  Cardinality(AdmittedOf(rq2, u, a, b)) <= Cardinality(AdmittedOf(rq, u, a, b)) + 1
<1> DEFINE A == AdmittedOf(rq, u, a, b)
           A2 == AdmittedOf(rq2, u, a, b)
<1>1. A2 \subseteq A \cup {r}
  BY ComesCounts
<1>2. IsFiniteSet(A) /\ Cardinality(A) \in Nat /\ Cardinality(A2) \in Nat
  BY AreFinite
<1> HIDE DEF A, A2
<1>3. /\ IsFiniteSet(A \cup {r}) /\ Cardinality(A \cup {r}) <= Cardinality(A) + 1
      /\ Cardinality(A \cup {r}) \in Nat
  <2>1. IsFiniteSet(A \cup {r})
    BY <1>2, FS_AddElement
  <2>2. Cardinality(A \cup {r}) = IF r \in A THEN Cardinality(A) ELSE Cardinality(A) + 1
    BY <1>2, FS_AddElement, Zenon
  <2> QED  BY <1>2, <2>1, <2>2
<1>4. Cardinality(A2) <= Cardinality(A \cup {r})
  BY <1>1, <1>3, Bigger
<1> QED  BY <1>2, <1>3, <1>4 DEF A, A2

(* A range of c headers of r is charged at time t.                         *)
Fetches(rq, rq2, r, c, t) ==
    /\ rq[r].pc = "reading" /\ rq[r].count = 0 /\ Others(rq, rq2, r)
    /\ rq2[r].pc = "fetching" /\ rq2[r].count = c /\ rq2[r].charged = t
    /\ rq2[r].at = rq[r].at /\ rq2[r].ip = rq[r].ip /\ rq2[r].reply = rq[r].reply

LEMMA FetchesCounts ==
  ASSUME NEW rq, NEW rq2, NEW r, NEW c, NEW t, r \in Request, c \in Nat,
         Fetches(rq, rq2, r, c, t), NEW u, NEW a, NEW b
  PROVE  /\ SentOf(rq2, u, a, b) = SentOf(rq, u, a, b)
         /\ AdmittedOf(rq2, u, a, b) = AdmittedOf(rq, u, a, b)
         /\ HeadersOf(rq2, u, a, b) \subseteq HeadersOf(rq, u, a, b) \cup ({r} \X (1..c))
         /\ u # rq[r].ip \/ t \notin a..b => HeadersOf(rq2, u, a, b) = HeadersOf(rq, u, a, b)
<1>1. \A s \in Request :
        /\ rq2[s].pc # "unsent" <=> rq[s].pc # "unsent"
        /\ rq2[s].at = rq[s].at /\ rq2[s].ip = rq[s].ip /\ rq2[s].reply = rq[s].reply
  BY DEF Fetches, Others
<1>2. SentOf(rq2, u, a, b) = SentOf(rq, u, a, b)
  BY <1>1 DEF SentOf
<1>3. AdmittedOf(rq2, u, a, b) = AdmittedOf(rq, u, a, b)
  BY <1>1, <1>2 DEF AdmittedOf, SentOf
<1>5. \A h \in Request \X Nat :
        h \in HeadersOf(rq2, u, a, b) <=>
          \/ h \in HeadersOf(rq, u, a, b)
          \/ u = rq[r].ip /\ t \in a..b /\ h \in {r} \X (1..c)
  <2> TAKE h \in Request \X Nat
  <2>1. CASE h[1] = r
    <3>1. h \notin HeadersOf(rq, u, a, b)
      BY <2>1 DEF Fetches, HeadersOf
    <3>2. h \in {r} \X (1..c) <=> h[2] \in 1..c
      BY <2>1
    <3> QED  BY <2>1, <3>1, <3>2 DEF Fetches, HeadersOf
  <2>2. CASE h[1] # r
    BY <2>2 DEF Fetches, Others, HeadersOf
  <2> QED  BY <2>1, <2>2
<1>6. HeadersOf(rq, u, a, b) \subseteq Request \X Nat /\ HeadersOf(rq2, u, a, b) \subseteq Request \X Nat
  BY DEF HeadersOf
<1>7. {r} \X (1..c) \subseteq Request \X Nat
  OBVIOUS
<1>8. /\ HeadersOf(rq2, u, a, b) \subseteq HeadersOf(rq, u, a, b) \cup ({r} \X (1..c))
      /\ u # rq[r].ip \/ t \notin a..b => HeadersOf(rq2, u, a, b) = HeadersOf(rq, u, a, b)
  BY <1>5, <1>6, <1>7
<1> QED  BY <1>2, <1>3, <1>8

(* Every other step of a request leaves them.                              *)
Proceeds(rq, rq2, r) ==
    /\ rq[r].pc # "unsent" /\ rq[r].reply # "rate limited" /\ Others(rq, rq2, r)
    /\ rq2[r].pc # "unsent" /\ rq2[r].reply # "rate limited"
    /\ rq2[r].at = rq[r].at /\ rq2[r].ip = rq[r].ip
    /\ rq2[r].count = rq[r].count /\ rq2[r].charged = rq[r].charged

LEMMA ProceedsCounts ==
  ASSUME NEW rq, NEW rq2, NEW r, r \in Request, Proceeds(rq, rq2, r), NEW u, NEW a, NEW b
  PROVE  /\ SentOf(rq2, u, a, b) = SentOf(rq, u, a, b)
         /\ AdmittedOf(rq2, u, a, b) = AdmittedOf(rq, u, a, b)
         /\ HeadersOf(rq2, u, a, b) = HeadersOf(rq, u, a, b)
<1>1. \A s \in Request :
        /\ rq2[s].pc # "unsent" <=> rq[s].pc # "unsent"
        /\ rq2[s].reply # "rate limited" <=> rq[s].reply # "rate limited"
        /\ rq2[s].at = rq[s].at /\ rq2[s].ip = rq[s].ip
        /\ rq2[s].count = rq[s].count /\ rq2[s].charged = rq[s].charged
  BY DEF Proceeds, Others
<1>2. SentOf(rq2, u, a, b) = SentOf(rq, u, a, b)
  BY <1>1 DEF SentOf
<1>3. AdmittedOf(rq2, u, a, b) = AdmittedOf(rq, u, a, b)
  BY <1>1, <1>2 DEF AdmittedOf, SentOf
<1>4. HeadersOf(rq2, u, a, b) = HeadersOf(rq, u, a, b)
  BY <1>1 DEF HeadersOf
<1> QED  BY <1>2, <1>3, <1>4

----------------------------------------------------------------------------
(* The invariant, kept by each kind of step.                               *)
LEMMA StaysSane ==
  ASSUME NEW rq, NEW rq2, NEW r, NEW t, r \in Request, Sane(rq, t), Others(rq, rq2, r),
         SaneRequest(rq2[r], t), rq2[r].count \in Nat
  PROVE  Sane(rq2, t)
<1> DEFINE some == {s \in Request : rq[s].pc # "unsent"}
           headers == {h \in Request \X Nat : h[2] \in 1..rq[h[1]].count}
           some2 == {s \in Request : rq2[s].pc # "unsent"}
           headers2 == {h \in Request \X Nat : h[2] \in 1..rq2[h[1]].count}
<1>1. IsFiniteSet(some) /\ IsFiniteSet(headers)
  BY DEF Sane
<1>2. IsFiniteSet(some2)
  <2>1. IsFiniteSet(some \cup {r})
    BY <1>1, FS_AddElement
  <2>2. some2 \subseteq some \cup {r}
    BY DEF Others
  <2> QED  BY <2>1, <2>2, FS_Subset
<1>3. IsFiniteSet(headers2)
  <2> DEFINE own == {r} \X (1..rq2[r].count)
  <2>0. 1 \in Int /\ rq2[r].count \in Int
    OBVIOUS
  <2>1. IsFiniteSet({r}) /\ IsFiniteSet(1..rq2[r].count)
    BY <2>0, FS_Singleton, FS_Interval, Zenon
  <2>2. IsFiniteSet(own)
    BY <2>1, FS_Product
  <2>3. headers2 \subseteq headers \cup own
    <3> SUFFICES ASSUME NEW h, h \in Request \X Nat, h[2] \in 1..rq2[h[1]].count
                 PROVE  h \in headers \/ h \in own
      OBVIOUS
    <3>1. h[1] # r => h \in headers
      BY DEF Others
    <3>2. h[1] = r => h \in own
      OBVIOUS
    <3> QED  BY <3>1, <3>2
  <2>4. IsFiniteSet(headers \cup own)
    BY <1>1, <2>2, FS_Union
  <2> HIDE DEF headers, headers2, own
  <2> QED  BY <2>3, <2>4, FS_Subset
<1>4. \A s \in Request : SaneRequest(rq2[s], t)
  BY DEF Others, Sane
<1> QED  BY <1>2, <1>3, <1>4 DEF Sane

(* The first request of a window.                                          *)
LEMMA WindowOpens ==
  ASSUME NEW rq, NEW rq2, NEW r, NEW v, NEW t, r \in Request, t \in Nat,
         Sane(rq, t), Sane(rq2, t),
         Comes(rq, rq2, r, v, t), rq2[r].reply = "none", Quiet(rq, v, t)
  PROVE  Counted(rq2, v, [start |-> t, n |-> 1, headers |-> 0], t)
<1> DEFINE w == t - RateMs
<1>0. RateMs \in Nat /\ RateMax \in Nat \ {0} /\ RangeBudget \in Nat
  BY GatewayConstants
<1>1. 1 <= Cardinality(SentOf(rq2, v, t, t))
  <2>1. r \in SentOf(rq2, v, t, t)
    BY DEF Comes, SentOf
  <2>2. Cardinality({r}) <= Cardinality(SentOf(rq2, v, t, t))
    BY <2>1, AreFinite, Bigger
  <2> QED  BY <2>2, FS_Singleton
<1>2. AdmittedOf(rq2, v, t + 1, t) = {} /\ HeadersOf(rq2, v, t + 1, t) = {}
  <2>1. t + 1 .. t = {}
    OBVIOUS
  <2>2. ASSUME NEW a, NEW b, a..b = {}
        PROVE  AdmittedOf(rq2, v, a, b) = {} /\ HeadersOf(rq2, v, a, b) = {}
    BY <2>2 DEF AdmittedOf, SentOf, HeadersOf
  <2> QED  BY <2>1, <2>2, Zenon
<1>a. Cardinality(AdmittedOf(rq, v, w, t)) <= RateMax /\ Cardinality(HeadersOf(rq, v, w, t)) <= RangeBudget
  BY DEF Quiet
<1> HIDE DEF w
<1>3. Cardinality(AdmittedOf(rq2, v, w, t)) <= RateMax + 1
  <2>1. Cardinality(AdmittedOf(rq2, v, w, t)) <= Cardinality(AdmittedOf(rq, v, w, t)) + 1
    BY ComesAdmits, Zenon
  <2>2. /\ Cardinality(AdmittedOf(rq, v, w, t)) \in Nat
        /\ Cardinality(AdmittedOf(rq2, v, w, t)) \in Nat
    BY AreFinite
  <2> QED  BY <1>0, <1>a, <2>1, <2>2
<1>4. Cardinality(HeadersOf(rq2, v, w, t)) <= RangeBudget
  <2>1. HeadersOf(rq2, v, w, t) = HeadersOf(rq, v, w, t)
    BY ComesCounts
  <2> QED  BY <1>a, <2>1
<1>5. Least(1, RateMax) = 1 /\ Least(0, RangeBudget) = 0
  BY <1>0 DEF Least
<1> DEFINE k == [start |-> t, n |-> 1, headers |-> 0]
<1>6. k.start = t /\ k.n = 1 /\ k.headers = 0
  OBVIOUS
<1>7. /\ Cardinality(AdmittedOf(rq2, v, t + 1, t)) <= 1
      /\ Cardinality(HeadersOf(rq2, v, t + 1, t)) <= 0
  BY <1>2, FS_EmptySet
<1> HIDE DEF k
<1>8. /\ k.start <= t
      /\ Cardinality(AdmittedOf(rq2, v, k.start - RateMs, t)) <= RateMax + Least(k.n, RateMax)
      /\ Cardinality(HeadersOf(rq2, v, k.start - RateMs, t))
            <= RangeBudget + Least(k.headers, RangeBudget)
  BY <1>0, <1>3, <1>4, <1>5, <1>6 DEF w
<1>9. Counted(rq2, v, k, t)
  BY <1>1, <1>5, <1>6, <1>7, <1>8 DEF Counted
<1> QED  BY <1>9 DEF k

(* One more request of a window, admitted while there is room.             *)
LEMMA WindowGoesOn ==
  ASSUME NEW rq, NEW rq2, NEW r, NEW v, NEW k, NEW k2, NEW t, r \in Request, t \in Nat,
         Sane(rq, t), Sane(rq2, t), k \in Buckets, Comes(rq, rq2, r, v, t),
         Limited(rq2[r]) <=> k.n + 1 > RateMax, Counted(rq, v, k, t),
         k2.start = k.start, k2.n = k.n + 1, k2.headers = k.headers
  PROVE  Counted(rq2, v, k2, t)
<1> DEFINE s == k.start
<1>0. RateMs \in Nat /\ RateMax \in Nat \ {0} /\ RangeBudget \in Nat
  BY GatewayConstants
<1>1. s \in Nat /\ k.n \in Nat /\ k.headers \in Nat /\ s <= t
  BY DEF Buckets, Counted
<1>2. k.n + 1 <= Cardinality(SentOf(rq2, v, s, t))
  <2>1. t \in s..t
    BY <1>1
  <2> HIDE DEF s
  <2>2. SentOf(rq2, v, s, t) = SentOf(rq, v, s, t) \cup {r} /\ r \notin SentOf(rq, v, s, t)
    BY <2>1, ComesCounts
  <2>3. IsFiniteSet(SentOf(rq, v, s, t)) /\ Cardinality(SentOf(rq, v, s, t)) \in Nat
    BY AreFinite
  <2>4. Cardinality(SentOf(rq2, v, s, t)) = Cardinality(SentOf(rq, v, s, t)) + 1
    BY <2>2, <2>3, FS_AddElement, ZenonT(40)
  <2>5. k.n <= Cardinality(SentOf(rq, v, s, t))
    BY DEF Counted, s
  <2> QED  BY <1>1, <2>3, <2>4, <2>5
<1>3. ASSUME NEW a, NEW n, n \in Nat,
             Cardinality(AdmittedOf(rq, v, a, t)) <= n + Least(k.n, RateMax)
      PROVE  Cardinality(AdmittedOf(rq2, v, a, t)) <= n + Least(k2.n, RateMax)
  <2>1. /\ Cardinality(AdmittedOf(rq, v, a, t)) \in Nat
        /\ Cardinality(AdmittedOf(rq2, v, a, t)) \in Nat
    BY AreFinite
  <2>2. CASE k.n + 1 > RateMax
    <3>1. AdmittedOf(rq2, v, a, t) = AdmittedOf(rq, v, a, t)
      BY <2>2, ComesCounts
    <3>2. Least(k.n, RateMax) <= Least(k2.n, RateMax)
      BY <1>0, <1>1 DEF Least
    <3>3. Least(k.n, RateMax) \in Nat /\ Least(k2.n, RateMax) \in Nat
      BY <1>0, <1>1 DEF Least
    <3> QED  BY <1>3, <2>1, <3>1, <3>2, <3>3
  <2>3. CASE k.n + 1 <= RateMax
    <3>1. Cardinality(AdmittedOf(rq2, v, a, t)) <= Cardinality(AdmittedOf(rq, v, a, t)) + 1
      BY ComesAdmits
    <3>2. Least(k.n, RateMax) = k.n /\ Least(k2.n, RateMax) = k.n + 1
      BY <1>0, <1>1, <2>3 DEF Least
    <3> QED  BY <1>1, <1>3, <2>1, <3>1, <3>2
  <2> QED  BY <1>0, <1>1, <2>2, <2>3
<1>4. Cardinality(AdmittedOf(rq2, v, s + 1, t)) <= Least(k2.n, RateMax)
  <2> DEFINE a == s + 1
  <2>1. Cardinality(AdmittedOf(rq, v, a, t)) <= Least(k.n, RateMax)
    BY DEF Counted
  <2>2. Least(k.n, RateMax) \in Nat /\ Least(k2.n, RateMax) \in Nat
    BY <1>0, <1>1 DEF Least
  <2> HIDE DEF a
  <2>3. Cardinality(AdmittedOf(rq2, v, a, t)) <= 0 + Least(k2.n, RateMax)
    BY <1>3, <2>1, <2>2
  <2> QED  BY <2>2, <2>3 DEF a
<1>5. Cardinality(AdmittedOf(rq2, v, s - RateMs, t)) <= RateMax + Least(k2.n, RateMax)
  <2> DEFINE a == s - RateMs
  <2>1. Cardinality(AdmittedOf(rq, v, a, t)) <= RateMax + Least(k.n, RateMax)
    BY DEF Counted
  <2> HIDE DEF a
  <2>2. Cardinality(AdmittedOf(rq2, v, a, t)) <= RateMax + Least(k2.n, RateMax)
    BY <1>0, <1>3, <2>1
  <2> QED  BY <2>2 DEF a
<1>6. \A a : HeadersOf(rq2, v, a, t) = HeadersOf(rq, v, a, t)
  BY ComesCounts
<1> QED
  <2>1. /\ Cardinality(HeadersOf(rq2, v, s + 1, t)) <= Least(k2.headers, RangeBudget)
        /\ Cardinality(HeadersOf(rq2, v, s - RateMs, t))
              <= RangeBudget + Least(k2.headers, RangeBudget)
    BY <1>6 DEF Counted
  <2> QED  BY <1>1, <1>2, <1>4, <1>5, <2>1 DEF Counted

(* Who is told "rate limited" has sent all that the window counts.         *)
LEMMA LimitedIsOver ==
  ASSUME NEW rq, NEW rq2, NEW r, NEW v, NEW t, r \in Request, t \in Nat,
         rq \in [Request -> Requests], rq2 \in [Request -> Requests],
         Sane(rq, t), Sane(rq2, t), Comes(rq, rq2, r, v, t), OverWhenLimited(rq),
         Limited(rq2[r]) =>
            \E k \in Buckets : /\ t - k.start <= RateMs /\ k.n > RateMax
                              /\ Counted(rq2, v, k, t)
  PROVE  OverWhenLimited(rq2)
<1> DEFINE Over(q, s) == Cardinality(SentOf(q, q[s].ip, q[s].at - RateMs, q[s].at)) > RateMax
<1>0. RateMs \in Nat /\ RateMax \in Nat
  BY GatewayConstants
<1> SUFFICES ASSUME NEW s \in Request, Limited(rq2[s])
             PROVE  Over(rq2, s)
  BY DEF OverWhenLimited, Limited
<1>1. CASE s = r
  <2>1. PICK k \in Buckets : /\ t - k.start <= RateMs /\ k.n > RateMax
                             /\ Counted(rq2, v, k, t)
    BY <1>1
  <2>2. k.start \in Int /\ k.n \in Nat /\ k.n <= Cardinality(SentOf(rq2, v, k.start, t))
    <3>1. k.n <= Cardinality(SentOf(rq2, v, k.start, t))
      BY <2>1, Zenon DEF Counted
    <3> QED  BY <3>1, BucketTypes
  <2>3. t - RateMs \in Int /\ t - RateMs <= k.start
    BY <1>0, <2>1, <2>2
  <2>4. Cardinality(SentOf(rq2, v, k.start, t)) <= Cardinality(SentOf(rq2, v, t - RateMs, t))
    BY <2>2, <2>3, LaterIsLess
  <2>5. Cardinality(SentOf(rq2, v, t - RateMs, t)) > RateMax
    BY <1>0, <2>1, <2>2, <2>4, AreFinite
  <2>6. rq2[s].ip = v /\ rq2[s].at = t
    BY <1>1 DEF Comes
  <2> QED  BY <2>5, <2>6
<1>2. CASE s # r
  <2>1. rq2[s] = rq[s]
    BY <1>2 DEF Comes, Others
  <2>2. Over(rq, s)
    BY <2>1 DEF OverWhenLimited, Limited
  <2> DEFINE S(q) == SentOf(q, rq[s].ip, rq[s].at - RateMs, rq[s].at)
  <2>3. S(rq) \subseteq S(rq2)
    BY ComesCounts
  <2>4. /\ Cardinality(S(rq)) <= Cardinality(S(rq2))
        /\ Cardinality(S(rq)) \in Nat /\ Cardinality(S(rq2)) \in Nat
    BY <2>3, AreFinite, Bigger
  <2> QED  BY <1>0, <2>1, <2>2, <2>4
<1> QED  BY <1>1, <1>2

(* A charge within the budget ...                                          *)
LEMMA BudgetCharged ==
  ASSUME NEW rq, NEW rq2, NEW r, NEW c, NEW k, NEW k2, NEW t, r \in Request, t \in Nat,
         c \in Nat, Sane(rq, t), Sane(rq2, t), k \in Buckets, Fetches(rq, rq2, r, c, t),
         Counted(rq, rq[r].ip, k, t), k.headers + c <= RangeBudget,
         k2.start = k.start, k2.n = k.n, k2.headers = k.headers + c
  PROVE  Counted(rq2, rq[r].ip, k2, t)
<1> DEFINE v == rq[r].ip
           s == k.start
<1>0. RateMs \in Nat /\ RangeBudget \in Nat
  BY GatewayConstants
<1>1. s \in Nat /\ k.headers \in Nat /\ s <= t
  BY BucketTypes DEF Counted
<1>2. \A a, b : /\ SentOf(rq2, v, a, b) = SentOf(rq, v, a, b)
               /\ AdmittedOf(rq2, v, a, b) = AdmittedOf(rq, v, a, b)
  BY FetchesCounts
<1>3. ASSUME NEW a
      PROVE  Cardinality(HeadersOf(rq2, v, a, t)) <= Cardinality(HeadersOf(rq, v, a, t)) + c
  <2> DEFINE own == {r} \X (1..c)
             H == HeadersOf(rq, v, a, t)
             H2 == HeadersOf(rq2, v, a, t)
  <2>1. IsFiniteSet({r}) /\ Cardinality({r}) = 1
    BY FS_Singleton
  <2>2. IsFiniteSet(1..c) /\ Cardinality(1..c) = c
    BY FS_Interval
  <2>3. IsFiniteSet(own) /\ Cardinality(own) = c
    BY <2>1, <2>2, FS_Product
  <2>4. H2 \subseteq H \cup own
    BY FetchesCounts
  <2>5. /\ IsFiniteSet(H) /\ Cardinality(H) \in Nat /\ Cardinality(H2) \in Nat
    BY AreFinite
  <2> HIDE DEF H, H2, own
  <2>6. /\ IsFiniteSet(H \cup own)
        /\ Cardinality(H \cup own) = Cardinality(H) + Cardinality(own) - Cardinality(H \cap own)
    BY <2>3, <2>5, FS_Union
  <2>7. Cardinality(H \cap own) \in Nat
    BY <2>5, FS_Intersection, FS_CardinalityType
  <2>8. Cardinality(H2) <= Cardinality(H \cup own)
    BY <2>4, <2>6, Bigger
  <2> QED  BY <2>3, <2>5, <2>6, <2>7, <2>8 DEF H, H2
<1>4. Least(k.headers, RangeBudget) = k.headers /\ Least(k2.headers, RangeBudget) = k.headers + c
  BY <1>0, <1>1 DEF Least
<1>5. ASSUME NEW a, NEW n, n \in Nat,
             Cardinality(HeadersOf(rq, v, a, t)) <= n + Least(k.headers, RangeBudget)
      PROVE  Cardinality(HeadersOf(rq2, v, a, t)) <= n + Least(k2.headers, RangeBudget)
  <2>1. /\ Cardinality(HeadersOf(rq, v, a, t)) \in Nat
        /\ Cardinality(HeadersOf(rq2, v, a, t)) \in Nat
    BY AreFinite
  <2>2. Cardinality(HeadersOf(rq2, v, a, t)) <= Cardinality(HeadersOf(rq, v, a, t)) + c
    BY <1>3
  <2> QED  BY <1>1, <1>4, <1>5, <2>1, <2>2
<1>6. Cardinality(HeadersOf(rq2, v, s + 1, t)) <= Least(k2.headers, RangeBudget)
  <2> DEFINE a == s + 1
  <2>1. Cardinality(HeadersOf(rq, v, a, t)) <= Least(k.headers, RangeBudget)
    BY DEF Counted
  <2>2. Least(k.headers, RangeBudget) \in Nat /\ Least(k2.headers, RangeBudget) \in Nat
    BY <1>1, <1>4
  <2> HIDE DEF a
  <2>3. Cardinality(HeadersOf(rq2, v, a, t)) <= 0 + Least(k2.headers, RangeBudget)
    BY <1>5, <2>1, <2>2
  <2> QED  BY <2>2, <2>3 DEF a
<1>7. Cardinality(HeadersOf(rq2, v, s - RateMs, t)) <= RangeBudget + Least(k2.headers, RangeBudget)
  <2> DEFINE a == s - RateMs
  <2>1. Cardinality(HeadersOf(rq, v, a, t)) <= RangeBudget + Least(k.headers, RangeBudget)
    BY DEF Counted
  <2> HIDE DEF a
  <2>2. Cardinality(HeadersOf(rq2, v, a, t)) <= RangeBudget + Least(k2.headers, RangeBudget)
    BY <1>0, <1>5, <2>1
  <2> QED  BY <2>2 DEF a
<1> QED  BY <1>1, <1>2, <1>6, <1>7 DEF Counted

(* ... and one it refuses, which counts no headers.                        *)
LEMMA BudgetRefused ==
  ASSUME NEW rq, NEW v, NEW c, NEW k, NEW k2, NEW t, c \in Nat, k \in Buckets,
         Sane(rq, t), Counted(rq, v, k, t),
         k2.start = k.start, k2.n = k.n, k2.headers = k.headers + c
  PROVE  Counted(rq, v, k2, t)
<1>0. RangeBudget \in Nat /\ k.headers \in Nat
  BY GatewayConstants, BucketTypes
<1>1. /\ Least(k.headers, RangeBudget) <= Least(k2.headers, RangeBudget)
      /\ Least(k.headers, RangeBudget) \in Nat /\ Least(k2.headers, RangeBudget) \in Nat
  BY <1>0 DEF Least
<1>2. \A a : Cardinality(HeadersOf(rq, v, a, t)) \in Nat
  BY AreFinite
<1>3. /\ Cardinality(HeadersOf(rq, v, k2.start + 1, t)) <= Least(k2.headers, RangeBudget)
      /\ Cardinality(HeadersOf(rq, v, k2.start - RateMs, t))
            <= RangeBudget + Least(k2.headers, RangeBudget)
  BY <1>0, <1>1, <1>2 DEF Counted
<1> QED  BY <1>3 DEF Counted

(* Time goes by.                                                           *)
LEMMA SaneLater ==
  ASSUME NEW rq, NEW t, rq \in [Request -> Requests], t \in Nat, Sane(rq, t)
  PROVE  Sane(rq, t + 1)
<1>1. \A r \in Request : rq[r].at <= t + 1 /\ rq[r].charged <= t + 1
  BY RequestTypes DEF Sane, SaneRequest
<1> QED  BY <1>1 DEF Sane, SaneRequest

LEMMA TimeGoesBy ==
  ASSUME NEW rq, NEW v, NEW k, NEW t, rq \in [Request -> Requests], t \in Nat, Sane(rq, t),
         k \in Buckets \cup {NoBucket}, BucketHolds(rq, v, k, t)
  PROVE  BucketHolds(rq, v, k, t + 1)
<1>0. RateMs \in Nat /\ RateMax \in Nat /\ RangeBudget \in Nat /\ NoBucket \notin Buckets
  BY GatewayConstants
<1>1. CASE k = NoBucket
  <2>1. t + 1 - RateMs \in Int /\ t - RateMs \in Int /\ t - RateMs <= t + 1 - RateMs
        /\ t + 1 \in Int
    BY <1>0
  <2>2. /\ Cardinality(AdmittedOf(rq, v, t + 1 - RateMs, t + 1))
              <= Cardinality(AdmittedOf(rq, v, t - RateMs, t))
        /\ Cardinality(HeadersOf(rq, v, t + 1 - RateMs, t + 1))
              <= Cardinality(HeadersOf(rq, v, t - RateMs, t))
    BY <2>1, LaterIsLess
  <2>3. \A a, b : /\ Cardinality(AdmittedOf(rq, v, a, b)) \in Nat
                 /\ Cardinality(HeadersOf(rq, v, a, b)) \in Nat
    BY AreFinite
  <2>4. Quiet(rq, v, t)
    BY <1>1 DEF BucketHolds
  <2>5. Quiet(rq, v, t + 1)
    BY <1>0, <2>2, <2>3, <2>4 DEF Quiet
  <2> QED  BY <1>1, <2>5 DEF BucketHolds
<1>2. CASE k \in Buckets
  <2>1. Counted(rq, v, k, t) /\ k # NoBucket
    BY <1>0, <1>2 DEF BucketHolds
  <2>2. k.start \in Nat /\ k.n \in Nat /\ k.headers \in Nat
    BY <1>2, BucketTypes
  <2>3. Sane(rq, t + 1)
    BY SaneLater
  <2>4. ASSUME NEW a, a \in Int
        PROVE  /\ Cardinality(SentOf(rq, v, a, t)) <= Cardinality(SentOf(rq, v, a, t + 1))
               /\ Cardinality(AdmittedOf(rq, v, a, t + 1)) <= Cardinality(AdmittedOf(rq, v, a, t))
               /\ Cardinality(HeadersOf(rq, v, a, t + 1)) <= Cardinality(HeadersOf(rq, v, a, t))
    BY <2>3, <2>4, LaterIsLess
  <2>5. \A a, b : /\ Cardinality(SentOf(rq, v, a, b)) \in Nat
                 /\ Cardinality(AdmittedOf(rq, v, a, b)) \in Nat
                 /\ Cardinality(HeadersOf(rq, v, a, b)) \in Nat
    BY AreFinite
  <2>6. Least(k.n, RateMax) \in Nat /\ Least(k.headers, RangeBudget) \in Nat
    BY <1>0, <2>2 DEF Least
  <2>7. k.start <= t /\ k.n <= Cardinality(SentOf(rq, v, k.start, t))
    BY <2>1 DEF Counted
  <2>8. k.start <= t + 1 /\ k.n <= Cardinality(SentOf(rq, v, k.start, t + 1))
    <3> DEFINE n == k.n
               was == Cardinality(SentOf(rq, v, k.start, t))
               is == Cardinality(SentOf(rq, v, k.start, t + 1))
    <3>1. k.start \in Int /\ k.start <= t + 1
      BY <2>2, <2>7
    <3>2. was <= is
      BY <2>4, <3>1
    <3>3. n \in Nat /\ was \in Nat /\ is \in Nat /\ n <= was
      BY <2>2, <2>5, <2>7
    <3> HIDE DEF n, was, is
    <3>4. n <= is
      BY <3>2, <3>3
    <3> QED
      BY <3>1, <3>4 DEF n, is
  <2>9. k.start + 1 \in Int /\ k.start - RateMs \in Int
    BY <1>0, <2>2
  <2> DEFINE nn == Least(k.n, RateMax)
             hh == Least(k.headers, RangeBudget)
             later == k.start + 1
             before == k.start - RateMs
  <2>10. /\ Cardinality(AdmittedOf(rq, v, later, t)) <= nn
         /\ Cardinality(AdmittedOf(rq, v, before, t)) <= RateMax + nn
         /\ Cardinality(HeadersOf(rq, v, later, t)) <= hh
         /\ Cardinality(HeadersOf(rq, v, before, t)) <= RangeBudget + hh
    BY <2>1 DEF Counted
  <2>11. later \in Int /\ before \in Int /\ nn \in Nat /\ hh \in Nat
    BY <2>6, <2>9
  <2> HIDE DEF nn, hh, later, before
  <2>12. /\ Cardinality(AdmittedOf(rq, v, later, t + 1)) <= nn
         /\ Cardinality(AdmittedOf(rq, v, before, t + 1)) <= RateMax + nn
         /\ Cardinality(HeadersOf(rq, v, later, t + 1)) <= hh
         /\ Cardinality(HeadersOf(rq, v, before, t + 1)) <= RangeBudget + hh
    <3>1. ASSUME NEW x \in Nat, NEW y \in Nat, NEW z \in Nat, x <= y, y <= z
          PROVE  x <= z
      BY <3>1
    <3>2. RateMax + nn \in Nat /\ RangeBudget + hh \in Nat
      BY <1>0, <2>11
    <3>3. /\ Cardinality(AdmittedOf(rq, v, later, t + 1)) <= Cardinality(AdmittedOf(rq, v, later, t))
          /\ Cardinality(AdmittedOf(rq, v, before, t + 1)) <= Cardinality(AdmittedOf(rq, v, before, t))
          /\ Cardinality(HeadersOf(rq, v, later, t + 1)) <= Cardinality(HeadersOf(rq, v, later, t))
          /\ Cardinality(HeadersOf(rq, v, before, t + 1)) <= Cardinality(HeadersOf(rq, v, before, t))
      BY <2>4, <2>11
    <3>4. /\ Cardinality(AdmittedOf(rq, v, later, t + 1)) <= nn
          /\ Cardinality(AdmittedOf(rq, v, before, t + 1)) <= RateMax + nn
      BY <2>5, <2>10, <2>11, <3>1, <3>2, <3>3
    <3>5. /\ Cardinality(HeadersOf(rq, v, later, t + 1)) <= hh
          /\ Cardinality(HeadersOf(rq, v, before, t + 1)) <= RangeBudget + hh
      BY <2>5, <2>10, <2>11, <3>1, <3>2, <3>3
    <3> QED
      BY <3>4, <3>5
  <2>13. Counted(rq, v, k, t + 1)
    BY <2>8, <2>12 DEF Counted, nn, hh, later, before
  <2> QED  BY <2>1, <2>13 DEF BucketHolds
<1> QED  BY <1>1, <1>2

----------------------------------------------------------------------------
(* The same, of all that is known of a visitor.                            *)
VisitorHolds(rq, v, k, t) == BucketHolds(rq, v, k, t) /\ WithinTwo(rq, v)

(* Nothing of v has changed.                                               *)
SameSets(rq, rq2, v) ==
    \A a, b : /\ SentOf(rq2, v, a, b) = SentOf(rq, v, a, b)
             /\ AdmittedOf(rq2, v, a, b) = AdmittedOf(rq, v, a, b)
             /\ HeadersOf(rq2, v, a, b) = HeadersOf(rq, v, a, b)

LEMMA SameSetsHold ==
  ASSUME NEW rq, NEW rq2, NEW v, NEW k, NEW t, SameSets(rq, rq2, v), VisitorHolds(rq, v, k, t)
  PROVE  VisitorHolds(rq2, v, k, t)
<1>1. Quiet(rq, v, t) => Quiet(rq2, v, t)
  BY Zenon DEF Quiet, SameSets
<1>2. Counted(rq, v, k, t) => Counted(rq2, v, k, t)
  BY Zenon DEF Counted, SameSets
<1>3. WithinTwo(rq2, v)
  BY Zenon DEF WithinTwo, SameSets, VisitorHolds
<1> QED  BY <1>1, <1>2, <1>3, Zenon DEF VisitorHolds, BucketHolds

(* All that has changed of v is of time t.                                 *)
LEMMA WithinTwoHolds ==
  ASSUME NEW rq, NEW rq2, NEW v, NEW k, NEW t, rq2 \in [Request -> Requests], t \in Nat,
         Sane(rq2, t), k \in Buckets, Counted(rq2, v, k, t), WithinTwo(rq, v),
         \A a, b : t \notin a..b => /\ AdmittedOf(rq2, v, a, b) = AdmittedOf(rq, v, a, b)
                                  /\ HeadersOf(rq2, v, a, b) = HeadersOf(rq, v, a, b)
  PROVE  WithinTwo(rq2, v)
<1> SUFFICES ASSUME NEW a, a \in Nat
             PROVE  /\ Cardinality(AdmittedOf(rq2, v, a, a + RateMs)) <= 2 * RateMax
                    /\ Cardinality(HeadersOf(rq2, v, a, a + RateMs)) <= 2 * RangeBudget
  BY DEF WithinTwo
<1>1. CASE t <= a + RateMs
  BY <1>1, LastWindows
<1>2. CASE ~(t <= a + RateMs)
  <2>1. t \notin a .. a + RateMs
    BY <1>2
  <2>2. /\ AdmittedOf(rq2, v, a, a + RateMs) = AdmittedOf(rq, v, a, a + RateMs)
        /\ HeadersOf(rq2, v, a, a + RateMs) = HeadersOf(rq, v, a, a + RateMs)
    BY <2>1, Zenon
  <2> QED  BY <2>2 DEF WithinTwo
<1> QED  BY <1>1, <1>2

----------------------------------------------------------------------------
(* The inductive invariant.                                                *)
GatewayInv ==
    /\ TypeOK /\ Sane(req, now) /\ OverWhenLimited(req)
    /\ \A v \in Visitor : VisitorHolds(req, v, buckets[v], now)

LEMMA TypesOfState ==
  ASSUME TypeOK
  PROVE  /\ now \in Nat /\ swept \in Nat
         /\ req \in [Request -> Requests]
         /\ \A v \in Visitor : buckets[v] \in Buckets \cup {NoBucket}
         /\ \A v \in Visitor : buckets[v] # NoBucket => buckets[v] \in Buckets
BY GatewayConstants DEF TypeOK

LEMMA InitHolds == Init => GatewayInv
<1> SUFFICES ASSUME Init  PROVE GatewayInv
  OBVIOUS
<1>1. \A r \in Request : req[r] = Unsent
  BY DEF Init
<1>2. /\ Unsent.pc = "unsent" /\ Unsent.at = 0 /\ Unsent.count = 0
      /\ Unsent.charged = 0 /\ Unsent.reply = "none"
  BY DEF Unsent
<1>3. \A v, a, b : /\ SentOf(req, v, a, b) = {} /\ AdmittedOf(req, v, a, b) = {}
                  /\ HeadersOf(req, v, a, b) = {}
  <2>1. \A v, a, b : SentOf(req, v, a, b) = {}
    BY <1>1, <1>2 DEF SentOf
  <2>2. \A h \in Request \X Nat : h[2] \notin 1..req[h[1]].count
    BY <1>1, <1>2
  <2> QED  BY <2>1, <2>2 DEF AdmittedOf, HeadersOf
<1>4. TypeOK
  <2>1. Unsent \in Requests
    BY DEF Unsent, Requests
  <2>2. req \in [Request -> Requests]
    BY <2>1 DEF Init
  <2> QED  BY <2>2, GatewayConstants DEF Init, TypeOK
<1>5. Sane(req, now)
  <2>1. {r \in Request : req[r].pc # "unsent"} = {}
    BY <1>1, <1>2
  <2>2. {h \in Request \X Nat : h[2] \in 1..req[h[1]].count} = {}
    BY <1>1, <1>2
  <2>3. now = 0
    BY DEF Init
  <2>4. SaneRequest(Unsent, now)
    BY <1>2, <2>3 DEF SaneRequest
  <2> QED  BY <1>1, <2>1, <2>2, <2>4, FS_EmptySet, Zenon DEF Sane
<1>6. OverWhenLimited(req)
  BY <1>1, <1>2 DEF OverWhenLimited
<1>7. ASSUME NEW v \in Visitor  PROVE VisitorHolds(req, v, buckets[v], now)
  <2>1. buckets[v] = NoBucket
    BY DEF Init
  <2>2. Cardinality({}) = 0 /\ 0 <= RateMax /\ 0 <= RangeBudget
        /\ 0 <= 2 * RateMax /\ 0 <= 2 * RangeBudget
    BY FS_EmptySet, GatewayConstants
  <2>3. Quiet(req, v, now) /\ WithinTwo(req, v)
    BY <1>3, <2>2, Zenon DEF Quiet, WithinTwo
  <2> QED  BY <2>1, <2>3 DEF VisitorHolds, BucketHolds
<1> QED  BY <1>4, <1>5, <1>6, <1>7 DEF GatewayInv

(* A request comes in.                                                     *)
LEMMA ArrivesHolds ==
  ASSUME GatewayInv, NEW r \in Request, NEW v \in Visitor, Arrives(r, v)
  PROVE  GatewayInv'
<1> DEFINE b == RateLimited(v)
           k == buckets[v]
           fresh == k = NoBucket \/ Expired(k)
<1>0. RateMax \in Nat \ {0} /\ RateMs \in Nat /\ NoBucket \notin Buckets
  BY GatewayConstants
<1>1. /\ now \in Nat /\ req \in [Request -> Requests] /\ k \in Buckets \cup {NoBucket}
      /\ TypeOK /\ Sane(req, now) /\ OverWhenLimited(req)
      /\ BucketHolds(req, v, k, now) /\ WithinTwo(req, v)
  BY TypesOfState DEF GatewayInv, VisitorHolds
<1>2. ~fresh => k \in Buckets /\ Counted(req, v, k, now)
  BY <1>1 DEF BucketHolds
<1>3. fresh => b = [start |-> now, n |-> 1, headers |-> 0]
  BY DEF RateLimited, NewBucket
<1>4. ~fresh => b.start = k.start /\ b.n = k.n + 1 /\ b.headers = k.headers
  BY <1>2 DEF RateLimited, Buckets
<1>5. b \in Buckets
  <2>1. CASE fresh
    BY <1>1, <1>3, <2>1 DEF Buckets
  <2>2. CASE ~fresh
    BY <1>2, <2>2 DEF RateLimited, Buckets
  <2> QED  BY <2>1, <2>2
<1>6. /\ req[r].pc = "unsent" /\ now' = now /\ swept' = swept /\ up' = up
      /\ buckets' = [buckets EXCEPT ![v] = b]
  BY DEF Arrives
<1> DEFINE q == [Unsent EXCEPT !.at = now, !.ip = v,
                   !.pc = IF b.n > RateMax THEN "done" ELSE "reading",
                   !.reply = IF b.n > RateMax THEN "rate limited" ELSE "none"]
<1>7. req' = [req EXCEPT ![r] = q]
  BY DEF Arrives
<1>8. /\ q.at = now /\ q.ip = v /\ q.count = 0 /\ q.charged = 0
      /\ q.pc = IF b.n > RateMax THEN "done" ELSE "reading"
      /\ q.reply = IF b.n > RateMax THEN "rate limited" ELSE "none"
  BY DEF Unsent
<1>9. q \in Requests
  BY <1>1 DEF Unsent, Requests
<1>10. /\ Limited(q) <=> b.n > RateMax
       /\ ~Limited(q) => q.reply = "none"
  BY <1>8 DEF Limited
<1> HIDE DEF q, b, fresh
<1>11. req' \in [Request -> Requests] /\ req'[r] = q /\ Others(req, req', r)
  BY <1>1, <1>7, <1>9 DEF Others
<1>12. Comes(req, req', r, v, now)
  <2>1. req[r].count = 0
    BY <1>1, <1>6 DEF Sane, SaneRequest
  <2> QED  BY <1>6, <1>8, <1>11, <2>1 DEF Comes
<1>13. Sane(req', now)
  <2>1. q.at <= now /\ q.charged <= now /\ q.ip \in Visitor /\ q.count \in Nat
    <3>1. q.at = now /\ q.ip = v /\ q.count = 0 /\ q.charged = 0
      BY <1>8
    <3> QED  BY <1>1, <3>1
  <2>2. /\ q.pc \in {"unsent", "reading"} => q.count = 0
        /\ q.pc \in {"unsent", "reading", "forwarded", "fetching"} => q.reply = "none"
    BY <1>8
  <2>3. SaneRequest(q, now)
    BY <2>1, <2>2 DEF SaneRequest
  <2> QED  BY <1>1, <1>11, <2>1, <2>3, StaysSane
<1>14. Counted(req', v, b, now)
  <2>1. CASE fresh
    <3>1. Quiet(req, v, now)
      BY <1>1, <2>1, ExpiredIsQuiet DEF fresh, Expired, BucketHolds
    <3>2. ~Limited(q)
      BY <1>0, <1>3, <1>10, <2>1
    <3>3. req'[r].reply = "none"
      BY <1>10, <1>11, <3>2
    <3> QED  BY <1>1, <1>3, <1>12, <1>13, <2>1, <3>1, <3>3, WindowOpens
  <2>2. CASE ~fresh
    <3>1. Limited(req'[r]) <=> k.n + 1 > RateMax
      BY <1>4, <1>10, <1>11, <2>2
    <3> HIDE DEF k
    <3> QED  BY <1>1, <1>2, <1>4, <1>12, <1>13, <2>2, <3>1, WindowGoesOn
  <2> QED  BY <2>1, <2>2
<1>15. WithinTwo(req', v)
  <2>1. \A x, y : now \notin x..y => /\ AdmittedOf(req', v, x, y) = AdmittedOf(req, v, x, y)
                                   /\ HeadersOf(req', v, x, y) = HeadersOf(req, v, x, y)
    BY <1>12, ComesCounts
  <2> QED  BY <1>1, <1>5, <1>11, <1>13, <1>14, <2>1, WithinTwoHolds
<1>16. OverWhenLimited(req')
  <2>1. Limited(req'[r]) => /\ b \in Buckets /\ now - b.start <= RateMs /\ b.n > RateMax
                            /\ Counted(req', v, b, now)
    <3>1. Limited(req'[r]) => b.n > RateMax
      BY <1>10, <1>11
    <3>2. b.n > RateMax => ~fresh
      BY <1>0, <1>3
    <3>3. ~fresh => now - b.start <= RateMs
      BY <1>0, <1>1, <1>2, <1>4, BucketTypes DEF fresh, Expired
    <3> QED  BY <1>5, <1>14, <3>1, <3>2, <3>3
  <2> QED  BY <1>1, <1>11, <1>12, <1>13, <2>1, LimitedIsOver
<1>17. ASSUME NEW u \in Visitor  PROVE VisitorHolds(req', u, buckets'[u], now)
  <2>1. CASE u = v
    <3>1. buckets'[u] = b
      BY <1>1, <1>6, <2>1 DEF TypeOK
    <3> QED  BY <1>0, <1>5, <1>14, <1>15, <2>1, <3>1 DEF VisitorHolds, BucketHolds
  <2>2. CASE u # v
    <3>1. SameSets(req, req', u)
      BY <1>12, <2>2, ComesCounts DEF SameSets
    <3>2. buckets'[u] = buckets[u]
      BY <1>1, <1>6, <2>2 DEF TypeOK
    <3>3. VisitorHolds(req, u, buckets[u], now)
      BY DEF GatewayInv
    <3> QED  BY <3>1, <3>2, <3>3, SameSetsHold
  <2> QED  BY <2>1, <2>2
<1>18. TypeOK'
  BY <1>1, <1>5, <1>6, <1>11 DEF TypeOK
<1> QED  BY <1>6, <1>13, <1>16, <1>17, <1>18 DEF GatewayInv

(* Nothing that was refused, sent or charged has changed.                  *)
LEMMA OverHolds ==
  ASSUME NEW rq, NEW rq2, OverWhenLimited(rq),
         \A s \in Request : Limited(rq2[s]) => /\ Limited(rq[s]) /\ rq2[s].ip = rq[s].ip
                                             /\ rq2[s].at = rq[s].at,
         \A u, a, b : SentOf(rq2, u, a, b) = SentOf(rq, u, a, b)
  PROVE  OverWhenLimited(rq2)
<1> SUFFICES ASSUME NEW s \in Request, Limited(rq2[s])
             PROVE  Cardinality(SentOf(rq2, rq2[s].ip, rq2[s].at - RateMs, rq2[s].at)) > RateMax
  BY DEF OverWhenLimited, Limited
<1>1. Limited(rq[s]) /\ rq2[s].ip = rq[s].ip /\ rq2[s].at = rq[s].at
  OBVIOUS
<1>2. Cardinality(SentOf(rq, rq[s].ip, rq[s].at - RateMs, rq[s].at)) > RateMax
  BY <1>1 DEF OverWhenLimited, Limited
<1>3. SentOf(rq2, rq2[s].ip, rq2[s].at - RateMs, rq2[s].at)
        = SentOf(rq, rq[s].ip, rq[s].at - RateMs, rq[s].at)
  <2>1. SentOf(rq2, rq2[s].ip, rq2[s].at - RateMs, rq2[s].at)
          = SentOf(rq, rq2[s].ip, rq2[s].at - RateMs, rq2[s].at)
    BY Zenon
  <2> QED  BY <1>1, <2>1, Zenon
<1> QED  BY <1>2, <1>3

LEMMA ProceedsOver ==
  ASSUME NEW rq, NEW rq2, NEW r, r \in Request, Proceeds(rq, rq2, r), OverWhenLimited(rq)
  PROVE  OverWhenLimited(rq2)
<1>1. ASSUME NEW s \in Request, Limited(rq2[s])
      PROVE  Limited(rq[s]) /\ rq2[s].ip = rq[s].ip /\ rq2[s].at = rq[s].at
  BY <1>1 DEF Proceeds, Others, Limited
<1>2. \A u, a, b : SentOf(rq2, u, a, b) = SentOf(rq, u, a, b)
  BY ProceedsCounts
<1> QED  BY <1>1, <1>2, OverHolds, Zenon

(* A request is decided, forwarded or settled.                             *)
LEMMA ProceedsHolds ==
  ASSUME GatewayInv, NEW r \in Request, NEW q, q \in Requests, req' = [req EXCEPT ![r] = q],
         Proceeds(req, req', r), SaneRequest(q, now), UNCHANGED <<now, swept, buckets>>,
         up' \in BOOLEAN
  PROVE  GatewayInv'
<1>1. /\ now \in Nat /\ req \in [Request -> Requests] /\ TypeOK /\ Sane(req, now)
      /\ OverWhenLimited(req)
  BY TypesOfState DEF GatewayInv
<1>2. req' \in [Request -> Requests] /\ req'[r] = q
  BY <1>1
<1>3. q.count \in Nat
  BY <1>2, RequestTypes
<1>4. Sane(req', now)
  BY <1>1, <1>2, <1>3, StaysSane DEF Proceeds
<1>5. \A u, a, b : /\ SentOf(req', u, a, b) = SentOf(req, u, a, b)
                  /\ AdmittedOf(req', u, a, b) = AdmittedOf(req, u, a, b)
                  /\ HeadersOf(req', u, a, b) = HeadersOf(req, u, a, b)
  BY ProceedsCounts
<1>6. OverWhenLimited(req')
  BY <1>1, ProceedsOver
<1>7. ASSUME NEW v \in Visitor  PROVE VisitorHolds(req', v, buckets'[v], now)
  <2>1. SameSets(req, req', v)
    BY <1>5 DEF SameSets
  <2> QED  BY <2>1, SameSetsHold DEF GatewayInv
<1>8. TypeOK'
  BY <1>1, <1>2 DEF TypeOK
<1> QED  BY <1>4, <1>6, <1>7, <1>8 DEF GatewayInv

(* Of a request that is not through, the fields.                           *)
LEMMA Waiting ==
  ASSUME GatewayInv, NEW r \in Request, req[r].pc \in {"reading", "forwarded", "fetching"}
  PROVE  /\ req[r] \in Requests /\ SaneRequest(req[r], now) /\ req[r].reply = "none"
         /\ req[r].ip \in Visitor
         /\ req[r].pc = "reading" => req[r].count = 0
BY TypesOfState DEF GatewayInv, Sane, SaneRequest

LEMMA ReplyHolds ==
  ASSUME GatewayInv, NEW r \in Request, req[r].pc \in {"reading", "forwarded", "fetching"},
         NEW reply \in {"none", "over budget", "answered"}, req' = Reply(r, reply),
         UNCHANGED <<now, swept, buckets, up>>
  PROVE  GatewayInv'
<1> DEFINE q == [req[r] EXCEPT !.pc = "done", !.reply = reply]
<1>1. /\ req[r] \in Requests /\ SaneRequest(req[r], now) /\ req[r].reply = "none"
      /\ req \in [Request -> Requests] /\ up \in BOOLEAN
  BY Waiting, TypesOfState DEF GatewayInv, TypeOK
<1>2. req' = [req EXCEPT ![r] = q]
  BY <1>1 DEF Reply
<1>3. /\ q.pc = "done" /\ q.reply = reply /\ q.at = req[r].at /\ q.ip = req[r].ip
      /\ q.count = req[r].count /\ q.charged = req[r].charged
  BY <1>1 DEF Requests
<1>4. q \in Requests
  BY <1>1 DEF Requests
<1> HIDE DEF q
<1>5. SaneRequest(q, now)
  BY <1>1, <1>3 DEF SaneRequest
<1>6. req'[r] = q /\ Others(req, req', r)
  BY <1>1, <1>2 DEF Others
<1>7. Proceeds(req, req', r)
  BY <1>1, <1>3, <1>6 DEF Proceeds
<1> QED  BY <1>1, <1>2, <1>4, <1>5, <1>7, ProceedsHolds

LEMMA BodyEndsHolds ==
  ASSUME GatewayInv, NEW r \in Request, BodyEnds(r)  PROVE GatewayInv'
BY ReplyHolds DEF BodyEnds

LEMMA SettlesHolds ==
  ASSUME GatewayInv, NEW r \in Request, Settles(r)  PROVE GatewayInv'
BY ReplyHolds DEF Settles

LEMMA ForwardedHolds ==
  ASSUME GatewayInv, NEW r \in Request, Forwarded(r)  PROVE GatewayInv'
<1> DEFINE q == [req[r] EXCEPT !.pc = "forwarded"]
<1>1. /\ req[r] \in Requests /\ SaneRequest(req[r], now) /\ req[r].reply = "none"
      /\ req \in [Request -> Requests] /\ up \in BOOLEAN /\ req[r].pc = "reading"
  BY Waiting, TypesOfState DEF GatewayInv, TypeOK, Forwarded
<1>2. req' = [req EXCEPT ![r] = q] /\ UNCHANGED <<now, swept, buckets, up>>
  BY <1>1 DEF Forwarded
<1>3. /\ q.pc = "forwarded" /\ q.reply = "none" /\ q.at = req[r].at /\ q.ip = req[r].ip
      /\ q.count = req[r].count /\ q.charged = req[r].charged
  BY <1>1 DEF Requests
<1>4. q \in Requests
  BY <1>1 DEF Requests
<1> HIDE DEF q
<1>5. SaneRequest(q, now)
  BY <1>1, <1>3 DEF SaneRequest
<1>6. req'[r] = q /\ Others(req, req', r)
  BY <1>1, <1>2 DEF Others
<1>7. Proceeds(req, req', r)
  BY <1>1, <1>3, <1>6 DEF Proceeds
<1> QED  BY <1>1, <1>2, <1>4, <1>5, <1>7, ProceedsHolds

LEMMA RangeThrowsHolds ==
  ASSUME GatewayInv, NEW r \in Request, RangeThrows(r)  PROVE GatewayInv'
<1> DEFINE q == [req[r] EXCEPT !.pc = "thrown"]
<1>1. /\ req[r] \in Requests /\ SaneRequest(req[r], now) /\ req[r].reply = "none"
      /\ req \in [Request -> Requests] /\ req[r].pc = "reading"
  BY Waiting, TypesOfState DEF GatewayInv, RangeThrows
<1>2. /\ req' = [req EXCEPT ![r] = q] /\ UNCHANGED <<now, swept, buckets>>
      /\ up' \in BOOLEAN
  BY <1>1 DEF RangeThrows
<1>3. /\ q.pc = "thrown" /\ q.reply = "none" /\ q.at = req[r].at /\ q.ip = req[r].ip
      /\ q.count = req[r].count /\ q.charged = req[r].charged
  BY <1>1 DEF Requests
<1>4. q \in Requests
  BY <1>1 DEF Requests
<1> HIDE DEF q
<1>5. SaneRequest(q, now)
  BY <1>1, <1>3 DEF SaneRequest
<1>6. req'[r] = q /\ Others(req, req', r)
  BY <1>1, <1>2 DEF Others
<1>7. Proceeds(req, req', r)
  BY <1>1, <1>3, <1>6 DEF Proceeds
<1> QED  BY <1>2, <1>4, <1>5, <1>7, ProceedsHolds

(* The budget is charged.                                                  *)
LEMMA RangeChargedHolds ==
  ASSUME GatewayInv, NEW r \in Request, NEW count \in Counts, RangeCharged(r, count)
  PROVE  GatewayInv'
<1> DEFINE v == req[r].ip
           k == buckets[v]
           headers == k.headers + count
           b == [k EXCEPT !.headers = headers]
<1>0. RangeBudget \in Nat /\ NoBucket \notin Buckets /\ count \in Nat
  BY GatewayConstants
<1>1. /\ now \in Nat /\ req \in [Request -> Requests] /\ TypeOK /\ Sane(req, now)
      /\ OverWhenLimited(req) /\ req[r].pc = "reading" /\ k # NoBucket
      /\ now' = now /\ swept' = swept /\ up' = up /\ buckets' = [buckets EXCEPT ![v] = b]
  BY TypesOfState DEF GatewayInv, RangeCharged
<1>2. /\ req[r] \in Requests /\ SaneRequest(req[r], now) /\ req[r].reply = "none"
      /\ v \in Visitor /\ req[r].count = 0
  BY <1>1, Waiting
<1>3. k \in Buckets /\ Counted(req, v, k, now) /\ WithinTwo(req, v)
  BY <1>1, <1>2, TypesOfState DEF GatewayInv, VisitorHolds, BucketHolds
<1>4. b \in Buckets /\ b.start = k.start /\ b.n = k.n /\ b.headers = k.headers + count
  BY <1>0, <1>3 DEF Buckets
<1>5. buckets'[v] = b /\ \A u \in Visitor : u # v => buckets'[u] = buckets[u]
  BY <1>1, <1>2 DEF TypeOK
<1>6. buckets' \in [Visitor -> Buckets \cup {NoBucket}]
  BY <1>1, <1>2, <1>4 DEF TypeOK
<1>7. CASE headers > RangeBudget
  <2> DEFINE q == [req[r] EXCEPT !.pc = "done", !.reply = "over budget"]
  <2>1. req' = [req EXCEPT ![r] = q]
    BY <1>1, <1>7 DEF RangeCharged, Reply
  <2>2. /\ q.pc = "done" /\ q.reply = "over budget" /\ q.at = req[r].at /\ q.ip = req[r].ip
        /\ q.count = req[r].count /\ q.charged = req[r].charged
    BY <1>2 DEF Requests
  <2>3. q \in Requests
    BY <1>2 DEF Requests
  <2> HIDE DEF q
  <2>4. SaneRequest(q, now)
    BY <1>2, <2>2 DEF SaneRequest
  <2>5. req'[r] = q /\ Others(req, req', r) /\ req' \in [Request -> Requests]
    BY <1>1, <2>1, <2>3 DEF Others
  <2>6. Proceeds(req, req', r)
    BY <1>1, <1>2, <2>2, <2>5 DEF Proceeds
  <2>7. q.count \in Nat
    BY <2>5, RequestTypes
  <2>8. Sane(req', now)
    BY <1>1, <2>4, <2>5, <2>7, StaysSane
  <2>9. \A u, x, y : /\ SentOf(req', u, x, y) = SentOf(req, u, x, y)
                    /\ AdmittedOf(req', u, x, y) = AdmittedOf(req, u, x, y)
                    /\ HeadersOf(req', u, x, y) = HeadersOf(req, u, x, y)
    BY <2>6, ProceedsCounts
  <2>10. \A u : SameSets(req, req', u)
    BY <2>9 DEF SameSets
  <2>11. OverWhenLimited(req')
    BY <1>1, <2>6, ProceedsOver
  <2>12. ASSUME NEW u \in Visitor  PROVE VisitorHolds(req', u, buckets'[u], now)
    <3>1. CASE u = v
      <4>1. Counted(req, v, b, now)
        <5> HIDE DEF b, k, v
        <5> QED  BY <1>0, <1>1, <1>3, <1>4, BudgetRefused
      <4>2. VisitorHolds(req, v, b, now)
        BY <1>0, <1>3, <1>4, <4>1 DEF VisitorHolds, BucketHolds
      <4> QED  BY <1>5, <2>10, <3>1, <4>2, SameSetsHold
    <3>2. CASE u # v
      BY <1>5, <2>10, <3>2, SameSetsHold DEF GatewayInv
    <3> QED  BY <3>1, <3>2
  <2>13. TypeOK'
    BY <1>1, <1>6, <2>5 DEF TypeOK
  <2> QED  BY <1>1, <2>8, <2>11, <2>12, <2>13 DEF GatewayInv
<1>8. CASE headers <= RangeBudget
  <2> DEFINE q == [req[r] EXCEPT !.pc = "fetching", !.count = count, !.charged = now]
  <2>1. req' = [req EXCEPT ![r] = q]
    <3>1. ~(headers > RangeBudget)
      BY <1>0, <1>3, <1>8, BucketTypes
    <3> QED  BY <1>1, <3>1 DEF RangeCharged
  <2>2. /\ q.pc = "fetching" /\ q.reply = "none" /\ q.at = req[r].at /\ q.ip = req[r].ip
        /\ q.count = count /\ q.charged = now
    BY <1>2 DEF Requests
  <2>3. q \in Requests
    BY <1>1, <1>2 DEF Requests
  <2> HIDE DEF q
  <2>4. SaneRequest(q, now)
    <3>1. q.at <= now /\ q.charged <= now
      <4>1. req[r].at <= now
        BY <1>2 DEF SaneRequest
      <4> QED  BY <1>1, <2>2, <4>1
    <3> QED  BY <1>2, <2>2, <3>1 DEF SaneRequest
  <2>5. req'[r] = q /\ Others(req, req', r) /\ req' \in [Request -> Requests]
    BY <1>1, <2>1, <2>3 DEF Others
  <2>6. Fetches(req, req', r, count, now)
    BY <1>1, <1>2, <2>2, <2>5 DEF Fetches
  <2>7. Sane(req', now)
    BY <1>0, <1>1, <2>2, <2>4, <2>5, StaysSane
  <2>8. OverWhenLimited(req')
    <3>1. ASSUME NEW s \in Request, Limited(req'[s])
          PROVE  Limited(req[s]) /\ req'[s].ip = req[s].ip /\ req'[s].at = req[s].at
      BY <2>6, <3>1 DEF Fetches, Others, Limited
    <3>2. \A u, x, y : SentOf(req', u, x, y) = SentOf(req, u, x, y)
      BY <1>0, <2>6, FetchesCounts
    <3> QED  BY <1>1, <3>1, <3>2, OverHolds, Zenon
  <2>9. Counted(req', v, b, now)
    <3> HIDE DEF b, k
    <3> QED  BY <1>0, <1>1, <1>3, <1>4, <1>8, <2>6, <2>7, BudgetCharged
  <2>10. WithinTwo(req', v)
    <3>1. \A x, y : now \notin x..y => /\ AdmittedOf(req', v, x, y) = AdmittedOf(req, v, x, y)
                                     /\ HeadersOf(req', v, x, y) = HeadersOf(req, v, x, y)
      BY <1>0, <2>6, FetchesCounts
    <3> HIDE DEF b, k, v
    <3> QED  BY <1>1, <1>3, <1>4, <2>5, <2>7, <2>9, <3>1, WithinTwoHolds
  <2>11. ASSUME NEW u \in Visitor  PROVE VisitorHolds(req', u, buckets'[u], now)
    <3>1. CASE u = v
      <4>1. VisitorHolds(req', v, b, now)
        BY <1>0, <1>4, <2>9, <2>10 DEF VisitorHolds, BucketHolds
      <4> QED  BY <1>5, <3>1, <4>1
    <3>2. CASE u # v
      <4>1. SameSets(req, req', u)
        BY <1>0, <2>6, <3>2, FetchesCounts DEF SameSets
      <4> QED  BY <1>5, <3>2, <4>1, SameSetsHold DEF GatewayInv
    <3> QED  BY <3>1, <3>2
  <2>12. TypeOK'
    BY <1>1, <1>6, <2>5 DEF TypeOK
  <2> QED  BY <1>1, <2>7, <2>8, <2>11, <2>12 DEF GatewayInv
<1> QED
  <2>1. headers \in Nat
    BY <1>0, <1>3, BucketTypes
  <2> QED  BY <1>0, <1>7, <1>8, <2>1

(* The timer fires, and time goes by.                                      *)
LEMMA SweepHolds ==
  ASSUME GatewayInv, Sweep  PROVE GatewayInv'
<1>1. /\ now \in Nat /\ req \in [Request -> Requests] /\ TypeOK /\ Sane(req, now)
      /\ OverWhenLimited(req) /\ now' = now /\ swept' = now /\ up' = up /\ req' = req
      /\ buckets' = [v \in Visitor |->
           IF buckets[v] # NoBucket /\ Expired(buckets[v]) THEN NoBucket ELSE buckets[v]]
  BY TypesOfState DEF GatewayInv, Sweep
<1>2. TypeOK'
  BY <1>1 DEF TypeOK
<1>3. ASSUME NEW v \in Visitor  PROVE VisitorHolds(req, v, buckets'[v], now)
  <2>1. VisitorHolds(req, v, buckets[v], now) /\ buckets[v] \in Buckets \cup {NoBucket}
    BY TypesOfState DEF GatewayInv
  <2>2. CASE buckets[v] # NoBucket /\ Expired(buckets[v])
    <3>1. buckets'[v] = NoBucket
      BY <1>1, <2>2
    <3>2. Quiet(req, v, now)
      BY <1>1, <2>1, <2>2, ExpiredIsQuiet DEF VisitorHolds, BucketHolds, Expired
    <3> QED  BY <2>1, <3>1, <3>2 DEF VisitorHolds, BucketHolds
  <2>3. CASE ~(buckets[v] # NoBucket /\ Expired(buckets[v]))
    <3>1. buckets'[v] = buckets[v]
      BY <1>1, <2>3
    <3> QED  BY <2>1, <3>1
  <2> QED  BY <2>2, <2>3
<1> QED  BY <1>1, <1>2, <1>3 DEF GatewayInv

LEMMA TickHolds ==
  ASSUME GatewayInv, Tick  PROVE GatewayInv'
<1>1. /\ now \in Nat /\ req \in [Request -> Requests] /\ TypeOK /\ Sane(req, now)
      /\ OverWhenLimited(req) /\ now' = now + 1 /\ now < MaxTime
      /\ UNCHANGED <<swept, buckets, up, req>>
  BY TypesOfState DEF GatewayInv, Tick
<1>2. TypeOK'
  BY <1>1, GatewayConstants DEF TypeOK
<1>3. Sane(req, now + 1)
  BY <1>1, SaneLater
<1>4. ASSUME NEW v \in Visitor  PROVE VisitorHolds(req, v, buckets[v], now + 1)
  <2>1. VisitorHolds(req, v, buckets[v], now) /\ buckets[v] \in Buckets \cup {NoBucket}
    BY TypesOfState DEF GatewayInv
  <2> QED  BY <1>1, <2>1, TimeGoesBy DEF VisitorHolds
<1> QED  BY <1>1, <1>2, <1>3, <1>4 DEF GatewayInv

THEOREM GatewayInvariant == Spec => []GatewayInv
<1>1. GatewayInv /\ [Next]_vars => GatewayInv'
  <2> SUFFICES ASSUME GatewayInv, [Next]_vars  PROVE GatewayInv'
    OBVIOUS
  <2>1. CASE Tick
    BY <2>1, TickHolds
  <2>2. CASE Sweep
    BY <2>2, SweepHolds
  <2>3. ASSUME NEW r \in Request, Handler(r)  PROVE GatewayInv'
    <3>1. ASSUME NEW v \in Visitor, Arrives(r, v)  PROVE GatewayInv'
      BY <3>1, ArrivesHolds
    <3>2. CASE BodyEnds(r)
      BY <3>2, BodyEndsHolds
    <3>3. CASE Forwarded(r)
      BY <3>3, ForwardedHolds
    <3>4. ASSUME NEW count \in Counts, RangeCharged(r, count)  PROVE GatewayInv'
      BY <3>4, RangeChargedHolds
    <3>5. CASE RangeThrows(r)
      BY <3>5, RangeThrowsHolds
    <3>6. CASE Settles(r)
      BY <3>6, SettlesHolds
    <3> QED  BY <2>3, <3>1, <3>2, <3>3, <3>4, <3>5, <3>6 DEF Handler
  <2>4. CASE UNCHANGED vars
    <3>1. UNCHANGED <<now, swept, buckets, up, req>>
      BY <2>4 DEF vars
    <3>2. TypeOK'
      BY <3>1 DEF GatewayInv, TypeOK
    <3> QED  BY <3>1, <3>2 DEF GatewayInv
  <2> QED  BY <2>1, <2>2, <2>3, <2>4 DEF Next
<1> QED  BY <1>1, InitHolds, PTL DEF Spec

----------------------------------------------------------------------------
(* What the runs check.                                                    *)
LEMMA SetsOfState ==
  ASSUME TypeOK, NEW v, NEW a, NEW b
  PROVE  /\ Sent(v, a, b) = SentOf(req, v, a, b)
         /\ Admitted(v, a, b) = AdmittedOf(req, v, a, b)
         /\ Headers(v, a, b) = HeadersOf(req, v, a, b)
<1>1. Sent(v, a, b) = SentOf(req, v, a, b)
  BY DEF Sent, SentOf
<1>2. Admitted(v, a, b) = AdmittedOf(req, v, a, b)
  BY <1>1 DEF Admitted, AdmittedOf
<1>3. \A r \in Request : req[r].count \in Nat
  BY TypesOfState, RequestTypes
<1>4. ASSUME NEW h, h \in Headers(v, a, b)  PROVE h \in HeadersOf(req, v, a, b)
  <2>1. PICK r \in Ranges(v, a, b) : h \in {r} \X (1..req[r].count)
    BY <1>4 DEF Headers
  <2>2. r \in Request /\ h[1] = r /\ h[2] \in 1..req[r].count /\ h = <<h[1], h[2]>>
    BY <2>1 DEF Ranges
  <2>3. h \in Request \X Nat
    BY <1>3, <2>2
  <2> QED  BY <2>1, <2>2, <2>3 DEF HeadersOf, Ranges
<1>5. ASSUME NEW h, h \in HeadersOf(req, v, a, b)  PROVE h \in Headers(v, a, b)
  <2> DEFINE r == h[1]
  <2>1. /\ r \in Request /\ req[r].ip = v /\ req[r].charged \in a..b
        /\ h[2] \in 1..req[r].count /\ h = <<h[1], h[2]>>
    BY <1>5 DEF HeadersOf
  <2>2. req[r].count > 0
    BY <1>3, <2>1
  <2>3. r \in Ranges(v, a, b)
    BY <2>1, <2>2 DEF Ranges
  <2>4. h \in {r} \X (1..req[r].count)
    BY <2>1
  <2> QED  BY <2>3, <2>4 DEF Headers
<1>6. Headers(v, a, b) = HeadersOf(req, v, a, b)
  BY <1>4, <1>5
<1> QED  BY <1>1, <1>2, <1>6

(* Buckets and requests keep their shape: no bucket is ever charged that   *)
(* is not there (rpc-proxy.mjs l.47-51).                                   *)
THEOREM GatewayTypes == Spec => []TypeOK
<1>1. GatewayInv => TypeOK
  BY DEF GatewayInv
<1> QED  BY <1>1, GatewayInvariant, PTL

(* A visitor who is told "rate limited" has sent more than RATE_MAX        *)
(* requests within RATE_MS (l.40-46).  Of the header budget this says      *)
(* nothing.                                                                *)
THEOREM LimitsAreEarned == Spec => []LimitedOnlyWhenOver
<1>1. GatewayInv => LimitedOnlyWhenOver
  <2> SUFFICES ASSUME GatewayInv, NEW r \in Request, req[r].reply = "rate limited"
               PROVE  Cardinality(Sent(req[r].ip, req[r].at - RateMs, req[r].at)) > RateMax
    BY DEF LimitedOnlyWhenOver
  <2>1. Cardinality(SentOf(req, req[r].ip, req[r].at - RateMs, req[r].at)) > RateMax
    BY DEF GatewayInv, OverWhenLimited
  <2>2. Sent(req[r].ip, req[r].at - RateMs, req[r].at)
          = SentOf(req, req[r].ip, req[r].at - RateMs, req[r].at)
    BY Zenon DEF Sent, SentOf
  <2> QED  BY <2>1, <2>2
<1> QED  BY <1>1, GatewayInvariant, PTL

(* In no RATE_MS does a visitor get more than two windows' requests        *)
(* through, whenever the sweeper runs (l.40-46, 83-86).                    *)
THEOREM AdmittedInAnyWindow == Spec => []AdmittedPerWindow
<1>1. GatewayInv => AdmittedPerWindow
  <2> SUFFICES ASSUME GatewayInv, NEW v \in Visitor, NEW t \in 0..MaxTime
               PROVE  Cardinality(Admitted(v, t, t + RateMs)) <= 2 * RateMax
    BY DEF AdmittedPerWindow
  <2>1. t \in Nat
    OBVIOUS
  <2>2. Cardinality(AdmittedOf(req, v, t, t + RateMs)) <= 2 * RateMax
    BY <2>1 DEF GatewayInv, VisitorHolds, WithinTwo
  <2> QED  BY <2>2, SetsOfState DEF GatewayInv
<1> QED  BY <1>1, GatewayInvariant, PTL

(* Nor more than two windows' headers, whatever bucket a late body is      *)
(* charged to (l.47-51, 161).                                              *)
THEOREM HeadersInAnyWindow == Spec => []HeadersPerWindow
<1>1. GatewayInv => HeadersPerWindow
  <2> SUFFICES ASSUME GatewayInv, NEW v \in Visitor, NEW t \in 0..MaxTime
               PROVE  Cardinality(Headers(v, t, t + RateMs)) <= 2 * RangeBudget
    BY DEF HeadersPerWindow
  <2>1. t \in Nat
    OBVIOUS
  <2>2. Cardinality(HeadersOf(req, v, t, t + RateMs)) <= 2 * RangeBudget
    BY <2>1 DEF GatewayInv, VisitorHolds, WithinTwo
  <2> QED  BY <2>2, SetsOfState DEF GatewayInv
<1> QED  BY <1>1, GatewayInvariant, PTL
=============================================================================
