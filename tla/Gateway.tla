------------------------------- MODULE Gateway -------------------------------
(***************************************************************************)
(* The read-only gateway, src/rpc-proxy.mjs: its request handler, the      *)
(* per-visitor buckets of rateLimited and overHeaderBudget, and the timer  *)
(* that sweeps them.                                                       *)
(*                                                                         *)
(* Node runs one callback at a time.  A request takes three: its arrival,  *)
(* where the bucket is counted; the end of its body, at any later time,    *)
(* where the rest is decided; and the settlement of what it asked the      *)
(* node.  Time is Date.now() in units a window has RateMs of.              *)
(***************************************************************************)
EXTENDS Integers, FiniteSets

CONSTANTS
    Request,      \* requests that get past OPTIONS and the method check
    Visitor,      \* what a bucket is keyed by
    RateMax,      \* RATE_MAX
    RateMs,       \* RATE_MS
    RangeBudget,  \* RANGE_BUDGET
    Counts,       \* headers a range request may ask for, within RANGE_MAX
    MaxTime,      \* the last moment looked at
    NoBucket,
    Nobody        \* the sender of a request that has not been sent

(* { start, n, headers }                                                   *)
Buckets == [start : Nat, n : Nat, headers : Nat]

ASSUME GatewayConstants ==
    /\ RateMax \in Nat \ {0} /\ RateMs \in Nat \ {0} /\ RangeBudget \in Nat
    /\ Counts \subseteq Nat \ {0} /\ MaxTime \in Nat
    /\ NoBucket \notin Buckets

VARIABLES
    now,      \* Date.now()
    swept,    \* when the timer last fired
    buckets,  \* Map from a visitor to its bucket
    up,       \* is the process running?
    req       \* every request

vars == <<now, swept, buckets, up, req>>

Unsent == [pc |-> "unsent", at |-> 0, ip |-> Nobody,
           count |-> 0, charged |-> 0, reply |-> "none"]

Init ==
    /\ now = 0 /\ swept = 0 /\ up = TRUE
    /\ buckets = [v \in Visitor |-> NoBucket]
    /\ req = [r \in Request |-> Unsent]

----------------------------------------------------------------------------
NewBucket == [start |-> now, n |-> 1, headers |-> 0]

Expired(b) == now - b.start > RateMs

(* Mutant: an expired window goes on.                                      *)
RateLimitedForGood(v) ==
    IF buckets[v] = NoBucket THEN NewBucket
    ELSE [buckets[v] EXCEPT !.n = @ + 1]

(* The bucket rateLimited leaves.                                          *)
RateLimited(v) ==
    IF buckets[v] = NoBucket \/ (buckets[v] # NoBucket /\ Expired(buckets[v]))
    THEN NewBucket
    ELSE [buckets[v] EXCEPT !.n = @ + 1]

(* The request's headers are in: over the limit it is denied at once.      *)
Arrives(r, v) ==
    LET b == RateLimited(v) IN
    /\ req[r].pc = "unsent"
    /\ buckets' = [buckets EXCEPT ![v] = b]
    /\ req' = [req EXCEPT ![r] =
         [Unsent EXCEPT !.at = now, !.ip = v,
                        !.pc = IF b.n > RateMax THEN "done" ELSE "reading",
                        !.reply = IF b.n > RateMax THEN "rate limited" ELSE "none"]]
    /\ UNCHANGED <<now, swept, up>>

Reply(r, reply) == [req EXCEPT ![r].pc = "done", ![r].reply = reply]

(* What the body alone decides: an error for a parse error, a batch, an    *)
(* invalid request or params and a method not allowed, or the result of a  *)
(* line of diagnostics, both "answered" here; and no reply to a body over  *)
(* MAX_BODY, whose socket is destroyed.                                    *)
BodyEnds(r) ==
    /\ req[r].pc = "reading"
    /\ \E reply \in {"answered", "none"} : req' = Reply(r, reply)
    /\ UNCHANGED <<now, swept, buckets, up>>

(* One of the methods that are forwarded.                                  *)
Forwarded(r) ==
    /\ req[r].pc = "reading"
    /\ req' = [req EXCEPT ![r].pc = "forwarded"]
    /\ UNCHANGED <<now, swept, buckets, up>>

(* Mutant: the budget is not counted up.                                   *)
RangeUncharged(r, count) ==
    LET v == req[r].ip IN
    /\ req[r].pc = "reading" /\ buckets[v] # NoBucket
    /\ req' = IF count > RangeBudget THEN Reply(r, "over budget")
              ELSE [req EXCEPT ![r].pc = "fetching", ![r].count = count,
                               ![r].charged = now]
    /\ UNCHANGED <<now, swept, buckets, up>>

(* overHeaderBudget charges the bucket there is now, be it expired or of a *)
(* later window than the request's, and charges it also when it refuses.   *)
RangeCharged(r, count) ==
    LET v == req[r].ip
        headers == buckets[v].headers + count IN
    /\ req[r].pc = "reading" /\ buckets[v] # NoBucket
    /\ buckets' = [buckets EXCEPT ![v].headers = headers]
    /\ req' = IF headers > RangeBudget THEN Reply(r, "over budget")
              ELSE [req EXCEPT ![r].pc = "fetching", ![r].count = count,
                               ![r].charged = now]
    /\ UNCHANGED <<now, swept, up>>

(* Mutant: a bucket of the headers alone takes the place of the one swept. *)
RangeThrowsNothing(r) ==
    /\ req[r].pc = "reading" /\ buckets[req[r].ip] = NoBucket
    /\ buckets' = [buckets EXCEPT ![req[r].ip] = [headers |-> 0]]
    /\ UNCHANGED <<now, swept, up, req>>

(* The bucket was swept while the body was on its way.  `b.headers` throws *)
(* in an async handler nobody awaits, which ends the process.              *)
RangeThrows(r) ==
    /\ req[r].pc = "reading" /\ buckets[req[r].ip] = NoBucket
    /\ req' = [req EXCEPT ![r].pc = "thrown"]
    /\ up' = FALSE
    /\ UNCHANGED <<now, swept, buckets>>

(* headerRange settles, or the fetch that was forwarded, with a result or  *)
(* an error; both have a timeout.                                          *)
Settles(r) ==
    /\ req[r].pc \in {"fetching", "forwarded"}
    /\ req' = Reply(r, "answered")
    /\ UNCHANGED <<now, swept, buckets, up>>

(* Mutant: the sweeper takes every bucket.                                 *)
SweepAll ==
    /\ now - swept >= RateMs
    /\ swept' = now
    /\ buckets' = [v \in Visitor |-> NoBucket]
    /\ UNCHANGED <<now, up, req>>

(* setInterval(..., RATE_MS): at least that long after the last time.      *)
Sweep ==
    /\ now - swept >= RateMs
    /\ swept' = now
    /\ buckets' = [v \in Visitor |->
         IF buckets[v] # NoBucket /\ Expired(buckets[v]) THEN NoBucket ELSE buckets[v]]
    /\ UNCHANGED <<now, up, req>>

Tick == now < MaxTime /\ now' = now + 1 /\ UNCHANGED <<swept, buckets, up, req>>

Handler(r) ==
    \/ \E v \in Visitor : Arrives(r, v)
    \/ BodyEnds(r) \/ Forwarded(r)
    \/ \E count \in Counts : RangeCharged(r, count)
    \/ RangeThrows(r) \/ Settles(r)

Next == up /\ (Tick \/ Sweep \/ \E r \in Request : Handler(r))

Spec == Init /\ [][Next]_vars

----------------------------------------------------------------------------
Requests ==
    [pc : {"unsent", "reading", "forwarded", "fetching", "thrown", "done"},
     at : Nat, ip : Visitor \cup {Nobody}, count : Counts \cup {0}, charged : Nat,
     reply : {"none", "rate limited", "over budget", "answered"}]

TypeOK ==
    /\ now \in 0..MaxTime /\ swept \in 0..now /\ up \in BOOLEAN
    /\ buckets \in [Visitor -> Buckets \cup {NoBucket}]
    /\ req \in [Request -> Requests]

(* What visitor v sent from moment a to moment b.                          *)
Sent(v, a, b) == {r \in Request : req[r].pc # "unsent" /\ req[r].ip = v /\ req[r].at \in a..b}

Admitted(v, a, b) == {r \in Sent(v, a, b) : req[r].reply # "rate limited"}

(* The ranges of v admitted to the node in that time, and the headers they *)
(* ask for, each known by its place in its range.                          *)
Ranges(v, a, b) ==
    {r \in Request : req[r].ip = v /\ req[r].count > 0 /\ req[r].charged \in a..b}
Headers(v, a, b) == UNION {{r} \X (1..req[r].count) : r \in Ranges(v, a, b)}

(* "requests per window per IP" (l.15): a visitor is told "rate limited"   *)
(* only after more than RATE_MAX requests of their own within RATE_MS, not *)
(* for what they or others sent in a window that is over.  Of "over        *)
(* budget" no such thing holds: a bucket that has expired and is still     *)
(* there goes on adding what bodies that end late ask for (l.47-51).       *)
LimitedOnlyWhenOver ==
    \A r \in Request : req[r].reply = "rate limited" =>
        Cardinality(Sent(req[r].ip, req[r].at - RateMs, req[r].at)) > RateMax

(* The windows are fixed, so the most a visitor gets through in any        *)
(* RATE_MS is what two of them let in, wherever the sweeper and late       *)
(* arrivals fall (l.40-46, 83-86).                                         *)
AdmittedPerWindow ==
    \A v \in Visitor, t \in 0..MaxTime : Cardinality(Admitted(v, t, t + RateMs)) <= 2 * RateMax

(* The same of the headers asked of the node: a range is charged when its  *)
(* body ends, to a bucket another window may have opened (l.47-51, 161).   *)
(* The "2,000 a minute per visitor" of README.md l.180 is one window's.    *)
HeadersPerWindow ==
    \A v \in Visitor, t \in 0..MaxTime :
        Cardinality(Headers(v, t, t + RateMs)) <= 2 * RangeBudget

----------------------------------------------------------------------------
(* What the documents say and the code does not do.                        *)

(* rpc-proxy.mjs l.67-68: a range is answered with its headers or with an  *)
(* error; no range request ends without an answer.                         *)
RangeIsAnswered == \A r \in Request : req[r].pc # "thrown"
=============================================================================
