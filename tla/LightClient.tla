----------------------------- MODULE LightClient -----------------------------
(***************************************************************************)
(* What the page promises a visitor who trusts nothing it fetches: at any  *)
(* moment it stands behind at most one proof, which holds, and when it     *)
(* says a block is in the chain, that is the block of the history that     *)
(* proof covers.                                                           *)
(***************************************************************************)
EXTENDS HistoryVerifier

CONSTANTS Asker,   \* questions "is block h in the chain?"
          None

VARIABLES accepted,   \* the proof stood behind, or None
          shown       \* per question: None, or the height and header shown

clientVars == <<accepted, shown>>

Init == accepted = None /\ shown = [a \in Asker |-> None]

Accept(t) == Sound[t] /\ accepted' = t /\ UNCHANGED shown

Supersede == accepted' = None /\ UNCHANGED shown

Show(a, h) ==
    /\ accepted # None /\ shown[a] = None
    /\ h \in DOMAIN History[accepted]
    /\ shown' = [shown EXCEPT ![a] = <<h, History[accepted][h]>>]
    /\ UNCHANGED accepted

Forget == accepted' = None /\ shown' = [a \in Asker |-> None]

Next ==
    \/ \E t \in Terminal : Accept(t)
    \/ Supersede \/ Forget
    \/ \E a \in Asker, t \in Terminal : \E h \in DOMAIN History[t] : Show(a, h)

Spec == Init /\ [][Next]_clientVars
=============================================================================
