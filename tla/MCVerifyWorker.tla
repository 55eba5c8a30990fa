--------------------------- MODULE MCVerifyWorker ---------------------------
(***************************************************************************)
(* The engine worker on MCChain.  "honest" serves the chain and its proofs *)
(* of blocks 4 and 5; "other" serves whatever it likes, the proof of f5    *)
(* included, and has no range method.                                      *)
(***************************************************************************)
EXTENDS VerifyWorker, MCChain

CONSTANTS old_pin, new_pin, honest, other, bad

MCTampered == [t \in MCTerminal |-> IF t = t4 THEN x4 ELSE IF t = t5 THEN x5 ELSE newer]

MCRelation == old_pin :> "V1" @@ new_pin :> "V1_3"
OnePin     == {new_pin}
BothPins   == {old_pin, new_pin}

OneSource  == {honest}
BothSources == {honest, other}
Honest(h) == {Main[h]}
Hostile(h) ==
    CASE h = 5 -> {f5, m5, Missing}
      [] h = 4 -> {m4, Undecodable}
      [] h = 3 -> {m3, n3, Malformed}
      [] OTHER -> {Main[h]}
MCServes == [s \in BothSources |-> [h \in Heights |-> IF s = honest THEN Honest(h) ELSE Hostile(h)]]
MCOffers == honest :> {t4, t5} @@ other :> {u5, x4, old, newer, short}
(* The proofs of the first block of the fork and of the tip.               *)
HonestOffers == [s \in BothSources |-> {t2, t5}]
HonestServes == [s \in BothSources |-> [h \in Heights |-> Honest(h)]]
CacheOffers  == honest :> {t5, old}
MCRange  == honest :> TRUE @@ other :> FALSE
=============================================================================
