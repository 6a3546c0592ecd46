------------------------------ MODULE AtLeastOnce ------------------------------
(***************************************************************************)
(* What the delivery of one webhook promises its receiver: it is tried, the*)
(* receiver may accept any of the tries, and in the end it counts as       *)
(* delivered or as failed, once and for all.  It counts as delivered only  *)
(* if the receiver accepted it, and as failed only after MaxTries tries or *)
(* when the server was interrupted in the middle of one.                   *)
(***************************************************************************)
EXTENDS Naturals

CONSTANT MaxTries

VARIABLES tries, accepted, interrupted, verdict

deliveryVars == <<tries, accepted, interrupted, verdict>>

Init == tries = 0 /\ accepted = FALSE /\ interrupted = FALSE /\ verdict = "open"

Try ==
    /\ tries' = tries + 1
    /\ accepted' \in {accepted, TRUE}
    /\ UNCHANGED <<interrupted, verdict>>

\* delivered or failed, for good.
Justified(v) ==
    \/ v = "delivered" /\ accepted
    \/ v = "failed" /\ (tries >= MaxTries \/ interrupted)

Conclude ==
    /\ \E v \in {"delivered", "failed"} : Justified(v) /\ verdict' = v
    /\ UNCHANGED <<tries, accepted, interrupted>>

\* An interruption may leave a verdict behind that nobody will change.
Interrupt ==
    /\ interrupted' = TRUE
    /\ verdict' \in {"open", "failed"} \/ (verdict' = "delivered" /\ accepted)
    /\ UNCHANGED <<tries, accepted>>

Next == verdict = "open" /\ (Try \/ Conclude \/ Interrupt)

Spec == Init /\ [][Next]_deliveryVars
================================================================================
