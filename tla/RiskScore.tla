------------------------------- MODULE RiskScore -------------------------------
(***************************************************************************)
(* The payment risk of one customer: PaymentRiskScoreService, the evaluator*)
(* that the payment events feed, RiskPolicyEnforcer and the restrictions it*)
(* puts on the customer, which a refund request then looks at.             *)
(*                                                                         *)
(* An incident adds to the score and the enforcer reads the score again in *)
(* a statement of its own, then looks for each restriction and creates or  *)
(* renews it.  A successful payment writes a score computed from one it    *)
(* read; the nightly decay is one UPDATE.                                  *)
(*                                                                         *)
(* Callers import the older enforcer of services/fraud, which asks for the *)
(* score without the tenant and fails; the model has the one that was      *)
(* written for this score and these restrictions, next to them.            *)
(***************************************************************************)
EXTENDS Integers, FiniteSets

CONSTANTS
    Handlers,     \* event handlers and requests at once
    Deltas,       \* what one failure or refund can add up to
    MaxEvents,    \* bound: incidents, nights and lifted restrictions in a behaviour
    MaxCalls      \* bound: handlers and requests in a behaviour

RiskAssumption == Deltas \subseteq Nat /\ MaxEvents \in Nat /\ MaxCalls \in Nat

VARIABLES
    score, level,   \* PaymentRisk of the customer
    restriction,    \* active PaymentRestriction rows of each type
    riskCall,       \* what each handler is doing, and what it read
    events,        \* incidents, nights and lifted restrictions so far
    calls          \* handlers and requests so far

riskVars == <<score, level, restriction, riskCall, events, calls>>

\* Thresholds in ascending order, as apply() goes through them.
Threshold == [BLOCK_RETRY |-> 40, DISABLE_WALLET |-> 60, MANUAL_REVIEW |-> 80]
Types == DOMAIN Threshold
Decay == 5
AtLeast0(n) == IF n < 0 THEN 0 ELSE n
Smaller(a, b) == IF a < b THEN a ELSE b

calculateRiskLevel(s) ==
    CASE s >= 80 -> "CRITICAL"
      [] s >= 60 /\ s < 80 -> "HIGH"
      [] s >= 40 /\ s < 60 -> "MEDIUM"
      [] s >= 20 /\ s < 40 -> "LOW"
      [] OTHER -> "MINIMAL"

\* The level after the UPDATE of decayScores, which spells the table in SQL.
decayedLevel(s) == calculateRiskLevel(AtLeast0(s - Decay))

Resting == [op |-> "idle"]
Start(h, r) ==
    /\ calls < MaxCalls /\ calls' = calls + 1
    /\ riskCall[h] = Resting
    /\ riskCall' = [riskCall EXCEPT ![h] = r]
Goto(h, r) == riskCall' = [riskCall EXCEPT ![h] = r] /\ UNCHANGED calls
Finish(h) == Goto(h, Resting)
Happen == events < MaxEvents /\ events' = events + 1
Keep == UNCHANGED <<score, level, restriction, events>>

-----------------------------------------------------------------------------
(* The score.                                                              *)

\* increase: the row is locked from the increment to the commit.
increase(delta) ==
    /\ Happen
    /\ score' = score + delta
    /\ level' = calculateRiskLevel(score + delta)
    /\ UNCHANGED restriction

\* What onPaymentFailed and onRefundCompleted count only chooses the delta.
onPaymentFailed(h, delta) ==
    /\ increase(delta)
    /\ Start(h, [op |-> "apply", for |-> "event"])
onRefundCompleted(h, delta) ==
    /\ increase(delta)
    /\ Start(h, [op |-> "apply", for |-> "event"])

\* onPaymentTimeout does not apply the policy.
Timeout == increase(Decay) /\ UNCHANGED <<riskCall, calls>>

SuccessRead(h) ==
    /\ score > 0
    /\ Start(h, [op |-> "adjust", to |-> score - Smaller(Decay, score)])
    /\ Keep

\* adjust overwrites what came in between.
SuccessWrite(h) ==
    /\ riskCall[h].op = "adjust"
    /\ score' = riskCall[h].to
    /\ level' = calculateRiskLevel(riskCall[h].to)
    /\ Finish(h)
    /\ UNCHANGED <<restriction, events>>

decayScores ==
    /\ Happen
    /\ score > 0
    /\ level' = decayedLevel(score)
    /\ score' = AtLeast0(score - Decay)
    /\ UNCHANGED <<restriction, riskCall, calls>>

-----------------------------------------------------------------------------
(* The policy.                                                             *)

\* A refund request starts with apply(), too.
RefundRequest(h) == Start(h, [op |-> "apply", for |-> "refund"]) /\ Keep

\* The types that the score asks for, one after another.
ApplyRead(h) ==
    /\ riskCall[h].op = "apply"
    /\ Goto(h, [op |-> "restrict", for |-> riskCall[h].for, saw |-> score, lifted |-> {},
                todo |-> {t \in Types : score >= Threshold[t]}])
    /\ Keep

Soonest(S) == CHOOSE t \in S : \A u \in S : Threshold[t] <= Threshold[u]

\* upsertRestriction looks for an active row ...
RestrictFind(h) ==
    LET k == riskCall[h]
    IN  /\ k.op = "restrict" /\ k.todo # {}
        /\ LET t == Soonest(k.todo)
           IN  Goto(h, [op |-> "upsert", for |-> k.for, saw |-> k.saw, lifted |-> k.lifted,
                        todo |-> k.todo, found |-> restriction[t] > 0])
        /\ Keep

\* ... and updates that row, active or not by now, or creates one.
RestrictWrite(h) ==
    LET k == riskCall[h]
        t == Soonest(k.todo)
    IN  /\ k.op = "upsert"
        /\ restriction' = IF k.found THEN restriction ELSE [restriction EXCEPT ![t] = @ + 1]
        /\ Goto(h, [op |-> "restrict", for |-> k.for, saw |-> k.saw, lifted |-> k.lifted,
                    todo |-> k.todo \ {t}])
        /\ UNCHANGED <<score, level, events>>

\* Faulty variant: the restrictions in force are looked at with the score, and
\* not after the policy was applied.
ReviewCheckEarly(h) ==
    LET k == riskCall[h]
    IN  /\ k.op = "restrict"
        /\ IF k.for = "event"
           THEN k.todo = {} /\ Finish(h)
           ELSE Goto(h, [op |-> "decided", saw |-> k.saw, lifted |-> k.lifted,
                         review |-> restriction["MANUAL_REVIEW"] > 0])
        /\ Keep

\* requestRefund: hasRestriction(MANUAL_REVIEW) decides about requiresApproval.
ReviewCheck(h) ==
    LET k == riskCall[h]
    IN  /\ k.op = "restrict" /\ k.todo = {}
        /\ IF k.for = "event"
           THEN Finish(h)
           ELSE Goto(h, [op |-> "decided", saw |-> k.saw, lifted |-> k.lifted,
                         review |-> restriction["MANUAL_REVIEW"] > 0])
        /\ Keep

\* removeRestriction, by an administrator: every active row of the type.  The
\* calls that are applying the policy now remember it.
Lift(t) ==
    /\ Happen
    /\ restriction[t] > 0
    /\ restriction' = [restriction EXCEPT ![t] = 0]
    /\ riskCall' = [h \in Handlers |->
           IF "lifted" \in DOMAIN riskCall[h]
           THEN [riskCall[h] EXCEPT !.lifted = @ \union {t}] ELSE riskCall[h]]
    /\ UNCHANGED <<score, level, calls>>

\* The call ends: its work is done, or it failed.
Leave(h) == riskCall[h] # Resting /\ Finish(h) /\ Keep

-----------------------------------------------------------------------------
Init ==
    /\ score = 0
    /\ level = "MINIMAL"
    /\ restriction = [t \in Types |-> 0]
    /\ riskCall = [h \in Handlers |-> Resting]
    /\ events = 0
    /\ calls = 0

Next ==
    \/ \E h \in Handlers :
           \/ \E delta \in Deltas : onPaymentFailed(h, delta) \/ onRefundCompleted(h, delta)
           \/ SuccessRead(h) \/ SuccessWrite(h)
           \/ RefundRequest(h)
           \/ ApplyRead(h) \/ RestrictFind(h) \/ RestrictWrite(h) \/ ReviewCheck(h)
           \/ Leave(h)
    \/ Timeout
    \/ decayScores
    \/ \E t \in Types : Lift(t)

Spec == Init /\ [][Next]_riskVars

-----------------------------------------------------------------------------
\* The level on record is the level of the score on record, whichever of the
\* three writers came last.
LevelTrue == level = calculateRiskLevel(score)

\* A refund request that found a score of 80 or more is marked for review, even
\* when other handlers renew, create or find the same restrictions meanwhile;
\* only an administrator who lifts the restriction in that time lets it through.
RiskyReviewed ==
    \A h \in Handlers :
        /\ riskCall[h].op = "decided"
        /\ riskCall[h].saw >= Threshold["MANUAL_REVIEW"]
        /\ "MANUAL_REVIEW" \notin riskCall[h].lifted
        => riskCall[h].review

RiskPolicy == LevelTrue /\ RiskyReviewed
=============================================================================
