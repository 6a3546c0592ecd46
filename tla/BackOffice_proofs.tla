-------------------------- MODULE BackOffice_proofs --------------------------
(***************************************************************************)
(* Theorems about the office of a store, as module BackOffice has it, for  *)
(* any requests, rows and rules and every value of the bounds: risk,       *)
(* logins and settlements, the rules of an item, the till with its drawers *)
(* and reports, the payroll; then the menu, the catalogue behind it, the   *)
(* favourites of its customers, the opening hours, the checks of an order, *)
(* the price of a basket, and orders that are taken and changed.  A        *)
(* behaviour follows one part, so each invariant is that of a component,   *)
(* under its focus.                                                        *)
(***************************************************************************)
EXTENDS BackOffice, Sums

\* Each part steps alone, and which one it is never changes.
LEMMA StepOfEach ==
    [Next]_everyVar =>
        /\ focus' = focus
        /\ focus = "risk" => [Risk!Next]_riskVars
        /\ focus = "auth" => [Auth!Next]_authVars
        /\ focus = "payout" => [Payouts!Next]_payoutsVars
        /\ focus = "rules" => [Opening!RulesNext]_openingVars
<1>1. UNCHANGED everyVar => /\ focus' = focus /\ UNCHANGED riskVars
                            /\ UNCHANGED authVars /\ UNCHANGED payoutsVars
                            /\ UNCHANGED openingVars
  BY DEF everyVar
<1>. QED BY <1>1 DEF Next

-----------------------------------------------------------------------------
(* The payment risk.                                                       *)

Grounds == {"event", "refund"}
RiskCalls ==
    [op : {"idle"}]
    \union [op : {"apply"}, for : Grounds]
    \union [op : {"adjust"}, to : Int]
    \union [op : {"restrict"}, for : Grounds, saw : Int, lifted : SUBSET Risk!Types,
            todo : SUBSET Risk!Types]
    \union [op : {"upsert"}, for : Grounds, saw : Int, lifted : SUBSET Risk!Types,
            todo : SUBSET Risk!Types, found : BOOLEAN]
    \union [op : {"decided"}, saw : Int, lifted : SUBSET Risk!Types, review : BOOLEAN]

RiskTypes ==
    /\ score \in Int
    /\ restriction \in [Risk!Types -> Nat]
    /\ riskCall \in [Hands -> RiskCalls]

\* A call that saw the score of a manual review, and whose work no administrator
\* has undone.
Due(r) ==
    /\ r.op \in {"restrict", "upsert", "decided"}
    /\ r.saw >= 80
    /\ "MANUAL_REVIEW" \notin r.lifted

\* Such a call has the restriction still to see to, or it is in force.
ReviewKept(r, inForce) ==
    Due(r) =>
        /\ r.op \in {"restrict", "upsert"} =>
               "MANUAL_REVIEW" \in r.todo \/ inForce > 0
        /\ r.op = "upsert" /\ r.found /\ Risk!Soonest(r.todo) = "MANUAL_REVIEW" =>
               inForce > 0
        /\ r.op = "decided" => r.review

RiskInductive ==
    RiskTypes /\ Risk!LevelTrue /\ \A h \in Hands : ReviewKept(riskCall[h], restriction["MANUAL_REVIEW"])

LEMMA RiskInit == Risk!Init => RiskInductive
<1>. SUFFICES ASSUME Risk!Init PROVE RiskInductive OBVIOUS
<1>1. RiskTypes BY DEF Risk!Init, RiskTypes, RiskCalls, Risk!Resting
<1>2. Risk!LevelTrue BY DEF Risk!Init, Risk!LevelTrue, Risk!calculateRiskLevel
<1>3. \A h \in Hands : ReviewKept(riskCall[h], restriction["MANUAL_REVIEW"])
  BY DEF Risk!Init, ReviewKept, Due, Risk!Resting
<1>. QED BY <1>1, <1>2, <1>3 DEF RiskInductive

LEMMA ThresholdsListed ==
    /\ Risk!Types = {"BLOCK_RETRY", "DISABLE_WALLET", "MANUAL_REVIEW"}
    /\ Risk!Threshold["MANUAL_REVIEW"] = 80
  BY DEF Risk!Types, Risk!Threshold

\* One handler moves on, and no restriction is taken back.
LEMMA HandlerMoves ==
    ASSUME RiskInductive, NEW h \in Hands, NEW r \in RiskCalls,
           riskCall' = [riskCall EXCEPT ![h] = r], score' \in Int,
           Risk!LevelTrue', restriction' \in [Risk!Types -> Nat],
           restriction["MANUAL_REVIEW"] > 0 => restriction'["MANUAL_REVIEW"] > 0,
           ReviewKept(r, restriction'["MANUAL_REVIEW"])
    PROVE  RiskInductive'
<1>1. RiskTypes' BY DEF RiskInductive, RiskTypes
<1>2. riskCall'[h] = r /\ \A x \in Hands \ {h} : riskCall'[x] = riskCall[x]
  BY DEF RiskInductive, RiskTypes
<1>3. \A x \in Hands \ {h} : ReviewKept(riskCall'[x], restriction'["MANUAL_REVIEW"])
  BY <1>2 DEF RiskInductive, ReviewKept, Due
<1>. QED BY <1>1, <1>2, <1>3 DEF RiskInductive, ReviewKept, Due

\* The records a handler goes through.
LEMMA RiskCallsListed ==
    /\ Risk!Resting \in RiskCalls
    /\ \A g \in Grounds : [op |-> "apply", for |-> g] \in RiskCalls
    /\ \A n \in Int : [op |-> "adjust", to |-> n] \in RiskCalls
    /\ \A g \in Grounds, n \in Int, L \in SUBSET Risk!Types, T \in SUBSET Risk!Types :
           /\ [op |-> "restrict", for |-> g, saw |-> n, lifted |-> L, todo |-> T] \in RiskCalls
           /\ \A f \in BOOLEAN :
                  [op |-> "upsert", for |-> g, saw |-> n, lifted |-> L, todo |-> T, found |-> f]
                      \in RiskCalls
    /\ \A n \in Int, L \in SUBSET Risk!Types, v \in BOOLEAN :
           [op |-> "decided", saw |-> n, lifted |-> L, review |-> v] \in RiskCalls
  BY DEF RiskCalls, Risk!Resting

LEMMA RiskCallFields ==
    ASSUME NEW r \in RiskCalls
    PROVE  /\ r.op \in {"idle", "apply", "adjust", "restrict", "upsert", "decided"}
           /\ r.op = "apply" => r.for \in Grounds
           /\ r.op = "adjust" => r.to \in Int
           /\ r.op \in {"restrict", "upsert"} =>
                  /\ r.for \in Grounds /\ r.saw \in Int
                  /\ r.lifted \in SUBSET Risk!Types /\ r.todo \in SUBSET Risk!Types
           /\ r.op = "upsert" => r.found \in BOOLEAN
  BY DEF RiskCalls

\* A call that has not looked at the score yet owes nothing.
LEMMA NothingDue ==
    ASSUME NEW r, r.op \notin {"restrict", "upsert", "decided"}
    PROVE  \A n : ReviewKept(r, n)
  BY DEF ReviewKept, Due

\* The steps that start a call or end one.
LEMMA StartOrEnd ==
    ASSUME RiskInductive, NEW h \in Hands, NEW r \in RiskCalls,
           riskCall' = [riskCall EXCEPT ![h] = r],
           r.op \in {"idle", "apply", "adjust"}, score' \in Int,
           Risk!LevelTrue', restriction' = restriction
    PROVE  RiskInductive'
<1>1. ReviewKept(r, restriction'["MANUAL_REVIEW"]) BY NothingDue
<1>2. restriction' \in [Risk!Types -> Nat] BY DEF RiskInductive, RiskTypes
<1>. QED BY <1>1, <1>2, HandlerMoves

LEMMA RiskStep == RiskInductive /\ [Risk!Next]_riskVars => RiskInductive'
<1>. SUFFICES ASSUME RiskInductive, [Risk!Next]_riskVars PROVE RiskInductive' OBVIOUS
<1> DEFINE M == "MANUAL_REVIEW"
<1>t. /\ score \in Int /\ restriction \in [Risk!Types -> Nat] /\ riskCall \in [Hands -> RiskCalls]
      /\ Risk!LevelTrue /\ M \in Risk!Types
  BY ThresholdsListed DEF RiskInductive, RiskTypes
<1>d. Deltas \subseteq Nat BY BackOfficeAssumption DEF Risk!RiskAssumption
<1>i. Risk!Resting \in RiskCalls /\ Risk!Resting.op = "idle"
  BY RiskCallsListed DEF Risk!Resting
<1>1. ASSUME UNCHANGED <<score, level, restriction, riskCall>> PROVE RiskInductive'
  BY <1>1 DEF RiskInductive, RiskTypes, Risk!LevelTrue, ReviewKept, Due
<1>2. ASSUME UNCHANGED <<restriction, riskCall>>, score' \in Int, Risk!LevelTrue'
      PROVE  RiskInductive'
  BY <1>2 DEF RiskInductive, RiskTypes, ReviewKept, Due
<1>3. CASE UNCHANGED riskVars BY <1>1, <1>3 DEF riskVars
<1>4. CASE Risk!Timeout
  BY <1>2, <1>4, <1>t DEF Risk!Timeout, Risk!increase, Risk!LevelTrue, Risk!Decay
<1>5. CASE Risk!decayScores
  <2>1. score' \in Int
    BY <1>5, <1>t DEF Risk!decayScores, Risk!AtLeast0, Risk!Decay
  <2>2. Risk!LevelTrue'
    BY <1>5 DEF Risk!decayScores, Risk!LevelTrue, Risk!decayedLevel
  <2>. QED BY <1>2, <1>5, <2>1, <2>2 DEF Risk!decayScores
<1>6. ASSUME NEW t \in Risk!Types, Risk!Lift(t) PROVE RiskInductive'
  <2>1. /\ restriction' = [restriction EXCEPT ![t] = 0]
        /\ riskCall' = [h \in Hands |->
               IF "lifted" \in DOMAIN riskCall[h]
               THEN [riskCall[h] EXCEPT !.lifted = @ \union {t}] ELSE riskCall[h]]
        /\ UNCHANGED <<score, level>>
    BY <1>6 DEF Risk!Lift
  <2>2. restriction' \in [Risk!Types -> Nat] /\ \A u \in Risk!Types \ {t} : restriction'[u] = restriction[u]
    BY <1>t, <2>1
  <2>3. ASSUME NEW h \in Hands
        PROVE  /\ riskCall'[h] \in RiskCalls
               /\ \/ riskCall'[h].op \notin {"restrict", "upsert", "decided"}
                  \/ /\ riskCall'[h].op = riskCall[h].op
                     /\ riskCall'[h].saw = riskCall[h].saw
                     /\ riskCall'[h].lifted = riskCall[h].lifted \union {t}
                     /\ riskCall[h].op = "decided" => riskCall'[h].review = riskCall[h].review
                     /\ riskCall[h].op # "decided" => riskCall'[h].todo = riskCall[h].todo
                     /\ riskCall[h].op = "upsert" => riskCall'[h].found = riskCall[h].found
    <3>1. riskCall[h] \in RiskCalls BY <1>t
    <3>2. riskCall'[h] = IF "lifted" \in DOMAIN riskCall[h]
                         THEN [riskCall[h] EXCEPT !.lifted = @ \union {t}] ELSE riskCall[h]
      BY <2>1
    <3>. QED BY <3>1, <3>2 DEF RiskCalls
  <2>4. ASSUME NEW h \in Hands PROVE ReviewKept(riskCall'[h], restriction'["MANUAL_REVIEW"])
    <3>1. ReviewKept(riskCall[h], restriction["MANUAL_REVIEW"])
      BY DEF RiskInductive
    <3>. QED BY <2>2, <2>3, <3>1, ThresholdsListed DEF ReviewKept, Due
  <2>5. Risk!LevelTrue' BY <1>t, <2>1 DEF Risk!LevelTrue
  <2>6. riskCall' \in [Hands -> RiskCalls] BY <2>1, <2>3
  <2>. QED BY <1>t, <2>1, <2>2, <2>4, <2>5, <2>6 DEF RiskInductive, RiskTypes
<1>7. ASSUME NEW h \in Hands,
             \/ \E delta \in Deltas : Risk!onPaymentFailed(h, delta) \/ Risk!onRefundCompleted(h, delta)
             \/ Risk!SuccessRead(h) \/ Risk!SuccessWrite(h)
             \/ Risk!RefundRequest(h)
             \/ Risk!Leave(h)
      PROVE  RiskInductive'
  <2>r. riskCall[h] \in RiskCalls BY <1>t
  <2>1. CASE \E delta \in Deltas : Risk!onPaymentFailed(h, delta) \/ Risk!onRefundCompleted(h, delta)
    <3>1. PICK delta \in Deltas :
              /\ score' = score + delta /\ level' = Risk!calculateRiskLevel(score + delta)
              /\ restriction' = restriction
              /\ riskCall' = [riskCall EXCEPT ![h] = [op |-> "apply", for |-> "event"]]
      BY <2>1 DEF Risk!onPaymentFailed, Risk!onRefundCompleted, Risk!increase, Risk!Start
    <3>2. score' \in Int /\ Risk!LevelTrue'
      BY <1>t, <1>d, <3>1 DEF Risk!LevelTrue
    <3> DEFINE r == [op |-> "apply", for |-> "event"]
    <3>3. r \in RiskCalls /\ r.op = "apply" BY RiskCallsListed DEF Grounds
    <3>. HIDE DEF r
    <3>4. riskCall' = [riskCall EXCEPT ![h] = r] BY <3>1 DEF r
    <3>. QED BY <3>1, <3>2, <3>3, <3>4, StartOrEnd
  <2>2. CASE Risk!RefundRequest(h)
    <3> DEFINE r == [op |-> "apply", for |-> "refund"]
    <3>1. /\ riskCall' = [riskCall EXCEPT ![h] = r]
          /\ score' = score /\ restriction' = restriction /\ level' = level
      BY <2>2 DEF Risk!RefundRequest, Risk!Start, Risk!Keep
    <3>2. r \in RiskCalls /\ r.op = "apply" BY RiskCallsListed DEF Grounds
    <3>3. score' \in Int /\ Risk!LevelTrue' BY <1>t, <3>1 DEF Risk!LevelTrue
    <3>. HIDE DEF r
    <3>. QED BY <3>1, <3>2, <3>3, StartOrEnd
  <2>3. CASE Risk!SuccessRead(h)
    <3> DEFINE r == [op |-> "adjust", to |-> score - Risk!Smaller(Risk!Decay, score)]
    <3>1. /\ riskCall' = [riskCall EXCEPT ![h] = r]
          /\ score' = score /\ restriction' = restriction /\ level' = level
      BY <2>3 DEF Risk!SuccessRead, Risk!Start, Risk!Keep
    <3>2. score - Risk!Smaller(Risk!Decay, score) \in Int
      BY <1>t DEF Risk!Smaller, Risk!Decay
    <3>3. r \in RiskCalls /\ r.op = "adjust" BY <3>2, RiskCallsListed
    <3>4. score' \in Int /\ Risk!LevelTrue' BY <1>t, <3>1 DEF Risk!LevelTrue
    <3>. HIDE DEF r
    <3>. QED BY <3>1, <3>3, <3>4, StartOrEnd
  <2>4. CASE Risk!SuccessWrite(h)
    <3>1. /\ riskCall[h].op = "adjust" /\ score' = riskCall[h].to
          /\ level' = Risk!calculateRiskLevel(riskCall[h].to)
          /\ riskCall' = [riskCall EXCEPT ![h] = Risk!Resting] /\ restriction' = restriction
      BY <2>4 DEF Risk!SuccessWrite, Risk!Finish, Risk!Goto
    <3>2. score' \in Int /\ Risk!LevelTrue'
      BY <2>r, <3>1, RiskCallFields DEF Risk!LevelTrue
    <3>. QED BY <1>i, <3>1, <3>2, StartOrEnd
  <2>5. CASE Risk!Leave(h)
    <3>1. /\ riskCall' = [riskCall EXCEPT ![h] = Risk!Resting]
          /\ score' = score /\ restriction' = restriction /\ level' = level
      BY <2>5 DEF Risk!Leave, Risk!Finish, Risk!Goto, Risk!Keep
    <3>2. score' \in Int /\ Risk!LevelTrue' BY <1>t, <3>1 DEF Risk!LevelTrue
    <3>. QED BY <1>i, <3>1, <3>2, StartOrEnd
  <2>. QED BY <1>7, <2>1, <2>2, <2>3, <2>4, <2>5
<1>8. ASSUME NEW h \in Hands, NEW r \in RiskCalls,
             riskCall' = [riskCall EXCEPT ![h] = r], Risk!Keep, ReviewKept(r, restriction'["MANUAL_REVIEW"])
      PROVE  RiskInductive'
  <2>1. UNCHANGED <<score, level, restriction>> BY <1>8 DEF Risk!Keep
  <2>2. Risk!LevelTrue' BY <1>t, <2>1 DEF Risk!LevelTrue
  <2>. QED BY <1>8, <1>t, <2>1, <2>2, HandlerMoves
<1>9. ASSUME NEW h \in Hands, Risk!ApplyRead(h) PROVE RiskInductive'
  <2> DEFINE T == {t \in Risk!Types : score >= Risk!Threshold[t]}
             r == [op |-> "restrict", for |-> riskCall[h].for, saw |-> score, lifted |-> {},
                   todo |-> T]
  <2>1. riskCall[h].op = "apply" /\ Risk!Keep /\ riskCall' = [riskCall EXCEPT ![h] = r]
    BY <1>9 DEF Risk!ApplyRead, Risk!Goto
  <2>2. riskCall[h].for \in Grounds BY <1>t, <2>1, RiskCallFields
  <2>3. T \in SUBSET Risk!Types /\ (score >= 80 => M \in T)
    BY <1>t, ThresholdsListed
  <2>4. r \in RiskCalls BY <1>t, <2>2, <2>3, RiskCallsListed
  <2>5. r.op = "restrict" /\ r.saw = score /\ r.todo = T OBVIOUS
  <2>6. ReviewKept(r, restriction'["MANUAL_REVIEW"])
    BY <2>3, <2>5 DEF ReviewKept, Due
  <2>. HIDE DEF r
  <2>. QED BY <1>8, <2>1, <2>4, <2>6
<1>10. ASSUME NEW h \in Hands, Risk!RestrictFind(h) PROVE RiskInductive'
  <2> DEFINE k == riskCall[h]
             t == Risk!Soonest(k.todo)
             r == [op |-> "upsert", for |-> k.for, saw |-> k.saw, lifted |-> k.lifted,
                   todo |-> k.todo, found |-> restriction[t] > 0]
  <2>1. k.op = "restrict" /\ Risk!Keep /\ riskCall' = [riskCall EXCEPT ![h] = r]
    BY <1>10 DEF Risk!RestrictFind, Risk!Goto
  <2>2. /\ k.for \in Grounds /\ k.saw \in Int
        /\ k.lifted \in SUBSET Risk!Types /\ k.todo \in SUBSET Risk!Types
    BY <1>t, <2>1, RiskCallFields
  <2>3. (restriction[t] > 0) \in BOOLEAN OBVIOUS
  <2>4. r \in RiskCalls BY <2>2, <2>3, RiskCallsListed
  <2>5. /\ r.op = "upsert" /\ r.saw = k.saw /\ r.lifted = k.lifted /\ r.todo = k.todo
        /\ r.found = (restriction[t] > 0)
    OBVIOUS
  <2>6. ReviewKept(k, restriction["MANUAL_REVIEW"]) /\ restriction' = restriction
    BY <2>1 DEF RiskInductive, Risk!Keep
  <2>. HIDE DEF r, k
  <2>7. ReviewKept(r, restriction'["MANUAL_REVIEW"])
    BY <2>1, <2>5, <2>6 DEF ReviewKept, Due
  <2>. QED BY <1>8, <2>1, <2>4, <2>7
<1>11. ASSUME NEW h \in Hands, Risk!RestrictWrite(h) PROVE RiskInductive'
  <2> DEFINE k == riskCall[h]
             t == Risk!Soonest(k.todo)
             r == [op |-> "restrict", for |-> k.for, saw |-> k.saw, lifted |-> k.lifted,
                   todo |-> k.todo \ {t}]
  <2>1. /\ k.op = "upsert" /\ riskCall' = [riskCall EXCEPT ![h] = r]
        /\ restriction' = IF k.found THEN restriction ELSE [restriction EXCEPT ![t] = @ + 1]
        /\ UNCHANGED <<score, level>>
    BY <1>11 DEF Risk!RestrictWrite, Risk!Goto
  <2>2. /\ k.for \in Grounds /\ k.saw \in Int
        /\ k.lifted \in SUBSET Risk!Types /\ k.todo \in SUBSET Risk!Types /\ k.found \in BOOLEAN
    BY <1>t, <2>1, RiskCallFields
  <2>3. r \in RiskCalls BY <2>2, RiskCallsListed
  <2>4. /\ r.op = "restrict" /\ r.saw = k.saw /\ r.lifted = k.lifted
        /\ r.todo = k.todo \ {t}
    OBVIOUS
  <2>5. ReviewKept(k, restriction["MANUAL_REVIEW"]) BY DEF RiskInductive
  <2>6. /\ restriction' \in [Risk!Types -> Nat]
        /\ restriction[M] > 0 => restriction'[M] > 0
        /\ ~k.found /\ t = M => restriction'[M] > 0
    <3>1. CASE k.found
      <4>1. restriction' = restriction BY <2>1, <3>1
      <4>. QED BY <1>t, <3>1, <4>1
    <3>2. CASE ~k.found
      <4>1. restriction' = [restriction EXCEPT ![t] = restriction[t] + 1]
        BY <2>1, <3>2
      <4>2. \A u \in Risk!Types :
                restriction'[u] = IF u = t THEN restriction[u] + 1 ELSE restriction[u]
        BY <1>t, <4>1
      <4>3. restriction' \in [Risk!Types -> Nat]
        <5>1. restriction' = [u \in Risk!Types |->
                                 IF u = t THEN restriction[u] + 1 ELSE restriction[u]]
          BY <1>t, <4>1
        <5>. HIDE DEF t
        <5>2. \A u \in Risk!Types : restriction[u] \in Nat /\ restriction[u] + 1 \in Nat
          BY <1>t
        <5>. QED BY <5>1, <5>2
      <4>. QED BY <1>t, <4>2, <4>3
    <3>. QED BY <3>1, <3>2
  <2>7. score' \in Int /\ Risk!LevelTrue' BY <1>t, <2>1 DEF Risk!LevelTrue
  <2>. HIDE DEF r, k
  <2>8. ReviewKept(r, restriction'["MANUAL_REVIEW"])
    BY <2>1, <2>4, <2>5, <2>6 DEF ReviewKept, Due
  <2>. QED BY <2>1, <2>3, <2>6, <2>7, <2>8, HandlerMoves
<1>12. ASSUME NEW h \in Hands, Risk!ReviewCheck(h) PROVE RiskInductive'
  <2> DEFINE k == riskCall[h]
  <2>1. k.op = "restrict" /\ k.todo = {} /\ Risk!Keep
    BY <1>12 DEF Risk!ReviewCheck
  <2>2. CASE k.for = "event"
    <3>1. riskCall' = [riskCall EXCEPT ![h] = Risk!Resting]
      BY <1>12, <2>2 DEF Risk!ReviewCheck, Risk!Finish, Risk!Goto
    <3>2. ReviewKept(Risk!Resting, restriction'["MANUAL_REVIEW"])
      BY <1>i, NothingDue
    <3>. QED BY <1>8, <1>i, <2>1, <3>1, <3>2
  <2>3. CASE k.for # "event"
    <3> DEFINE r == [op |-> "decided", saw |-> k.saw, lifted |-> k.lifted,
                     review |-> restriction["MANUAL_REVIEW"] > 0]
    <3>1. riskCall' = [riskCall EXCEPT ![h] = r]
      BY <1>12, <2>3 DEF Risk!ReviewCheck, Risk!Goto
    <3>2. k.saw \in Int /\ k.lifted \in SUBSET Risk!Types
      BY <1>t, <2>1, RiskCallFields
    <3>v. (restriction["MANUAL_REVIEW"] > 0) \in BOOLEAN OBVIOUS
    <3>3. r \in RiskCalls BY <3>2, <3>v, RiskCallsListed
    <3>4. /\ r.op = "decided" /\ r.saw = k.saw /\ r.lifted = k.lifted
          /\ r.review = (restriction[M] > 0)
      OBVIOUS
    <3>5. ReviewKept(k, restriction["MANUAL_REVIEW"]) BY DEF RiskInductive
    <3>. HIDE DEF r, k
    <3>6. ReviewKept(r, restriction'["MANUAL_REVIEW"])
      BY <2>1, <3>4, <3>5 DEF ReviewKept, Due
    <3>. QED BY <1>8, <2>1, <3>1, <3>3, <3>6
  <2>. QED BY <2>2, <2>3
<1>. QED
  BY <1>3, <1>4, <1>5, <1>6, <1>7, <1>9, <1>10, <1>11, <1>12 DEF Risk!Next, riskVars, Risk!riskVars

\* The level of risk on record is that of the score, whichever writer came last,
\* and a refund request that saw a score of 80 or more is marked for review,
\* unless an administrator lifts the restriction meanwhile: for any number of
\* handlers, incidents and amounts (PaymentRiskScoreService, RiskPolicyEnforcer).
THEOREM RiskPolicyHolds == Spec => []RiskPolicy
<1> DEFINE Ind == focus = "risk" => RiskInductive
<1>1. Init => Ind BY RiskInit DEF Init
<1>2. Ind /\ [Next]_everyVar => Ind' BY StepOfEach, RiskStep
<1>3. Ind => RiskPolicy
  <2>. SUFFICES ASSUME focus = "risk", RiskInductive PROVE Risk!RiskPolicy
    BY DEF RiskPolicy
  <2>1. Risk!RiskyReviewed
    BY ThresholdsListed DEF RiskInductive, Risk!RiskyReviewed, ReviewKept, Due
  <2>. QED BY <2>1 DEF RiskInductive, Risk!RiskPolicy
<1>. QED BY <1>1, <1>2, <1>3, PTL DEF Spec

-----------------------------------------------------------------------------
(* Payouts.                                                                *)

PayoutRows == [charges : SUBSET Cards, first : SUBSET Cards, age : Nat]

PayoutTypes ==
    /\ settlement \in [Cards -> {"NONE", "PENDING", "SETTLED"}]
    /\ handling \in [Cards -> SUBSET BOOLEAN]
    /\ payout \subseteq PayoutRows
    /\ failures \in Nat /\ failures <= MaxFailures
    /\ ~ran => syncing = {}
    /\ \A o \in payout : o.first \subseteq o.charges /\ o.age <= Window + 1

\* From the day after a payout on nobody adds a row for its charges.
RowsMade ==
    \A o \in payout : o.age > 0 =>
        \A p \in o.charges : p \notin confirmed /\ handling[p] = {}

\* Of the runs so far that listed a payout, each one that is over has failed for
\* the charge.
RunsOver(o, p) ==
    IF ran /\ p \notin syncing THEN (IF o.age <= Window THEN o.age ELSE Window) ELSE o.age - 1
EachRunFailed ==
    \A o \in payout : o.age > 0 =>
        \A p \in o.first : settlement[p] = "PENDING" => failures >= RunsOver(o, p)

PayoutInductive == PayoutTypes /\ RowsMade /\ EachRunFailed

LEMMA PayoutInit == Payouts!Init => PayoutInductive
<1>1. MaxFailures \in Nat
  BY BackOfficeAssumption DEF Payouts!SettlementAssumption
<1>. QED BY <1>1 DEF Payouts!Init, PayoutInductive, PayoutTypes, RowsMade, EachRunFailed

LEMMA PayoutStep == PayoutInductive /\ [Payouts!Next]_payoutsVars => PayoutInductive'
<1>. SUFFICES ASSUME PayoutInductive, [Payouts!Next]_payoutsVars PROVE PayoutInductive' OBVIOUS
<1>w. Window \in Nat /\ MaxFailures \in Nat
  BY BackOfficeAssumption DEF Payouts!SettlementAssumption
<1>t. PayoutTypes /\ RowsMade /\ EachRunFailed BY DEF PayoutInductive
<1>a. \A o \in payout : o \in PayoutRows /\ o.age \in Nat /\ o.first \subseteq o.charges
  BY <1>t DEF PayoutTypes, PayoutRows
<1>1. CASE UNCHANGED payoutsVars
  BY <1>1, <1>t DEF payoutsVars, PayoutInductive, PayoutTypes, RowsMade, EachRunFailed, RunsOver
<1>2. ASSUME NEW p \in Cards, Payouts!Confirmed(p) PROVE PayoutInductive'
  <2>1. /\ \A o \in payout : p \notin o.charges
        /\ confirmed' = confirmed \union {p}
        /\ UNCHANGED <<settlement, handling, payout, syncing, ran, failures>>
    BY <1>2 DEF Payouts!Confirmed, Payouts!PaidOut
  <2>. QED BY <1>t, <2>1 DEF PayoutInductive, PayoutTypes, RowsMade, EachRunFailed, RunsOver
<1>3. ASSUME NEW p \in Cards, Payouts!RecordFind(p) PROVE PayoutInductive'
  <2>1. /\ p \in confirmed /\ confirmed' = confirmed \ {p}
        /\ handling' = [handling EXCEPT ![p] = @ \union {settlement[p] # "NONE"}]
        /\ UNCHANGED <<settlement, payout, syncing, ran, failures>>
    BY <1>3 DEF Payouts!RecordFind
  <2>2. handling' \in [Cards -> SUBSET BOOLEAN] /\ \A q \in Cards \ {p} : handling'[q] = handling[q]
    BY <1>t, <2>1 DEF PayoutTypes
  <2>3. PayoutTypes' /\ EachRunFailed'
    BY <1>t, <2>1, <2>2 DEF PayoutTypes, EachRunFailed, RunsOver
  <2>4. RowsMade' BY <1>t, <1>a, <2>1, <2>2 DEF PayoutRows, RowsMade
  <2>. QED BY <2>3, <2>4 DEF PayoutInductive
<1>4. ASSUME NEW p \in Cards, Payouts!RecordCreate(p) PROVE PayoutInductive'
  <2>1. PICK found \in handling[p] :
            /\ settlement' = [settlement EXCEPT ![p] =
                   IF found \/ settlement[p] # "NONE" THEN settlement[p] ELSE "PENDING"]
            /\ handling' = [handling EXCEPT ![p] = handling[p] \ {found}]
            /\ UNCHANGED <<confirmed, payout, syncing, ran, failures>>
    BY <1>4 DEF Payouts!RecordCreate
  <2>2. /\ handling' \in [Cards -> SUBSET BOOLEAN]
        /\ \A q \in Cards : handling'[q] \subseteq handling[q]
    BY <1>t, <2>1 DEF PayoutTypes
  <2>3. /\ settlement' \in [Cards -> {"NONE", "PENDING", "SETTLED"}]
        /\ \A q \in Cards \ {p} : settlement'[q] = settlement[q]
    BY <1>t, <2>1 DEF PayoutTypes
  <2>4. \A o \in payout : o.age > 0 => p \notin o.charges
    BY <1>t, <2>1 DEF RowsMade
  <2>5. PayoutTypes' BY <1>t, <2>1, <2>2, <2>3 DEF PayoutTypes
  <2>6. RowsMade' BY <1>t, <1>a, <2>1, <2>2 DEF PayoutRows, RowsMade
  <2>7. EachRunFailed'
    BY <1>t, <1>a, <2>1, <2>3, <2>4 DEF PayoutRows, EachRunFailed, RunsOver
  <2>. QED BY <2>5, <2>6, <2>7 DEF PayoutInductive
<1>5. ASSUME NEW p \in Cards, Payouts!markSettled(p) PROVE PayoutInductive'
  <2>1. /\ p \in syncing /\ syncing' = syncing \ {p}
        /\ settlement' = [settlement EXCEPT ![p] =
               IF settlement[p] = "PENDING" THEN "SETTLED" ELSE settlement[p]]
        /\ UNCHANGED <<confirmed, handling, payout, ran, failures>>
    BY <1>5 DEF Payouts!markSettled
  <2>2. /\ settlement' \in [Cards -> {"NONE", "PENDING", "SETTLED"}]
        /\ \A q \in Cards \ {p} : settlement'[q] = settlement[q]
        /\ settlement'[p] # "PENDING"
    BY <1>t, <2>1 DEF PayoutTypes
  <2>3. PayoutTypes' /\ RowsMade' BY <1>t, <2>1, <2>2 DEF PayoutTypes, RowsMade
  <2>4. EachRunFailed'
    BY <1>t, <1>a, <2>1, <2>2 DEF PayoutRows, EachRunFailed, RunsOver
  <2>. QED BY <2>3, <2>4 DEF PayoutInductive
<1>6. ASSUME NEW C \in SUBSET Cards, NEW first \in SUBSET C, Payouts!PayOut(C, first)
      PROVE  PayoutInductive'
  <2> DEFINE n == [charges |-> C, first |-> first, age |-> 0]
  <2>1. /\ payout' = payout \union {n}
        /\ UNCHANGED <<settlement, confirmed, handling, syncing, ran, failures>>
    BY <1>6 DEF Payouts!PayOut
  <2>2. n \in PayoutRows /\ n.first \subseteq n.charges /\ n.age = 0
    BY DEF PayoutRows
  <2>. HIDE DEF n
  <2>3. PayoutTypes' BY <1>t, <1>w, <2>1, <2>2 DEF PayoutTypes
  <2>4. RowsMade' /\ EachRunFailed'
    BY <1>t, <2>1, <2>2 DEF RowsMade, EachRunFailed, RunsOver
  <2>. QED BY <2>3, <2>4 DEF PayoutInductive
<1>7. CASE Payouts!NextDay
  <2>1. /\ ran /\ syncing = {} /\ confirmed = {} /\ \A p \in Cards : handling[p] = {}
        /\ \A o \in payout : o.age <= Window
        /\ payout' = {[o EXCEPT !.age = o.age + 1] : o \in payout}
        /\ ran' = FALSE
        /\ UNCHANGED <<settlement, confirmed, handling, syncing, failures>>
    BY <1>7 DEF Payouts!NextDay
  <2>2. ASSUME NEW q \in payout'
        PROVE  \E o \in payout : /\ q \in PayoutRows /\ q.age = o.age + 1
                                 /\ q.first = o.first /\ q.charges = o.charges
    <3>1. PICK o \in payout : q = [o EXCEPT !.age = o.age + 1] BY <2>1
    <3>2. o \in PayoutRows BY <1>a
    <3>. QED BY <3>1, <3>2 DEF PayoutRows
  <2>3. PayoutTypes'
    <3>1. payout' \subseteq PayoutRows BY <2>2
    <3>2. \A q \in payout' : q.first \subseteq q.charges /\ q.age <= Window + 1
      BY <1>a, <1>w, <2>1, <2>2
    <3>. QED BY <1>t, <2>1, <3>1, <3>2 DEF PayoutTypes
  <2>4. RowsMade' BY <2>1, <2>2 DEF RowsMade, PayoutRows
  <2>5. EachRunFailed'
    <3>1. ASSUME NEW q \in payout', NEW p \in q.first, settlement[p] = "PENDING"
          PROVE  failures >= q.age - 1
      <4>1. PICK o \in payout : q.age = o.age + 1 /\ q.first = o.first BY <2>2
      <4>2. failures \in Nat BY <1>t DEF PayoutTypes
      <4>3. CASE o.age = 0 BY <4>1, <4>2, <4>3
      <4>4. CASE o.age > 0
        <5>1. failures >= RunsOver(o, p)
          BY <1>t, <3>1, <4>1, <4>4 DEF EachRunFailed
        <5>2. RunsOver(o, p) = o.age BY <2>1 DEF RunsOver
        <5>. QED BY <1>a, <4>1, <4>2, <5>1, <5>2
      <4>. QED BY <1>a, <4>3, <4>4
    <3>. QED BY <2>1, <3>1 DEF EachRunFailed, RunsOver
  <2>. QED BY <2>3, <2>4, <2>5 DEF PayoutInductive
<1>8. ASSUME Payouts!Crash \/ Payouts!SyncFails PROVE PayoutInductive'
  <2>1. /\ failures < MaxFailures /\ failures' = failures + 1
        /\ syncing' \subseteq syncing /\ confirmed' \subseteq confirmed
        /\ UNCHANGED <<settlement, payout, ran>>
    BY <1>8 DEF Payouts!Crash, Payouts!SyncFails
  <2>2. /\ handling' \in [Cards -> SUBSET BOOLEAN]
        /\ \A p \in Cards : handling[p] = {} => handling'[p] = {}
    BY <1>8, <1>t DEF Payouts!Crash, Payouts!SyncFails, PayoutTypes
  <2>3. failures \in Nat /\ failures' \in Nat /\ failures' <= MaxFailures
    BY <1>t, <1>w, <2>1 DEF PayoutTypes
  <2>4. PayoutTypes' BY <1>t, <2>1, <2>2, <2>3 DEF PayoutTypes
  <2>5. RowsMade' BY <1>t, <1>a, <2>1, <2>2 DEF PayoutRows, RowsMade
  <2>6. EachRunFailed'
    <3>1. ASSUME NEW o \in payout, o.age > 0, NEW p \in o.first, settlement[p] = "PENDING"
          PROVE  failures' >= RunsOver(o, p)'
      <4>1. failures >= RunsOver(o, p) BY <1>t, <3>1 DEF EachRunFailed
      <4>2. RunsOver(o, p)' <= RunsOver(o, p) + 1 /\ RunsOver(o, p) \in Int /\ RunsOver(o, p)' \in Int
        BY <1>a, <1>w, <1>t, <2>1, <3>1 DEF RunsOver, PayoutTypes
      <4>. QED BY <2>1, <2>3, <4>1, <4>2
    <3>. QED BY <2>1, <3>1 DEF EachRunFailed, RunsOver
  <2>. QED BY <2>4, <2>5, <2>6 DEF PayoutInductive
<1>9. CASE Payouts!SyncStart
  <2>1. /\ ~ran /\ ran' = TRUE /\ syncing' = Payouts!Recent
        /\ UNCHANGED <<settlement, confirmed, handling, payout, failures>>
    BY <1>9 DEF Payouts!SyncStart
  <2>2. PayoutTypes' /\ RowsMade' BY <1>t, <2>1 DEF PayoutTypes, RowsMade
  <2>3. EachRunFailed'
    <3>1. ASSUME NEW o \in payout, o.age > 0, NEW p \in o.first, settlement[p] = "PENDING"
          PROVE  failures >= RunsOver(o, p)'
      <4>1. failures >= o.age - 1 BY <1>t, <2>1, <3>1 DEF EachRunFailed, RunsOver
      <4>2. CASE o.age <= Window
        <5>1. p \in syncing' BY <2>1, <4>2 DEF Payouts!Recent
        <5>. QED BY <2>1, <4>1, <5>1 DEF RunsOver
      <4>3. CASE ~(o.age <= Window)
        <5>1. o.age = Window + 1 BY <1>a, <1>t, <1>w, <4>3 DEF PayoutTypes
        <5>2. o.age - 1 = Window BY <1>w, <5>1
        <5>. QED BY <2>1, <4>1, <4>3, <5>2 DEF RunsOver
      <4>. QED BY <4>2, <4>3
    <3>. QED BY <2>1, <3>1 DEF EachRunFailed, RunsOver
  <2>. QED BY <2>2, <2>3 DEF PayoutInductive
<1>. QED
  BY <1>1, <1>2, <1>3, <1>4, <1>5, <1>6, <1>7, <1>8, <1>9
  DEF Payouts!Next, payoutsVars, Payouts!settlementVars

\* A payout that the nightly job no longer lists has settled every charge on its
\* first page that has a row, for any window, page and number of charges and
\* whatever events and handlers overlap, as long as fewer runs fail than the
\* window has days (SettlementService, SettlementSyncJob).
THEOREM SettledBeforeWindowEnds == MaxFailures < Window => (Spec => []SettledInTime)
<1>. SUFFICES ASSUME MaxFailures < Window PROVE Spec => []SettledInTime OBVIOUS
<1> DEFINE Ind == focus = "payout" => PayoutInductive
<1>1. Init => Ind BY PayoutInit DEF Init
<1>2. Ind /\ [Next]_everyVar => Ind' BY StepOfEach, PayoutStep
<1>3. Ind => SettledInTime
  <2>. SUFFICES ASSUME PayoutInductive, NEW o \in payout, o.age > Window, NEW p \in o.first,
                       settlement[p] # "NONE"
                PROVE  settlement[p] = "SETTLED"
    BY DEF SettledInTime, Payouts!SettledInTime
  <2>1. Window \in Nat /\ MaxFailures \in Nat
    BY BackOfficeAssumption DEF Payouts!SettlementAssumption
  <2>2. o.age = Window + 1 /\ o.first \subseteq Cards /\ failures \in Nat /\ failures <= MaxFailures
    BY <2>1 DEF PayoutInductive, PayoutTypes, PayoutRows
  <2>3. RunsOver(o, p) = Window BY <2>1, <2>2 DEF RunsOver
  <2>4. settlement[p] = "PENDING" => failures >= Window
    BY <2>1, <2>2, <2>3 DEF PayoutInductive, EachRunFailed
  <2>5. settlement[p] # "PENDING" BY <2>1, <2>2, <2>4
  <2>. QED BY <2>2, <2>5 DEF PayoutInductive, PayoutTypes
<1>. QED BY <1>1, <1>2, <1>3, PTL DEF Spec

-----------------------------------------------------------------------------
(* Sign-in.                                                                *)

TokenRows == [family : Cards, status : {"ACTIVE", "REVOKED", "EXPIRED"}, version : Nat, since : Nat]

\* What is left of a chain of writes.
All == <<"revoke", "close", "token", "session">>
Revoked == <<"close", "token", "session">>
Closed == <<"token", "session">>
Made == <<"session">>
Parts == {All, Revoked, Closed, Made}
ReuseParts == {<<"tokens", "list", "sessions">>, <<"list", "sessions">>, <<"sessions">>}
RevokeParts == {<<"tokens", "sessions">>, <<"sessions", "tokens">>, <<"tokens">>, <<"sessions">>}

Issuing ==
    [op : {"issue"}, version : Nat, since : Nat, family : {"new"}, parts : {Closed, Made},
     made : Cards \union {"none"}]
Rotations ==
    [op : {"rotate"}, old : Cards, family : Cards, version : Nat, since : Nat, parts : Parts,
     made : Cards \union {"none"}]
Reuses == [op : {"reuse"}, family : Cards, todo : ReuseParts, scope : SUBSET Cards]
Revokings ==
    [op : {"revoke"}, scope : SUBSET Cards, activeOnly : BOOLEAN, todo : RevokeParts]
AuthRequests == {Auth!NoRequest} \union Issuing \union Rotations \union Reuses \union Revokings

AuthTypes ==
    /\ account \in [version : Nat, banned : BOOLEAN]
    /\ token \in [Cards -> TokenRows \union {Auth!NoToken}]
    /\ authRequest \in [Hands -> AuthRequests]
    /\ reported \subseteq Auth!Issued

\* A family is named by a token that was issued, and so was a token that is rotated.
Rooted ==
    /\ \A t \in Auth!Issued : token[t].family \in Auth!Issued
    /\ \A r \in Hands :
           authRequest[r].op \in {"rotate", "reuse"} => authRequest[r].family \in Auth!Issued
    /\ \A r \in Hands : authRequest[r].op = "rotate" => authRequest[r].old \in Auth!Issued

\* What is signed with the version in force goes back to a login with it.
Current(v, since, inForce) == v <= inForce /\ (v = inForce => since = v)
Versions ==
    /\ \A t \in Auth!Issued : Current(token[t].version, token[t].since, account.version)
    /\ \A r \in Hands :
           authRequest[r].op \in {"issue", "rotate"} =>
               Current(authRequest[r].version, authRequest[r].since, account.version)

\* Where the rotation of a family is, its active token is.
ActiveOf(f) == {t \in Auth!Family(f) : Auth!Active(t)}
FamilyKept(f) ==
    /\ \A t, u \in ActiveOf(f) : t = u
    /\ \A r, s \in Auth!Rotating(f) : r = s
    /\ \A r \in Auth!Rotating(f) :
           authRequest[r].op = "rotate" =>
               /\ f \notin reported
               /\ authRequest[r].parts = All => ActiveOf(f) \subseteq {authRequest[r].old}
               /\ authRequest[r].parts \in {Revoked, Closed} => ActiveOf(f) = {}
    /\ f \in reported => ActiveOf(f) = {}
Families == \A f \in Cards \ authLapped : FamilyKept(f)

AuthInductive == AuthTypes /\ Rooted /\ Versions /\ Families

LEMMA PartsListed ==
    /\ Head(All) = "revoke" /\ Tail(All) = Revoked
    /\ Head(Revoked) = "close" /\ Tail(Revoked) = Closed
    /\ Head(Closed) = "token" /\ Tail(Closed) = Made
    /\ Head(Made) = "session"
    /\ Closed # Made /\ All # Revoked /\ All # Closed /\ All # Made /\ Revoked # Made
    /\ Revoked # Closed
    /\ Tail(<<"tokens", "list", "sessions">>) = <<"list", "sessions">>
    /\ Tail(<<"list", "sessions">>) = <<"sessions">>
    /\ Head(<<"sessions">>) = "sessions" /\ Head(<<"list", "sessions">>) = "list"
    /\ Head(<<"tokens", "list", "sessions">>) = "tokens"
    /\ Tail(<<"tokens", "sessions">>) = <<"sessions">> /\ Tail(<<"sessions", "tokens">>) = <<"tokens">>
    /\ Len(<<"tokens">>) = 1 /\ Len(<<"sessions">>) = 1
  BY DEF All, Revoked, Closed, Made

LEMMA AuthInit == Auth!Init => AuthInductive
<1>. SUFFICES ASSUME Auth!Init PROVE AuthInductive OBVIOUS
<1>1. Auth!Issued = {} BY DEF Auth!Init, Auth!Issued
<1>2. AuthTypes BY <1>1 DEF Auth!Init, AuthTypes, AuthRequests
<1>3. \A r \in Hands : authRequest[r].op = "idle"
  BY DEF Auth!Init, Auth!NoRequest
<1>4. Rooted /\ Versions BY <1>1, <1>3 DEF Rooted, Versions
<1>5. Families
  BY <1>1, <1>3 DEF Families, FamilyKept, ActiveOf, Auth!Family, Auth!Rotating
<1>. QED BY <1>2, <1>4, <1>5 DEF AuthInductive

\* What a request is about.
LEMMA AuthFields ==
    ASSUME NEW c \in AuthRequests
    PROVE  /\ c.op \in {"idle", "issue", "rotate", "reuse", "revoke"}
           /\ c.op = "idle" => c = Auth!NoRequest
           /\ c.op = "issue" => c \in Issuing
           /\ c.op = "rotate" => c \in Rotations
           /\ c.op = "reuse" => c \in Reuses
           /\ c.op = "revoke" => c \in Revokings
  BY DEF AuthRequests, Issuing, Rotations, Reuses, Revokings, Auth!NoRequest

\* One request moves on.
LEMMA RequestMoves ==
    ASSUME AuthInductive, NEW r \in Hands, NEW d \in AuthRequests,
           authRequest' = [authRequest EXCEPT ![r] = d],
           account' \in [version : Nat, banned : BOOLEAN], account.version <= account'.version,
           token' \in [Cards -> TokenRows \union {Auth!NoToken}],
           \A t \in Auth!Issued :
               /\ t \in Auth!Issued' /\ token'[t].family = token[t].family
               /\ token'[t].version = token[t].version /\ token'[t].since = token[t].since,
           \A t \in Auth!Issued' \ Auth!Issued :
               /\ token'[t].family \in Auth!Issued'
               /\ Current(token'[t].version, token'[t].since, account'.version),
           reported' \subseteq Auth!Issued',
           d.op \in {"rotate", "reuse"} => d.family \in Auth!Issued',
           d.op = "rotate" => d.old \in Auth!Issued',
           d.op \in {"issue", "rotate"} => Current(d.version, d.since, account'.version),
           Families'
    PROVE  AuthInductive'
<1>1. authRequest'[r] = d /\ \A x \in Hands \ {r} : authRequest'[x] = authRequest[x]
  BY DEF AuthInductive, AuthTypes
<1>2. AuthTypes' BY DEF AuthInductive, AuthTypes
<1>3. Rooted' BY <1>1 DEF AuthInductive, Rooted
<1>4. Versions'
  <2>1. account.version \in Nat /\ account'.version \in Nat
    BY DEF AuthInductive, AuthTypes
  <2>2. \A v, s : v \in Nat /\ Current(v, s, account.version) => Current(v, s, account'.version)
    BY <2>1 DEF Current
  <2>3. ASSUME NEW t \in Auth!Issued
        PROVE  Current(token'[t].version, token'[t].since, account'.version)
    <3>1. token[t] \in TokenRows BY DEF AuthInductive, AuthTypes, Auth!Issued
    <3>2. token[t].version \in Nat BY <3>1 DEF TokenRows
    <3>. QED BY <2>2, <3>2 DEF AuthInductive, Versions
  <2>4. ASSUME NEW x \in Hands \ {r}, authRequest[x].op \in {"issue", "rotate"}
        PROVE  Current(authRequest[x].version, authRequest[x].since, account'.version)
    <3>1. authRequest[x] \in Issuing \union Rotations
      BY <2>4, AuthFields DEF AuthInductive, AuthTypes
    <3>2. authRequest[x].version \in Nat BY <3>1 DEF Issuing, Rotations
    <3>. QED BY <2>2, <2>4, <3>2 DEF AuthInductive, Versions
  <2>. QED BY <1>1, <2>3, <2>4 DEF Versions
<1>. QED BY <1>2, <1>3, <1>4 DEF AuthInductive

\* No token becomes active and no rotation starts.
LEMMA FamiliesStay ==
    ASSUME AuthInductive,
           \A f \in Cards : ActiveOf(f)' \subseteq ActiveOf(f),
           \A x \in Hands :
               authRequest'[x].op \in {"rotate", "reuse"} =>
                   /\ authRequest[x].op = authRequest'[x].op
                   /\ authRequest[x].family = authRequest'[x].family
                   /\ authRequest[x].op = "rotate" =>
                          /\ authRequest[x].old = authRequest'[x].old
                          /\ \/ authRequest'[x].parts = authRequest[x].parts
                             \/ authRequest'[x].parts = Made
                             \/ authRequest[x].parts = Revoked /\ authRequest'[x].parts = Closed,
           reported' = reported, authLapped' = authLapped
    PROVE  Families'
<1>. SUFFICES ASSUME NEW f \in Cards \ authLapped PROVE FamilyKept(f)'
  BY DEF Families
<1>1. FamilyKept(f) /\ ActiveOf(f)' \subseteq ActiveOf(f)
  BY DEF AuthInductive, Families
<1>2. Auth!Rotating(f)' \subseteq Auth!Rotating(f) BY DEF Auth!Rotating
<1>3. ASSUME NEW x \in Auth!Rotating(f)', authRequest'[x].op = "rotate"
      PROVE  /\ f \notin reported'
             /\ authRequest'[x].parts = All => ActiveOf(f)' \subseteq {authRequest'[x].old}
             /\ authRequest'[x].parts \in {Revoked, Closed} => ActiveOf(f)' = {}
  <2>1. x \in Hands /\ x \in Auth!Rotating(f) /\ authRequest[x].op = "rotate"
    BY <1>2, <1>3 DEF Auth!Rotating
  <2>2. /\ f \notin reported
        /\ authRequest[x].parts = All => ActiveOf(f) \subseteq {authRequest[x].old}
        /\ authRequest[x].parts \in {Revoked, Closed} => ActiveOf(f) = {}
    BY <1>1, <2>1 DEF FamilyKept
  <2>. QED BY <1>1, <1>3, <2>1, <2>2, PartsListed
<1>. QED BY <1>1, <1>2, <1>3 DEF FamilyKept

\* Tokens are revoked or expire.
LEMMA TokensShut ==
    ASSUME AuthTypes, NEW S \in SUBSET Auth!Issued, NEW s \in {"REVOKED", "EXPIRED"},
           Auth!SetToken(S, s)
    PROVE  /\ token' \in [Cards -> TokenRows \union {Auth!NoToken}]
           /\ Auth!Issued' = Auth!Issued
           /\ \A t \in Auth!Issued :
                  /\ token'[t].family = token[t].family
                  /\ token'[t].version = token[t].version /\ token'[t].since = token[t].since
           /\ \A f \in Cards : ActiveOf(f)' = ActiveOf(f) \ S
<1>1. \A t \in Cards : token'[t] = IF t \in S THEN [token[t] EXCEPT !.status = s] ELSE token[t]
  BY DEF Auth!SetToken
<1>2. \A t \in Auth!Issued : t \in Cards /\ token[t] \in TokenRows
  BY DEF AuthTypes, Auth!Issued
<1>3. ASSUME NEW t \in S
      PROVE  /\ token'[t] \in TokenRows /\ token'[t].status = s
             /\ token'[t].family = token[t].family
             /\ token'[t].version = token[t].version /\ token'[t].since = token[t].since
  BY <1>1, <1>2 DEF TokenRows
<1>4. \A x \in TokenRows : x # Auth!NoToken BY DEF TokenRows, Auth!NoToken
<1>5. token' \in [Cards -> TokenRows \union {Auth!NoToken}]
  <2>1. \A t \in Cards : token'[t] \in TokenRows \union {Auth!NoToken}
    BY <1>1, <1>3 DEF AuthTypes
  <2>. QED BY <2>1 DEF Auth!SetToken
<1>6. Auth!Issued' = Auth!Issued BY <1>1, <1>2, <1>3, <1>4 DEF Auth!Issued
<1>7. \A t \in Auth!Issued :
          /\ token'[t].family = token[t].family
          /\ token'[t].version = token[t].version /\ token'[t].since = token[t].since
  BY <1>1, <1>2, <1>3
<1>8. \A t \in Auth!Issued :
          (token'[t].status = "ACTIVE") <=> (token[t].status = "ACTIVE" /\ t \notin S)
  BY <1>1, <1>2, <1>3
<1>9. ASSUME NEW f \in Cards PROVE ActiveOf(f)' = ActiveOf(f) \ S
  BY <1>6, <1>7, <1>8 DEF ActiveOf, Auth!Family, Auth!Active
<1>. QED BY <1>5, <1>6, <1>7, <1>9

\* The steps that make no token and start no rotation.
LEMMA RequestTurns ==
    ASSUME AuthInductive, NEW r \in Hands, NEW d \in AuthRequests,
           authRequest' = [authRequest EXCEPT ![r] = d],
           account' \in [version : Nat, banned : BOOLEAN], account.version <= account'.version,
           NEW S \in SUBSET Auth!Issued,
           token' = token \/ Auth!SetToken(S, "REVOKED"),
           reported' = reported, authLapped' = authLapped,
           d.op \in {"rotate", "reuse"} =>
               /\ authRequest[r].op = d.op /\ authRequest[r].family = d.family
               /\ d.op = "rotate" =>
                      /\ authRequest[r].old = d.old
                      /\ \/ d.parts = authRequest[r].parts
                         \/ d.parts = Made
                         \/ authRequest[r].parts = Revoked /\ d.parts = Closed,
           d.op \in {"issue", "rotate"} => Current(d.version, d.since, account'.version)
    PROVE  AuthInductive'
<1>t. AuthTypes BY DEF AuthInductive
<1>1. /\ token' \in [Cards -> TokenRows \union {Auth!NoToken}]
      /\ Auth!Issued' = Auth!Issued
      /\ \A t \in Auth!Issued :
             /\ token'[t].family = token[t].family
             /\ token'[t].version = token[t].version /\ token'[t].since = token[t].since
      /\ \A f \in Cards : ActiveOf(f)' \subseteq ActiveOf(f)
  <2>1. CASE token' = token
    BY <1>t, <2>1 DEF AuthTypes, Auth!Issued, ActiveOf, Auth!Family, Auth!Active
  <2>2. CASE Auth!SetToken(S, "REVOKED") BY <1>t, <2>2, TokensShut
  <2>. QED BY <2>1, <2>2
<1>2. authRequest'[r] = d /\ \A x \in Hands \ {r} : authRequest'[x] = authRequest[x]
  BY <1>t DEF AuthTypes
<1>3. Families' BY <1>1, <1>2, FamiliesStay
<1>4. /\ d.op \in {"rotate", "reuse"} => d.family \in Auth!Issued
      /\ d.op = "rotate" => d.old \in Auth!Issued
  BY DEF AuthInductive, Rooted
<1>5. reported' \subseteq Auth!Issued' BY <1>1, <1>t DEF AuthTypes
<1>. QED BY <1>1, <1>3, <1>4, <1>5, RequestMoves

\* A rotation, or the revocation of a family, starts.
LEMMA RotationStarts ==
    ASSUME AuthInductive, NEW r \in Hands, NEW d \in AuthRequests, NEW t \in Auth!Issued,
           authRequest[r] = Auth!NoRequest, authRequest' = [authRequest EXCEPT ![r] = d],
           d.op \in {"rotate", "reuse"}, d.family = token[t].family,
           d.op = "rotate" =>
               /\ Auth!Active(t) /\ d.old = t /\ d.parts = All
               /\ Current(d.version, d.since, account.version),
           Auth!Note(token[t].family), UNCHANGED <<account, token, reported>>
    PROVE  AuthInductive'
<1>t. AuthTypes BY DEF AuthInductive
<1> DEFINE g == token[t].family
<1>1. authRequest'[r] = d /\ \A x \in Hands \ {r} : authRequest'[x] = authRequest[x]
  BY <1>t DEF AuthTypes
<1>2. g \in Auth!Issued /\ Auth!Issued' = Auth!Issued
  BY DEF AuthInductive, Rooted, Auth!Issued
<1>3. \A f \in Cards : ActiveOf(f)' = ActiveOf(f)
  BY DEF ActiveOf, Auth!Family, Auth!Active, Auth!Issued
<1>4. authRequest[r].op = "idle" BY DEF Auth!NoRequest
<1>5. \A f \in Cards : Auth!Rotating(f)' \ {r} = Auth!Rotating(f)
  BY <1>1, <1>4 DEF Auth!Rotating
<1>6. ASSUME NEW f \in Cards, f \notin authLapped' PROVE FamilyKept(f)'
  <2>1. f \notin authLapped BY <1>6 DEF Auth!Note
  <2>2. FamilyKept(f) BY <2>1 DEF AuthInductive, Families
  <2>3. CASE f # g
    <3>1. Auth!Rotating(f)' = Auth!Rotating(f)
      BY <1>1, <1>5, <2>3 DEF Auth!Rotating
    <3>2. \A x \in Auth!Rotating(f) : authRequest'[x] = authRequest[x]
      BY <1>1, <1>4 DEF Auth!Rotating
    <3>. QED BY <1>3, <2>2, <3>1, <3>2 DEF FamilyKept
  <2>4. CASE f = g
    <3>1. Auth!Rotating(f) = {} BY <1>6, <2>4 DEF Auth!Note
    <3>2. Auth!Rotating(f)' \subseteq {r} BY <1>5, <3>1
    <3>3. d.op = "rotate" => t \in ActiveOf(f) BY <2>4 DEF ActiveOf, Auth!Family
    <3>4. d.op = "rotate" => ActiveOf(f) \subseteq {t} /\ f \notin reported
      BY <2>2, <3>3 DEF FamilyKept
    <3>5. \A x \in Auth!Rotating(f)' :
              authRequest'[x].op = "rotate" =>
                  /\ f \notin reported'
                  /\ authRequest'[x].parts = All /\ ActiveOf(f)' \subseteq {authRequest'[x].old}
      BY <1>1, <1>3, <3>2, <3>4
    <3>. QED BY <1>3, <2>2, <3>2, <3>5, PartsListed DEF FamilyKept
  <2>. QED BY <2>3, <2>4
<1>7. Families' BY <1>6 DEF Families
<1>8. /\ account' \in [version : Nat, banned : BOOLEAN] /\ account.version <= account'.version
      /\ token' \in [Cards -> TokenRows \union {Auth!NoToken}] /\ reported' \subseteq Auth!Issued'
  BY <1>2, <1>t DEF AuthTypes
<1>. QED BY <1>2, <1>7, <1>8, RequestMoves

\* The records a request goes through.
LEMMA NextRotation ==
    ASSUME NEW c \in Rotations, NEW q \in Parts
    PROVE  /\ [c EXCEPT !.parts = q] \in Rotations
           /\ [c EXCEPT !.parts = q].parts = q /\ [c EXCEPT !.parts = q].op = "rotate"
           /\ [c EXCEPT !.parts = q].old = c.old /\ [c EXCEPT !.parts = q].family = c.family
           /\ [c EXCEPT !.parts = q].version = c.version /\ [c EXCEPT !.parts = q].since = c.since
  BY DEF Rotations

LEMMA RotationMade ==
    ASSUME NEW c \in Rotations, NEW m \in Cards
    PROVE  /\ [c EXCEPT !.made = m, !.parts = Made] \in Rotations
           /\ [c EXCEPT !.made = m, !.parts = Made].parts = Made
           /\ [c EXCEPT !.made = m, !.parts = Made].op = "rotate"
           /\ [c EXCEPT !.made = m, !.parts = Made].family = c.family
           /\ [c EXCEPT !.made = m, !.parts = Made].old = c.old
           /\ [c EXCEPT !.made = m, !.parts = Made].version = c.version
           /\ [c EXCEPT !.made = m, !.parts = Made].since = c.since
  BY DEF Rotations, Parts

LEMMA NextIssue ==
    ASSUME NEW c \in Issuing, NEW m \in Cards
    PROVE  /\ [c EXCEPT !.made = m, !.parts = Made] \in Issuing
           /\ [c EXCEPT !.made = m, !.parts = Made].op = "issue"
           /\ [c EXCEPT !.made = m, !.parts = Made].version = c.version
           /\ [c EXCEPT !.made = m, !.parts = Made].since = c.since
  BY DEF Issuing

LEMMA NextReuse ==
    ASSUME NEW c \in Reuses, NEW q \in ReuseParts, NEW S \in SUBSET Cards
    PROVE  /\ [c EXCEPT !.todo = q] \in Reuses /\ [c EXCEPT !.todo = q].op = "reuse"
           /\ [c EXCEPT !.todo = q].family = c.family
           /\ [c EXCEPT !.scope = S, !.todo = q] \in Reuses
           /\ [c EXCEPT !.scope = S, !.todo = q].op = "reuse"
           /\ [c EXCEPT !.scope = S, !.todo = q].family = c.family
  BY DEF Reuses

\* A login, or a rotation, makes its token.
LEMMA TokenMade ==
    ASSUME AuthInductive, NEW r \in Hands, Auth!CreateToken(r)
    PROVE  AuthInductive'
<1> DEFINE c == authRequest[r]
<1>t. AuthTypes BY DEF AuthInductive
<1>1. /\ c.op \in {"issue", "rotate"} /\ c.parts # <<>> /\ Head(c.parts) = "token"
      /\ UNCHANGED <<account, authLapped, reported>>
  BY DEF Auth!CreateToken
<1> DEFINE g(t) == IF c.family = "new" THEN t ELSE c.family
           row(t) == [family |-> g(t), status |-> "ACTIVE", version |-> c.version,
                      since |-> c.since]
<1>2. PICK t \in Cards \ Auth!Issued :
          /\ token' = [token EXCEPT ![t] = row(t)]
          /\ authRequest' = [authRequest EXCEPT ![r] = [c EXCEPT !.made = t, !.parts = Tail(c.parts)]]
  BY DEF Auth!CreateToken, Auth!Continue
<1>3. c \in Issuing \union Rotations BY <1>1, <1>t, AuthFields DEF AuthTypes
<1>4. c.parts = Closed /\ Tail(c.parts) = Made
  BY <1>1, <1>3, PartsListed DEF Issuing, Rotations, Parts
<1> DEFINE d == [c EXCEPT !.made = t, !.parts = Made]
<1>5. /\ d \in AuthRequests /\ d.op = c.op /\ d.version = c.version /\ d.since = c.since
      /\ d.op = "rotate" => d.parts = Made /\ d.family = c.family /\ d.old = c.old
  <2>1. CASE c \in Issuing
    <3>1. c.op = "issue" BY <2>1 DEF Issuing
    <3>. QED BY <2>1, <3>1, NextIssue DEF AuthRequests
  <2>2. CASE c \in Rotations
    <3>1. c.op = "rotate" /\ Made \in Parts BY <2>2 DEF Rotations, Parts
    <3>2. /\ d \in Rotations /\ d.op = "rotate" /\ d.version = c.version /\ d.since = c.since
          /\ d.parts = Made /\ d.family = c.family /\ d.old = c.old
      BY <2>2, <3>1, RotationMade
    <3>. HIDE DEF d
    <3>. QED BY <3>1, <3>2 DEF AuthRequests
  <2>. QED BY <1>3, <2>1, <2>2
<1>6. authRequest' = [authRequest EXCEPT ![r] = d] BY <1>2, <1>4
<1>7. c.version \in Nat /\ c.since \in Nat /\ Current(c.version, c.since, account.version)
  BY <1>1, <1>3 DEF Issuing, Rotations, AuthInductive, Versions
<1>8. g(t) \in Auth!Issued \union {t} /\ (g(t) # t => c.op = "rotate" /\ c.family = g(t))
  <2>1. CASE c.family = "new" BY <2>1
  <2>2. CASE c.family # "new"
    <3>1. c.op = "rotate" BY <1>3, <2>2 DEF Issuing, Rotations
    <3>. QED BY <2>2, <3>1 DEF AuthInductive, Rooted
  <2>. QED BY <2>1, <2>2
<1>. HIDE DEF d, c, g
<1>9. /\ authRequest'[r] = d /\ \A x \in Hands \ {r} : authRequest'[x] = authRequest[x]
      /\ token'[t] = row(t) /\ \A u \in Cards \ {t} : token'[u] = token[u]
  BY <1>2, <1>6, <1>t DEF AuthTypes
<1>10. row(t) \in TokenRows /\ row(t) # Auth!NoToken
  <2>1. g(t) \in Cards BY <1>8 DEF Auth!Issued
  <2>2. row(t) \in TokenRows BY <1>7, <2>1 DEF TokenRows
  <2>3. row(t).status # Auth!NoToken.status BY DEF Auth!NoToken
  <2>. QED BY <2>2, <2>3
<1>11. Auth!Issued' = Auth!Issued \union {t} BY <1>9, <1>10 DEF Auth!Issued
<1>12. token' \in [Cards -> TokenRows \union {Auth!NoToken}]
  BY <1>2, <1>10, <1>t DEF AuthTypes
<1>13. row(t).family = g(t) /\ row(t).version = c.version /\ row(t).since = c.since OBVIOUS
<1>14. ASSUME NEW f \in Cards
       PROVE  ActiveOf(f)' \subseteq ActiveOf(f) \union {t} /\ (f # g(t) => ActiveOf(f)' = ActiveOf(f))
  <2>1. \A u \in Auth!Issued : u # t /\ u \in Cards /\ token'[u] = token[u]
    BY <1>2, <1>9 DEF Auth!Issued
  <2>2. token'[t].family = g(t) BY <1>9, <1>13
  <2>. QED BY <1>11, <2>1, <2>2 DEF ActiveOf, Auth!Family, Auth!Active
<1>15. ASSUME NEW f \in Cards, f \notin authLapped PROVE FamilyKept(f)'
  <2>1. FamilyKept(f) BY <1>15 DEF AuthInductive, Families
  <2>2. Auth!Rotating(f)' \subseteq Auth!Rotating(f)
    BY <1>1, <1>5, <1>9 DEF Auth!Rotating, c
  <2>3. \A x \in Hands : authRequest'[x].op = "rotate" =>
            \/ authRequest'[x] = authRequest[x]
            \/ x = r /\ authRequest'[x].parts = Made
    BY <1>5, <1>9
  <2>4. CASE f # g(t)
    <3>1. ActiveOf(f)' = ActiveOf(f) /\ reported' = reported BY <1>1, <1>14, <2>4
    <3>2. \A x, y \in Auth!Rotating(f)' : x = y BY <2>1, <2>2 DEF FamilyKept
    <3>3. ASSUME NEW x \in Auth!Rotating(f)', authRequest'[x].op = "rotate",
                 authRequest'[x].parts # Made
          PROVE  /\ f \notin reported
                 /\ authRequest'[x].parts = All => ActiveOf(f) \subseteq {authRequest'[x].old}
                 /\ authRequest'[x].parts \in {Revoked, Closed} => ActiveOf(f) = {}
      <4>1. x \in Auth!Rotating(f) /\ authRequest'[x] = authRequest[x]
        BY <2>2, <2>3, <3>3 DEF Auth!Rotating
      <4>. QED BY <2>1, <3>3, <4>1 DEF FamilyKept
    <3>4. ASSUME NEW x \in Auth!Rotating(f)', authRequest'[x].op = "rotate"
          PROVE  f \notin reported
      <4>1. x \in Auth!Rotating(f) /\ x \in Hands BY <2>2 DEF Auth!Rotating
      <4>2. authRequest[x].op = "rotate" BY <1>5, <1>9, <3>4, <4>1 DEF c
      <4>. QED BY <2>1, <4>1, <4>2 DEF FamilyKept
    <3>. QED BY <2>1, <3>1, <3>2, <3>3, <3>4, PartsListed DEF FamilyKept
  <2>5. CASE f = g(t) /\ g(t) # t
    <3>1. c.op = "rotate" /\ r \in Auth!Rotating(f)
      BY <1>8, <2>5 DEF Auth!Rotating, c
    <3>2. ActiveOf(f) = {} /\ f \notin reported
      BY <1>4, <2>1, <3>1 DEF FamilyKept, c
    <3>3. Auth!Rotating(f)' \subseteq {r} BY <2>1, <2>2, <3>1 DEF FamilyKept
    <3>4. ActiveOf(f)' \subseteq {t} BY <1>14, <3>2
    <3>5. \A x \in Auth!Rotating(f)' : authRequest'[x].op = "rotate" => authRequest'[x].parts = Made
      BY <1>5, <1>9, <3>3
    <3>. QED BY <1>1, <3>2, <3>3, <3>4, <3>5, PartsListed DEF FamilyKept
  <2>6. CASE f = g(t) /\ g(t) = t
    <3>1. \A x \in Hands : authRequest[x].op \in {"rotate", "reuse"} => authRequest[x].family # f
      BY <1>2, <2>6 DEF AuthInductive, Rooted
    <3>2. Auth!Rotating(f)' = {} BY <2>2, <3>1 DEF Auth!Rotating
    <3>3. ActiveOf(f) = {}
      BY <1>2, <2>6 DEF AuthInductive, Rooted, ActiveOf, Auth!Family
    <3>4. f \notin reported BY <1>2, <1>t, <2>6 DEF AuthTypes
    <3>. QED BY <1>1, <1>14, <3>2, <3>3, <3>4 DEF FamilyKept
  <2>. QED BY <2>4, <2>5, <2>6
<1>16. Families' BY <1>1, <1>15 DEF Families
<1>17. account' \in [version : Nat, banned : BOOLEAN] /\ account.version <= account'.version
       /\ reported' \subseteq Auth!Issued'
  BY <1>1, <1>11, <1>t DEF AuthTypes
<1>18. \A u \in Auth!Issued :
           /\ u \in Auth!Issued' /\ token'[u].family = token[u].family
           /\ token'[u].version = token[u].version /\ token'[u].since = token[u].since
  BY <1>2, <1>9, <1>11 DEF Auth!Issued
<1>19. \A u \in Auth!Issued' \ Auth!Issued :
           /\ token'[u].family \in Auth!Issued'
           /\ Current(token'[u].version, token'[u].since, account'.version)
  BY <1>1, <1>7, <1>8, <1>9, <1>11, <1>13
<1>20. /\ d.op \in {"rotate", "reuse"} => d.family \in Auth!Issued'
       /\ d.op = "rotate" => d.old \in Auth!Issued'
       /\ d.op \in {"issue", "rotate"} => Current(d.version, d.since, account'.version)
  <2>1. c.op = "rotate" => c.family \in Auth!Issued /\ c.old \in Auth!Issued
    BY DEF AuthInductive, Rooted, c
  <2>. QED BY <1>1, <1>5, <1>7, <1>11, <2>1
<1>. QED BY <1>5, <1>6, <1>12, <1>16, <1>17, <1>18, <1>19, <1>20, RequestMoves

\* A step that leaves the requests as they are, and every token unless it shuts one.
LEMMA RequestsStay ==
    ASSUME AuthInductive, UNCHANGED <<authRequest, authLapped, reported>>,
           account' \in [version : Nat, banned : BOOLEAN], account'.version = account.version,
           NEW S \in SUBSET Auth!Issued,
           token' = token \/ Auth!SetToken(S, "EXPIRED")
    PROVE  AuthInductive'
<1>t. AuthTypes BY DEF AuthInductive
<1>1. /\ token' \in [Cards -> TokenRows \union {Auth!NoToken}]
      /\ Auth!Issued' = Auth!Issued
      /\ \A t \in Auth!Issued :
             /\ token'[t].family = token[t].family
             /\ token'[t].version = token[t].version /\ token'[t].since = token[t].since
      /\ \A f \in Cards : ActiveOf(f)' \subseteq ActiveOf(f)
  <2>1. CASE token' = token
    BY <1>t, <2>1 DEF AuthTypes, Auth!Issued, ActiveOf, Auth!Family, Auth!Active
  <2>2. CASE Auth!SetToken(S, "EXPIRED") BY <1>t, <2>2, TokensShut
  <2>. QED BY <2>1, <2>2
<1>2. Families' BY <1>1, FamiliesStay
<1>3. AuthTypes' BY <1>1, <1>t DEF AuthTypes
<1>4. Rooted' /\ Versions' BY <1>1 DEF AuthInductive, Rooted, Versions
<1>. QED BY <1>2, <1>3, <1>4 DEF AuthInductive

\* The old token of a rotation is revoked: its family is left with no active one.
LEMMA OldRevoked ==
    ASSUME AuthInductive, NEW r \in Hands, Auth!RotateRevoke(r)
    PROVE  AuthInductive'
<1> DEFINE c == authRequest[r]
           d == [c EXCEPT !.parts = Revoked]
<1>t. AuthTypes BY DEF AuthInductive
<1>1. /\ c.op = "rotate" /\ c.parts # <<>> /\ Head(c.parts) = "revoke"
      /\ Auth!SetToken({c.old}, "REVOKED")
      /\ authRequest' = [authRequest EXCEPT ![r] = [c EXCEPT !.parts = Tail(c.parts)]]
      /\ UNCHANGED <<account, authLapped, reported>>
  BY DEF Auth!RotateRevoke, Auth!Continue
<1>2. c \in Rotations BY <1>1, <1>t, AuthFields DEF AuthTypes
<1>3. c.parts = All /\ Tail(c.parts) = Revoked
  BY <1>1, <1>2, PartsListed DEF Rotations, Parts
<1>4. /\ d \in Rotations /\ d.op = "rotate" /\ d.parts = Revoked /\ d.old = c.old
      /\ d.family = c.family /\ d.version = c.version /\ d.since = c.since
  BY <1>2, NextRotation DEF Parts
<1>5. authRequest' = [authRequest EXCEPT ![r] = d] BY <1>1, <1>3
<1>6. c.old \in Auth!Issued /\ c.family \in Auth!Issued
  BY <1>1 DEF AuthInductive, Rooted
<1>7. Current(c.version, c.since, account.version)
  BY <1>1 DEF AuthInductive, Versions
<1>. HIDE DEF d
<1>8. d \in AuthRequests BY <1>4 DEF AuthRequests
<1>9. authRequest'[r] = d /\ \A x \in Hands \ {r} : authRequest'[x] = authRequest[x]
  BY <1>5, <1>t DEF AuthTypes
<1>10. /\ token' \in [Cards -> TokenRows \union {Auth!NoToken}]
       /\ Auth!Issued' = Auth!Issued
       /\ \A t \in Auth!Issued :
              /\ token'[t].family = token[t].family
              /\ token'[t].version = token[t].version /\ token'[t].since = token[t].since
       /\ \A f \in Cards : ActiveOf(f)' = ActiveOf(f) \ {c.old}
  BY <1>1, <1>6, <1>t, TokensShut
<1>11. ASSUME NEW f \in Cards, f \notin authLapped PROVE FamilyKept(f)'
  <2>1. FamilyKept(f) BY <1>11 DEF AuthInductive, Families
  <2>2. Auth!Rotating(f)' \subseteq Auth!Rotating(f)
    BY <1>1, <1>4, <1>9 DEF Auth!Rotating
  <2>3. reported' = reported /\ ActiveOf(f)' \subseteq ActiveOf(f) BY <1>1, <1>10
  <2>4. \A x, y \in Auth!Rotating(f)' : x = y BY <2>1, <2>2 DEF FamilyKept
  <2>5. ASSUME NEW x \in Auth!Rotating(f)', authRequest'[x].op = "rotate"
        PROVE  /\ f \notin reported'
               /\ authRequest'[x].parts = All => ActiveOf(f)' \subseteq {authRequest'[x].old}
               /\ authRequest'[x].parts \in {Revoked, Closed} => ActiveOf(f)' = {}
    <3>1. x \in Hands /\ x \in Auth!Rotating(f) BY <2>2 DEF Auth!Rotating
    <3>2. CASE x = r
      <4>1. f \notin reported /\ ActiveOf(f) \subseteq {c.old}
        BY <1>1, <1>3, <2>1, <3>1, <3>2 DEF FamilyKept
      <4>2. ActiveOf(f)' = {} BY <1>10, <4>1
      <4>. QED BY <2>3, <4>1, <4>2
    <3>3. CASE x # r
      <4>1. authRequest'[x] = authRequest[x] BY <1>9, <3>1, <3>3
      <4>2. /\ f \notin reported
            /\ authRequest[x].parts = All => ActiveOf(f) \subseteq {authRequest[x].old}
            /\ authRequest[x].parts \in {Revoked, Closed} => ActiveOf(f) = {}
        BY <2>1, <2>5, <3>1, <4>1 DEF FamilyKept
      <4>. QED BY <2>3, <4>1, <4>2
    <3>. QED BY <3>2, <3>3
  <2>. QED BY <2>1, <2>3, <2>4, <2>5 DEF FamilyKept
<1>12. Families' BY <1>1, <1>11 DEF Families
<1>13. /\ account' \in [version : Nat, banned : BOOLEAN] /\ account.version <= account'.version
       /\ reported' \subseteq Auth!Issued'
  BY <1>1, <1>10, <1>t DEF AuthTypes
<1>14. /\ d.op \in {"rotate", "reuse"} => d.family \in Auth!Issued'
       /\ d.op = "rotate" => d.old \in Auth!Issued'
       /\ Current(d.version, d.since, account'.version)
  BY <1>1, <1>4, <1>6, <1>7, <1>10
<1>. QED BY <1>5, <1>8, <1>10, <1>12, <1>13, <1>14, RequestMoves

\* A family that a reuse was found in is revoked as a whole.
LEMMA FamilyRevoked ==
    ASSUME AuthInductive, NEW r \in Hands, NEW d \in Reuses,
           authRequest[r].op = "reuse", d.family = authRequest[r].family,
           authRequest' = [authRequest EXCEPT ![r] = d],
           Auth!SetToken(Auth!Family(d.family), "REVOKED"),
           reported' = reported \union {d.family}, UNCHANGED <<account, authLapped>>
    PROVE  AuthInductive'
<1>t. AuthTypes BY DEF AuthInductive
<1>1. d \in AuthRequests /\ d.op = "reuse" /\ d.family \in Auth!Issued
  <2>1. d \in AuthRequests /\ d.op = "reuse" BY DEF AuthRequests, Reuses
  <2>2. authRequest[r].family \in Auth!Issued BY DEF AuthInductive, Rooted
  <2>. QED BY <2>1, <2>2
<1>2. authRequest'[r] = d /\ \A x \in Hands \ {r} : authRequest'[x] = authRequest[x]
  BY <1>t DEF AuthTypes
<1>3. Auth!Family(d.family) \subseteq Auth!Issued BY DEF Auth!Family
<1>4. /\ token' \in [Cards -> TokenRows \union {Auth!NoToken}]
      /\ Auth!Issued' = Auth!Issued
      /\ \A t \in Auth!Issued :
             /\ token'[t].family = token[t].family
             /\ token'[t].version = token[t].version /\ token'[t].since = token[t].since
      /\ \A f \in Cards : ActiveOf(f)' = ActiveOf(f) \ Auth!Family(d.family)
  BY <1>3, <1>t, TokensShut
<1>5. ASSUME NEW f \in Cards, f \notin authLapped PROVE FamilyKept(f)'
  <2>1. FamilyKept(f) BY <1>5 DEF AuthInductive, Families
  <2>2. Auth!Rotating(f)' = Auth!Rotating(f) BY <1>1, <1>2 DEF Auth!Rotating
  <2>3. ActiveOf(f)' \subseteq ActiveOf(f) BY <1>4
  <2>4. CASE f = d.family
    <3>1. ActiveOf(f)' = {} BY <1>4, <2>4 DEF ActiveOf
    <3>2. r \in Auth!Rotating(f) BY <2>4 DEF Auth!Rotating
    <3>3. \A x \in Auth!Rotating(f)' : authRequest'[x].op # "rotate"
      BY <1>1, <1>2, <2>1, <2>2, <3>2 DEF FamilyKept
    <3>. QED BY <2>1, <2>2, <3>1, <3>3 DEF FamilyKept
  <2>5. CASE f # d.family
    <3>1. f \in reported' <=> f \in reported BY <2>5
    <3>2. ASSUME NEW x \in Auth!Rotating(f)', authRequest'[x].op = "rotate"
          PROVE  authRequest'[x] = authRequest[x] /\ x \in Auth!Rotating(f)
      BY <1>1, <1>2, <2>2, <3>2 DEF Auth!Rotating
    <3>. QED BY <2>1, <2>2, <2>3, <3>1, <3>2 DEF FamilyKept
  <2>. QED BY <2>4, <2>5
<1>6. Families' BY <1>5 DEF Families
<1>7. /\ account' \in [version : Nat, banned : BOOLEAN] /\ account.version <= account'.version
      /\ reported' \subseteq Auth!Issued'
  BY <1>1, <1>4, <1>t DEF AuthTypes
<1>. QED BY <1>1, <1>4, <1>6, <1>7, RequestMoves

\* A revocation starts.
LEMMA RevocationStarts ==
    ASSUME AuthInductive, NEW r \in Hands, NEW scope \in SUBSET Cards, NEW a \in BOOLEAN,
           NEW todo \in RevokeParts, Auth!Revocation(r, scope, a, todo),
           account' \in [version : Nat, banned : BOOLEAN], account.version <= account'.version,
           UNCHANGED <<token, authLapped, reported>>
    PROVE  AuthInductive'
<1> DEFINE d == [op |-> "revoke", scope |-> scope, activeOnly |-> a, todo |-> todo]
<1>1. d \in Revokings /\ d.op = "revoke" BY DEF Revokings
<1>2. authRequest' = [authRequest EXCEPT ![r] = d]
  BY DEF Auth!Revocation, Auth!Begin
<1>. HIDE DEF d
<1>3. d \in AuthRequests BY <1>1 DEF AuthRequests
<1>4. {} \in SUBSET Auth!Issued OBVIOUS
<1>. QED BY <1>1, <1>2, <1>3, <1>4, RequestTurns

\* A request is over.
LEMMA RequestEnds ==
    ASSUME AuthInductive, NEW r \in Hands, Auth!Done(r), NEW S \in SUBSET Auth!Issued,
           token' = token \/ Auth!SetToken(S, "REVOKED"),
           UNCHANGED <<account, authLapped, reported>>
    PROVE  AuthInductive'
<1>1. Auth!NoRequest \in AuthRequests /\ Auth!NoRequest.op = "idle"
  BY DEF AuthRequests, Auth!NoRequest
<1>2. authRequest' = [authRequest EXCEPT ![r] = Auth!NoRequest]
  BY DEF Auth!Done, Auth!Continue
<1>3. account' \in [version : Nat, banned : BOOLEAN] /\ account.version <= account'.version
  BY DEF AuthInductive, AuthTypes
<1>. QED BY <1>1, <1>2, <1>3, RequestTurns

LEMMA AuthStep == AuthInductive /\ [Auth!Next]_authVars => AuthInductive'
<1>. SUFFICES ASSUME AuthInductive, [Auth!Next]_authVars PROVE AuthInductive' OBVIOUS
<1>t. AuthTypes BY DEF AuthInductive
<1>v. account \in [version : Nat, banned : BOOLEAN] BY <1>t DEF AuthTypes
<1>k. account' = account =>
          account' \in [version : Nat, banned : BOOLEAN] /\ account.version <= account'.version
  BY <1>v
<1>e. {} \in SUBSET Auth!Issued OBVIOUS
<1>1. ASSUME NEW r \in Hands, Auth!IssueRead(r) PROVE AuthInductive'
  <2> DEFINE d == [op |-> "issue", version |-> account.version, since |-> account.version,
                   family |-> "new", parts |-> <<"token", "session">>, made |-> "none"]
  <2>1. authRequest' = [authRequest EXCEPT ![r] = d]
        /\ UNCHANGED <<account, token, session, authLapped, reported>>
    BY <1>1 DEF Auth!IssueRead, Auth!Begin
  <2>2. d \in Issuing /\ d.op = "issue" BY <1>v DEF Issuing, Closed
  <2>3. Current(d.version, d.since, account'.version) BY <1>v, <2>1 DEF Current
  <2>. HIDE DEF d
  <2>4. d \in AuthRequests BY <2>2 DEF AuthRequests
  <2>. QED BY <1>e, <1>k, <2>1, <2>2, <2>3, <2>4, RequestTurns
<1>2. ASSUME NEW r \in Hands, Auth!CreateToken(r) PROVE AuthInductive'
  BY <1>2, TokenMade
<1>3. ASSUME NEW r \in Hands, Auth!SessionCreate(r) \/ Auth!Crash(r) PROVE AuthInductive'
  <2>1. Auth!Done(r) /\ UNCHANGED <<account, token, authLapped, reported>>
    BY <1>3 DEF Auth!SessionCreate, Auth!Crash
  <2>. QED BY <1>e, <2>1, RequestEnds
<1>4. ASSUME NEW r \in Hands, NEW t \in Cards, Auth!RotateRead(r, t) PROVE AuthInductive'
  <2> DEFINE d == [op |-> "rotate", old |-> t, family |-> token[t].family,
                   version |-> account.version, since |-> token[t].since,
                   parts |-> <<"revoke", "close", "token", "session">>, made |-> "none"]
  <2>1. /\ t \in Auth!Issued /\ Auth!Active(t) /\ token[t].version = account.version
        /\ authRequest[r] = Auth!NoRequest /\ authRequest' = [authRequest EXCEPT ![r] = d]
        /\ Auth!Note(token[t].family) /\ UNCHANGED <<account, token, session, reported>>
    BY <1>4 DEF Auth!RotateRead, Auth!Begin
  <2>2. token[t] \in TokenRows BY <1>t, <2>1 DEF AuthTypes, Auth!Issued
  <2>3. /\ d \in Rotations /\ d.op = "rotate" /\ d.parts = All /\ d.old = t
        /\ d.family = token[t].family
    <3>1. token[t].family \in Cards /\ token[t].since \in Nat
      BY <2>2 DEF TokenRows
    <3>2. d.parts = All /\ All \in Parts BY DEF All, Parts
    <3>. QED BY <1>v, <3>1, <3>2 DEF Rotations
  <2>4. Current(d.version, d.since, account.version)
    BY <1>v, <2>1 DEF AuthInductive, Versions, Current
  <2>. HIDE DEF d
  <2>5. d \in AuthRequests BY <2>3 DEF AuthRequests
  <2>. QED BY <2>1, <2>3, <2>4, <2>5, RotationStarts
<1>5. ASSUME NEW r \in Hands, NEW t \in Cards, Auth!ReuseRead(r, t) PROVE AuthInductive'
  <2> DEFINE d == [op |-> "reuse", family |-> token[t].family,
                   todo |-> <<"tokens", "list", "sessions">>, scope |-> {}]
  <2>1. /\ t \in Auth!Issued
        /\ authRequest[r] = Auth!NoRequest /\ authRequest' = [authRequest EXCEPT ![r] = d]
        /\ Auth!Note(token[t].family) /\ UNCHANGED <<account, token, session, reported>>
    BY <1>5 DEF Auth!ReuseRead, Auth!Begin
  <2>2. token[t] \in TokenRows BY <1>t, <2>1 DEF AuthTypes, Auth!Issued
  <2>3. d \in Reuses /\ d.op = "reuse" /\ d.family = token[t].family
    BY <2>2 DEF Reuses, ReuseParts, TokenRows
  <2>. HIDE DEF d
  <2>4. d \in AuthRequests BY <2>3 DEF AuthRequests
  <2>. QED BY <2>1, <2>3, <2>4, RotationStarts
<1>6. ASSUME NEW r \in Hands, Auth!RotateRevoke(r) PROVE AuthInductive'
  BY <1>6, OldRevoked
<1>7. ASSUME NEW r \in Hands, Auth!RotateClose(r) PROVE AuthInductive'
  <2> DEFINE c == authRequest[r]
             d == [c EXCEPT !.parts = Closed]
  <2>1. /\ c.op = "rotate" /\ c.parts # <<>> /\ Head(c.parts) = "close"
        /\ authRequest' = [authRequest EXCEPT ![r] = [c EXCEPT !.parts = Tail(c.parts)]]
        /\ UNCHANGED <<account, token, authLapped, reported>>
    BY <1>7 DEF Auth!RotateClose, Auth!Continue
  <2>2. c \in Rotations BY <1>t, <2>1, AuthFields DEF AuthTypes
  <2>3. c.parts = Revoked /\ Tail(c.parts) = Closed
    BY <2>1, <2>2, PartsListed DEF Rotations, Parts
  <2>4. /\ d \in Rotations /\ d.op = "rotate" /\ d.parts = Closed /\ d.old = c.old
        /\ d.family = c.family /\ d.version = c.version /\ d.since = c.since
    BY <2>2, NextRotation DEF Parts
  <2>5. authRequest' = [authRequest EXCEPT ![r] = d] BY <2>1, <2>3
  <2>6. Current(c.version, c.since, account'.version)
    BY <2>1 DEF AuthInductive, Versions
  <2>. HIDE DEF d
  <2>7. d \in AuthRequests BY <2>4 DEF AuthRequests
  <2>8. /\ account' \in [version : Nat, banned : BOOLEAN] /\ account.version <= account'.version
        /\ token' = token /\ reported' = reported /\ authLapped' = authLapped
    BY <1>k, <2>1
  <2>9. /\ authRequest[r].op = d.op /\ authRequest[r].family = d.family
        /\ authRequest[r].old = d.old /\ authRequest[r].parts = Revoked /\ d.parts = Closed
        /\ Current(d.version, d.since, account'.version)
    BY <2>1, <2>3, <2>4, <2>6
  <2>. QED BY <1>e, <2>5, <2>7, <2>8, <2>9, RequestTurns
<1>8. ASSUME NEW r \in Hands, Auth!ReuseFamily(r) PROVE AuthInductive'
  <2> DEFINE c == authRequest[r]
  <2>1. c.op = "reuse" /\ UNCHANGED <<account, authLapped>>
    BY <1>8 DEF Auth!ReuseFamily
  <2>2. c \in Reuses BY <1>t, <2>1, AuthFields DEF AuthTypes
  <2>3. CASE Head(c.todo) = "tokens"
    <3> DEFINE d == [c EXCEPT !.todo = <<"list", "sessions">>]
    <3>1. c.todo = <<"tokens", "list", "sessions">>
      BY <2>2, <2>3, PartsListed DEF Reuses, ReuseParts
    <3>2. /\ Auth!SetToken(Auth!Family(c.family), "REVOKED")
          /\ authRequest' = [authRequest EXCEPT ![r] = [c EXCEPT !.todo = Tail(c.todo)]]
          /\ reported' = reported \union {c.family}
      BY <1>8, <2>3 DEF Auth!ReuseFamily, Auth!Continue
    <3>3. authRequest' = [authRequest EXCEPT ![r] = d] BY <3>1, <3>2, PartsListed
    <3>4. d \in Reuses /\ d.family = c.family BY <2>2, NextReuse DEF ReuseParts
    <3>. HIDE DEF d
    <3>. QED BY <2>1, <3>2, <3>3, <3>4, FamilyRevoked
  <2>4. CASE Head(c.todo) = "list"
    <3> DEFINE d == [c EXCEPT !.scope = Auth!Family(c.family), !.todo = <<"sessions">>]
    <3>1. c.todo = <<"list", "sessions">>
      BY <2>2, <2>4, PartsListed DEF Reuses, ReuseParts
    <3>2. /\ authRequest' = [authRequest EXCEPT ![r] =
                                [c EXCEPT !.scope = Auth!Family(c.family), !.todo = Tail(c.todo)]]
          /\ UNCHANGED <<token, reported>>
      BY <1>8, <2>4 DEF Auth!ReuseFamily, Auth!Continue
    <3>3. authRequest' = [authRequest EXCEPT ![r] = d] BY <3>1, <3>2, PartsListed
    <3>4. Auth!Family(c.family) \in SUBSET Cards BY DEF Auth!Family, Auth!Issued
    <3>5. d \in Reuses /\ d.op = "reuse" /\ d.family = c.family
      BY <2>2, <3>4, NextReuse DEF ReuseParts
    <3>. HIDE DEF d
    <3>6. d \in AuthRequests BY <3>5 DEF AuthRequests
    <3>. QED BY <1>e, <1>k, <2>1, <3>2, <3>3, <3>5, <3>6, RequestTurns
  <2>5. CASE Head(c.todo) = "sessions"
    <3>1. Auth!Done(r) /\ UNCHANGED <<token, reported>>
      BY <1>8, <2>5 DEF Auth!ReuseFamily
    <3>. QED BY <1>e, <2>1, <3>1, RequestEnds
  <2>. QED BY <1>8, <2>3, <2>4, <2>5 DEF Auth!ReuseFamily
<1>9. ASSUME NEW r \in Hands, NEW t \in Cards, Auth!LogoutRead(r, t) \/ Auth!RevokeSession(r, t)
      PROVE  AuthInductive'
  <2>1. /\ \/ Auth!Revocation(r, {t}, FALSE, <<"tokens", "sessions">>)
           \/ Auth!Revocation(r, {t}, FALSE, <<"sessions", "tokens">>)
        /\ UNCHANGED <<account, token, authLapped, reported>>
    BY <1>9 DEF Auth!LogoutRead, Auth!RevokeSession
  <2>. QED BY <1>k, <2>1, RevocationStarts DEF RevokeParts
<1>10. ASSUME NEW r \in Hands, Auth!RevokeAll(r) PROVE AuthInductive'
  <2>1. /\ \/ Auth!Revocation(r, Cards, TRUE, <<"tokens", "sessions">>)
           \/ Auth!Revocation(r, Cards, TRUE, <<"sessions", "tokens">>)
        /\ UNCHANGED <<account, token, authLapped, reported>>
    BY <1>10 DEF Auth!RevokeAll
  <2>. QED BY <1>k, <2>1, RevocationStarts DEF RevokeParts
<1>11. ASSUME NEW r \in Hands, Auth!ResetPassword(r) PROVE AuthInductive'
  <2>1. /\ account' = [account EXCEPT !.version = @ + 1]
        /\ Auth!Revocation(r, Cards, FALSE, <<"tokens", "sessions">>)
        /\ UNCHANGED <<token, authLapped, reported>>
    BY <1>11 DEF Auth!ResetPassword
  <2>2. account' \in [version : Nat, banned : BOOLEAN] /\ account.version <= account'.version
    BY <1>v, <2>1
  <2>. QED BY <2>1, <2>2, RevocationStarts DEF RevokeParts
<1>12. ASSUME NEW r \in Hands, Auth!RevokeStep(r) PROVE AuthInductive'
  <2> DEFINE c == authRequest[r]
             S == {t \in Cards : Auth!InScope(c, t, token[t].status)}
  <2>1. /\ c.op = "revoke" /\ UNCHANGED <<account, authLapped, reported>>
        /\ token' = token \/ Auth!SetToken(S, "REVOKED")
    BY <1>12 DEF Auth!RevokeStep
  <2>2. c \in Revokings BY <1>t, <2>1, AuthFields DEF AuthTypes
  <2>3. S \in SUBSET Auth!Issued BY DEF Auth!InScope, Auth!Issued, Auth!NoToken
  <2>4. CASE Len(c.todo) = 1
    <3>1. Auth!Done(r) BY <1>12, <2>4 DEF Auth!RevokeStep
    <3>. HIDE DEF S
    <3>. QED BY <2>1, <2>3, <3>1, RequestEnds
  <2>5. CASE Len(c.todo) # 1
    <3> DEFINE d == [c EXCEPT !.todo = Tail(c.todo)]
    <3>1. authRequest' = [authRequest EXCEPT ![r] = d]
      BY <1>12, <2>5 DEF Auth!RevokeStep, Auth!Continue
    <3>2. Tail(c.todo) \in RevokeParts
      BY <2>2, <2>5, PartsListed DEF Revokings, RevokeParts
    <3>3. d \in Revokings /\ d.op = "revoke" BY <2>2, <3>2 DEF Revokings
    <3>. HIDE DEF d, S
    <3>4. d \in AuthRequests BY <3>3 DEF AuthRequests
    <3>. QED BY <1>k, <2>1, <2>3, <3>1, <3>3, <3>4, RequestTurns
  <2>. QED BY <2>4, <2>5
<1>13. ASSUME Auth!Ban PROVE AuthInductive'
  <2>1. /\ account' = [account EXCEPT !.banned = TRUE]
        /\ UNCHANGED <<token, session, authRequest, authLapped, reported>>
    BY <1>13 DEF Auth!Ban
  <2>2. account' \in [version : Nat, banned : BOOLEAN] /\ account'.version = account.version
    BY <1>v, <2>1
  <2>. QED BY <1>e, <2>1, <2>2, RequestsStay
<1>14. ASSUME NEW t \in Cards, Auth!CleanUp(t) PROVE AuthInductive'
  <2>1. UNCHANGED <<account, authRequest, authLapped, reported>>
    BY <1>14 DEF Auth!CleanUp
  <2>2. CASE Auth!Active(t) /\ Auth!SetToken({t}, "EXPIRED")
    <3>1. {t} \in SUBSET Auth!Issued
      BY <2>2 DEF Auth!Active, Auth!Issued, Auth!NoToken
    <3>. QED BY <1>v, <2>1, <2>2, <3>1, RequestsStay
  <2>3. CASE token' = token BY <1>e, <1>v, <2>1, <2>3, RequestsStay
  <2>. QED BY <1>14, <2>2, <2>3 DEF Auth!CleanUp
<1>15. CASE UNCHANGED authVars
  <2>1. UNCHANGED <<account, token, authRequest, authLapped, reported>>
    BY <1>15 DEF authVars
  <2>. QED BY <1>e, <1>v, <2>1, RequestsStay
<1>. QED
  BY <1>1, <1>2, <1>3, <1>4, <1>5, <1>6, <1>7, <1>8, <1>9, <1>10, <1>11, <1>12, <1>13, <1>14,
     <1>15 DEF Auth!Next

LEMMA SameCardinality == \A S : Auth!Cardinality(S) = Cardinality(S)
  BY DEF Auth!Cardinality, Cardinality

\* A token made before the password was changed is not accepted afterwards, even
\* one that a rotation under way makes later; and a family has at most one active
\* token, none once a reuse was found, unless two of its rotations overlapped,
\* with any number of requests, crashes and clean-ups between their writes
\* (TokenService, SessionService, PasswordResetService).
THEOREM TokensStayInOrder == Spec => []TokensInOrder
<1> DEFINE Ind == focus = "auth" => AuthInductive
<1>1. Init => Ind BY AuthInit DEF Init
<1>2. Ind /\ [Next]_everyVar => Ind' BY StepOfEach, AuthStep
<1>3. Ind => TokensInOrder
  <2>. SUFFICES ASSUME focus = "auth", AuthInductive PROVE Auth!TokensInOrder
    BY DEF TokensInOrder
  <2>1. Auth!OldTokensDie
    BY DEF Auth!OldTokensDie, AuthInductive, Versions, Current
  <2>2. ASSUME NEW f \in Cards \ authLapped
        PROVE  Cardinality(ActiveOf(f)) <= IF f \in reported THEN 0 ELSE 1
    <3>1. FamilyKept(f) BY DEF AuthInductive, Families
    <3>2. CASE ActiveOf(f) = {} BY <3>2, FS_EmptySet
    <3>3. CASE ActiveOf(f) # {}
      <4>1. PICK t \in ActiveOf(f) : TRUE BY <3>3
      <4>2. ActiveOf(f) = {t} /\ f \notin reported
        BY <3>1, <3>3, <4>1 DEF FamilyKept
      <4>3. Cardinality(ActiveOf(f)) = 1 BY <4>2, FS_Singleton
      <4>. QED BY <4>2, <4>3
    <3>. QED BY <3>2, <3>3
  <2>3. Auth!OneLeaf BY <2>2, SameCardinality DEF Auth!OneLeaf, ActiveOf
  <2>. QED BY <2>1, <2>3 DEF Auth!TokensInOrder
<1>. QED BY <1>1, <1>2, <1>3, PTL DEF Spec

-----------------------------------------------------------------------------
(* The rules on when a product is on sale.                                 *)

RuleTable == rules \in [Rules -> RuleData \union {None}]

LEMMA RulesKept == RuleTable /\ [Opening!RulesNext]_openingVars => RuleTable'
  BY DEF RuleTable, Opening!RulesNext, Opening!addRule, Opening!updateRule, Opening!deleteRule,
         openingVars

\* The rules in effect on a date, but for one.
LEMMA OthersStay ==
    ASSUME RuleTable, NEW r \in Rules, NEW is, rules' = [rules EXCEPT ![r] = is], NEW date
    PROVE  /\ rules'[r] = is /\ \A x \in Rules \ {r} : rules'[x] = rules[x]
           /\ Opening!Effective(date)' \ {r} = Opening!Effective(date) \ {r}
<1>1. rules'[r] = is /\ \A x \in Rules \ {r} : rules'[x] = rules[x]
  BY DEF RuleTable
<1>2. Opening!Effective(date)' \ {r} = Opening!Effective(date) \ {r}
  BY <1>1 DEF Opening!Effective
<1>. QED BY <1>1, <1>2

\* What is on sale, by the rows themselves.
LEMMA OnSale ==
    ASSUME NEW date, NEW t
    PROVE  Opening!isProductAvailable(date, t) <=>
               \/ Opening!Effective(date) = {}
               \/ /\ \A x \in Opening!Effective(date) : ~Opening!Closes(rules[x], date, t)
                  /\ \E x \in Opening!Effective(date) : Opening!Offers(rules[x], date, t)
  BY DEF Opening!isProductAvailable

LEMMA OnSaleNext ==
    ASSUME NEW date, NEW t
    PROVE  Opening!isProductAvailable(date, t)' <=>
               \/ Opening!Effective(date)' = {}
               \/ /\ \A x \in Opening!Effective(date)' : ~Opening!Closes(rules'[x], date, t)
                  /\ \E x \in Opening!Effective(date)' : Opening!Offers(rules'[x], date, t)
  BY DEF Opening!isProductAvailable

\* A rule that comes or goes.
LEMMA RuleComes ==
    ASSUME RuleTable, NEW r \in Rules, NEW is, rules' = [rules EXCEPT ![r] = is],
           rules[r] = None, is # None, NEW date, NEW t
    PROVE  IF is.isException
           THEN Opening!isProductAvailable(date, t)' => Opening!isProductAvailable(date, t)
           ELSE Opening!isProductAvailable(date, t) =>
                    Opening!isProductAvailable(date, t)' \/ Opening!Effective(date) = {}
<1>1. /\ rules'[r] = is /\ \A x \in Rules \ {r} : rules'[x] = rules[x]
      /\ Opening!Effective(date)' \ {r} = Opening!Effective(date) \ {r}
  BY OthersStay
<1>2. r \notin Opening!Effective(date) BY DEF Opening!Effective
<1>3. Opening!Effective(date) = Opening!Effective(date)' \ {r} BY <1>1, <1>2
<1>4. \A x \in Opening!Effective(date) : x # r /\ rules'[x] = rules[x]
  BY <1>1, <1>2 DEF Opening!Effective
<1>5. ASSUME is.isException, Opening!isProductAvailable(date, t)'
      PROVE  Opening!isProductAvailable(date, t)
  <2>1. ~Opening!Offers(rules'[r], date, t) BY <1>1, <1>5 DEF Opening!Offers
  <2>2. CASE Opening!Effective(date) = {} BY <2>2, OnSale
  <2>3. CASE Opening!Effective(date) # {}
    <3>1. /\ \A x \in Opening!Effective(date)' : ~Opening!Closes(rules'[x], date, t)
          /\ \E x \in Opening!Effective(date)' : Opening!Offers(rules'[x], date, t)
      BY <1>3, <1>5, <2>3, OnSaleNext
    <3>2. \A x \in Opening!Effective(date) : ~Opening!Closes(rules[x], date, t)
      BY <1>3, <1>4, <3>1
    <3>3. \E x \in Opening!Effective(date) : Opening!Offers(rules[x], date, t)
      BY <1>3, <1>4, <2>1, <3>1
    <3>. QED BY <3>2, <3>3, OnSale
  <2>. QED BY <2>2, <2>3
<1>6. ASSUME ~is.isException, Opening!isProductAvailable(date, t), Opening!Effective(date) # {}
      PROVE  Opening!isProductAvailable(date, t)'
  <2>1. ~Opening!Closes(rules'[r], date, t) BY <1>1, <1>6 DEF Opening!Closes
  <2>2. /\ \A x \in Opening!Effective(date) : ~Opening!Closes(rules[x], date, t)
        /\ \E x \in Opening!Effective(date) : Opening!Offers(rules[x], date, t)
    BY <1>6, OnSale
  <2>3. \A x \in Opening!Effective(date)' : ~Opening!Closes(rules'[x], date, t)
    BY <1>3, <1>4, <2>1, <2>2
  <2>4. \E x \in Opening!Effective(date)' : Opening!Offers(rules'[x], date, t)
    BY <1>3, <1>4, <2>2
  <2>. QED BY <2>3, <2>4, OnSaleNext
<1>. QED BY <1>5, <1>6

LEMMA RuleGoes ==
    ASSUME RuleTable, NEW r \in Rules, rules' = [rules EXCEPT ![r] = None],
           rules[r] # None, NEW date, NEW t
    PROVE  IF rules[r].isException
           THEN Opening!isProductAvailable(date, t) => Opening!isProductAvailable(date, t)'
           ELSE Opening!isProductAvailable(date, t)' =>
                    Opening!isProductAvailable(date, t) \/ Opening!Effective(date)' = {}
<1>1. /\ rules'[r] = None /\ \A x \in Rules \ {r} : rules'[x] = rules[x]
      /\ Opening!Effective(date)' \ {r} = Opening!Effective(date) \ {r}
  BY OthersStay
<1>2. r \notin Opening!Effective(date)' BY <1>1 DEF Opening!Effective
<1>3. Opening!Effective(date)' = Opening!Effective(date) \ {r} BY <1>1, <1>2
<1>4. \A x \in Opening!Effective(date)' : x # r /\ rules'[x] = rules[x]
  BY <1>1, <1>2 DEF Opening!Effective
<1>5. ASSUME rules[r].isException, Opening!isProductAvailable(date, t)
      PROVE  Opening!isProductAvailable(date, t)'
  <2>1. ~Opening!Offers(rules[r], date, t) BY <1>5 DEF Opening!Offers
  <2>2. CASE Opening!Effective(date)' = {} BY <2>2, OnSaleNext
  <2>3. CASE Opening!Effective(date)' # {}
    <3>1. /\ \A x \in Opening!Effective(date) : ~Opening!Closes(rules[x], date, t)
          /\ \E x \in Opening!Effective(date) : Opening!Offers(rules[x], date, t)
      BY <1>3, <1>5, <2>3, OnSale
    <3>2. \A x \in Opening!Effective(date)' : ~Opening!Closes(rules'[x], date, t)
      BY <1>3, <1>4, <3>1
    <3>3. \E x \in Opening!Effective(date)' : Opening!Offers(rules'[x], date, t)
      BY <1>3, <1>4, <2>1, <3>1
    <3>. QED BY <3>2, <3>3, OnSaleNext
  <2>. QED BY <2>2, <2>3
<1>6. ASSUME ~rules[r].isException, Opening!isProductAvailable(date, t)',
             Opening!Effective(date)' # {}
      PROVE  Opening!isProductAvailable(date, t)
  <2>1. ~Opening!Closes(rules[r], date, t) BY <1>6 DEF Opening!Closes
  <2>2. /\ \A x \in Opening!Effective(date)' : ~Opening!Closes(rules'[x], date, t)
        /\ \E x \in Opening!Effective(date)' : Opening!Offers(rules'[x], date, t)
    BY <1>6, OnSaleNext
  <2>3. \A x \in Opening!Effective(date) : ~Opening!Closes(rules[x], date, t)
    BY <1>3, <1>4, <2>1, <2>2
  <2>4. \E x \in Opening!Effective(date) : Opening!Offers(rules[x], date, t)
    BY <1>3, <1>4, <2>2
  <2>. QED BY <2>3, <2>4, OnSale
<1>. QED BY <1>5, <1>6

LEMMA RuleStep ==
    ASSUME RuleTable, Opening!RulesNext, NEW r \in Rules, rules'[r] # rules[r]
    PROVE  Opening!RuleChange(r)
<1>1. PICK x \in Rules, is \in RuleData \union {None} : rules' = [rules EXCEPT ![x] = is]
  BY DEF Opening!RulesNext, Opening!addRule, Opening!updateRule, Opening!deleteRule
<1>2. x = r /\ rules'[r] = is BY <1>1 DEF RuleTable
<1>3. ASSUME NEW date \in 0 .. LastDate, NEW t \in Times, rules[r] = None, is # None
      PROVE  IF is.isException
             THEN Opening!isProductAvailable(date, t)' => Opening!isProductAvailable(date, t)
             ELSE Opening!isProductAvailable(date, t) =>
                      Opening!isProductAvailable(date, t)' \/ Opening!Effective(date) = {}
  BY <1>1, <1>2, <1>3, RuleComes
<1>4. ASSUME NEW date \in 0 .. LastDate, NEW t \in Times, rules[r] # None, is = None
      PROVE  IF rules[r].isException
             THEN Opening!isProductAvailable(date, t) => Opening!isProductAvailable(date, t)'
             ELSE Opening!isProductAvailable(date, t)' =>
                      Opening!isProductAvailable(date, t) \/ Opening!Effective(date)' = {}
  BY <1>1, <1>2, <1>4, RuleGoes
<1>. QED BY <1>2, <1>3, <1>4 DEF Opening!RuleChange

\* An exception that is added puts a product on sale at no hour, and one that is
\* removed takes it off at none; a regular rule does the opposite, but for the
\* first and the last in effect on a date (ProductAvailabilityService).
THEOREM RulesChangeSoundly == Spec => RulesSound
<1> DEFINE Ind == focus = "rules" => RuleTable
<1>1. Init => Ind BY DEF Init, Opening!OpeningInit, RuleTable
<1>2. Ind /\ [Next]_everyVar => Ind' BY StepOfEach, RulesKept
<1>3. Ind /\ [Next]_everyVar =>
          [focus = "rules" => \A r \in Rules : rules'[r] # rules[r] => Opening!RuleChange(r)]_everyVar
  <2>. SUFFICES ASSUME RuleTable, focus = "rules", [Next]_everyVar, NEW r \in Rules,
                       rules'[r] # rules[r]
                PROVE  Opening!RuleChange(r)
    OBVIOUS
  <2>1. Opening!RulesNext BY StepOfEach DEF openingVars
  <2>. QED BY <2>1, RuleStep
<1>. QED BY <1>1, <1>2, <1>3, PTL DEF Spec, RulesSound

-----------------------------------------------------------------------------
(* The till and its drawers.                                               *)

Figures == [Till!Methods -> Int]
MaybeTerminal == Terminals \union {NoOne}
MaybeCashier == Cashiers \union {NoOne}
MaybeDrawer == Cards \union {NoOne}
PaymentStatuses == {"COMPLETED", "VOIDED", "PAID", "FAILED", "CANCELLED", "REFUNDED"}
DrawerRows ==
    [status : {"NONE", "OPEN", "CLOSED", "RECONCILING"}, term : MaybeTerminal, user : MaybeCashier,
     exp : Figures, act : Figures, var : Figures, counted : BOOLEAN, approved : BOOLEAN,
     count : Figures, totalSales : Int]
PaymentRows ==
    [status : PaymentStatuses, term : Terminals, method : Till!Methods, home : MaybeDrawer,
     amount : Int, net : Int, after : SUBSET Cards, during : SUBSET Cards]

Has(d) == drawer[d].status # "NONE"

CallWhole(c) ==
    LET k == tillCall[c]
    IN  /\ k.op \in {"idle", "open", "sale", "void", "correct", "count", "flag", "sales", "refunds",
                     "close", "drop"}
        /\ k.op = "idle" => k = Till!NoCall
        /\ k.op = "open" => /\ k.term \in MaybeTerminal /\ k.user \in MaybeCashier
                            /\ k.term = NoOne \/ k.user = NoOne
        /\ k.op = "sale" => /\ k.order \in Receipts /\ k.term \in Terminals
                            /\ k.method \in Till!Methods /\ k.amount \in Int /\ k.drawer \in MaybeDrawer
                            /\ k.drawer # NoOne => Has(k.drawer) /\ drawer[k.drawer].term = k.term
        /\ k.op \in {"void", "correct"} =>
               /\ k.order \in Receipts /\ k.saw \in PaymentRows /\ k.amount \in Int
               /\ k.saw.status = "COMPLETED"
               /\ pay[k.order] # Till!NoPayment /\ pay[k.order].home = k.saw.home
        /\ k.op = "count" => /\ k.drawer \in Cards /\ Has(k.drawer)
                             /\ k.saw \in Figures /\ k.act \in Figures /\ k.act["CARD"] = k.saw["CARD"]
        /\ k.op = "flag" => k.drawer \in Cards
        /\ k.op \in {"sales", "refunds", "close"} =>
               /\ k.drawer \in Cards /\ Has(k.drawer) /\ drawer[k.drawer].term = NoOne
               /\ k.expected \in Int
        /\ k.op = "close" => k.actual \in Int
        /\ k.op = "drop" => k.drawer \in Cards /\ k.amount \in Int

TillTypes ==
    /\ drawer \in [Cards -> DrawerRows] /\ drops \in [Cards -> Int]
    /\ DOMAIN pay = Receipts
    /\ \A o \in Receipts : pay[o] # Till!NoPayment => pay[o] \in PaymentRows
    /\ DOMAIN tillCall = Hands

RowFits(d) ==
    LET row == drawer[d]
    IN  /\ row.status = "NONE" => row = Till!NoDrawer
        /\ row.status = "OPEN" => ~row.counted
        /\ row.term = NoOne \/ row.user = NoOne
        /\ row.var["CARD"] = 0
        /\ ~row.counted => row.var["CASH"] = 0

PaymentFits(o) ==
    pay[o] # Till!NoPayment /\ pay[o].home # NoOne =>
        /\ Has(pay[o].home) /\ drawer[pay[o].home].term = pay[o].term
        /\ pay[o].home \notin late => pay[o].home \in pay[o].during

\* What a payment puts in the counters of a drawer.
InDrawer(o, d, m) ==
    pay[o] # Till!NoPayment /\ pay[o].home = d /\ pay[o].method = m /\ pay[o].status = "COMPLETED"
Worth(d, m) == [o \in Receipts |-> IF InDrawer(o, d, m) THEN pay[o].amount ELSE 0]
Ones(d, m) == [o \in Receipts |-> IF InDrawer(o, d, m) THEN 1 ELSE 0]

Counters(d) ==
    LET row == drawer[d]
    IN  /\ \A m \in Till!Methods :
               /\ row.exp[m] = SumFunctionOnSet(Worth(d, m), Receipts) + IF m = "CASH" THEN Float ELSE 0
               /\ row.count[m] = SumFunctionOnSet(Ones(d, m), Receipts)
        /\ row.totalSales = SumFunctionOnSet(Worth(d, "CASH"), Receipts)
                          + SumFunctionOnSet(Worth(d, "CARD"), Receipts)

Vary(d) ==
    drawer[d].counted => drawer[d].var["CASH"] = drawer[d].act["CASH"] - drawer[d].exp["CASH"]

Seen(d) ==
    drawer[d].counted /\ Till!Abs(drawer[d].var["CASH"]) > CashThreshold =>
        \/ drawer[d].approved
        \/ d \in flagged
        \/ \E c \in Hands : tillCall[c].op = "flag" /\ tillCall[c].drawer = d

TillInductive ==
    /\ TillTypes
    /\ \A c \in Hands : CallWhole(c)
    /\ \A d \in Cards : RowFits(d)
    /\ \A o \in Receipts : PaymentFits(o)
    /\ \A d \in Cards \ misbooked : drawer[d].term # NoOne => Counters(d)
    /\ \A d \in Cards \ late : Vary(d)
    /\ \A d \in Cards \ lost : Seen(d)

LEMMA FiniteInTill == \A S : (Till!IsFiniteSet(S) <=> IsFiniteSet(S)) /\ Till!Cardinality(S) = Cardinality(S)
  BY DEF Till!IsFiniteSet, Till!Cardinality, IsFiniteSet, Cardinality

LEMMA SumsOfTill == \A f : Till!SumFunction(f) = SumFunctionOnSet(f, DOMAIN f)
  BY DEF Till!SumFunction, Till!SumFunctionOnSet, Till!FoldFunctionOnSet,
         Till!MapThenFoldSet, SumFunctionOnSet, FoldFunctionOnSet, MapThenFoldSet

LEMMA TillFacts ==
    /\ IsFiniteSet(Cards) /\ IsFiniteSet(Receipts)
    /\ Float \in Nat /\ MaxAmount \in Nat /\ MaxDrops \in Nat /\ CashThreshold \in Nat
    /\ Errors \subseteq Int
    /\ NoOne \notin Cards /\ NoOne \notin Terminals /\ NoOne \notin Cashiers
  BY BackOfficeAssumption, FiniteInTill DEF Till!DrawerAssumption

LEMMA MethodsAre == Till!Methods = {"CASH", "CARD"}
  BY DEF Till!Methods

LEMMA NoDrawerIs ==
    /\ Till!NoDrawer \in DrawerRows
    /\ Till!NoDrawer.status = "NONE" /\ Till!NoDrawer.term = NoOne /\ Till!NoDrawer.user = NoOne
    /\ Till!NoDrawer.counted = FALSE
    /\ \A m \in Till!Methods : Till!NoDrawer.var[m] = 0 /\ Till!NoDrawer.count[m] = 0
    /\ Till!NoDrawer.totalSales = 0
<1> DEFINE zero == Till!ByMethod(0, 0)
<1>1. zero \in Figures /\ \A m \in Till!Methods : zero[m] = 0
  BY DEF Till!ByMethod, Figures
<1>2. Till!NoDrawer = [status |-> "NONE", term |-> NoOne, user |-> NoOne, exp |-> zero,
          act |-> zero, var |-> zero, counted |-> FALSE, approved |-> FALSE,
          count |-> zero, totalSales |-> 0]
  BY DEF Till!NoDrawer
<1> HIDE DEF zero
<1>. QED BY <1>1, <1>2 DEF DrawerRows, MaybeTerminal, MaybeCashier

LEMMA InDrawerIsSold ==
    \A d, m, o : o \in Till!Sold(d, m) <=> o \in Receipts /\ InDrawer(o, d, m)
  BY DEF Till!Sold, InDrawer

LEMMA WorthTyped ==
    ASSUME TillTypes, NEW d, NEW m
    PROVE  \A o \in Receipts : Worth(d, m)[o] \in Int /\ Ones(d, m)[o] \in Int
<1> SUFFICES ASSUME NEW o \in Receipts PROVE Worth(d, m)[o] \in Int /\ Ones(d, m)[o] \in Int
  OBVIOUS
<1>1. InDrawer(o, d, m) => pay[o].amount \in Int
  BY DEF InDrawer, TillTypes, PaymentRows
<1>. QED BY <1>1 DEF Worth, Ones

\* The amounts a report sums up, and how many there are.
LEMMA SumOfSome ==
    ASSUME TillTypes, NEW d, NEW m, NEW S, S = {o \in Receipts : InDrawer(o, d, m)}
    PROVE  /\ Till!Sum(S) = SumFunctionOnSet(Worth(d, m), Receipts)
           /\ Till!Cardinality(S) = SumFunctionOnSet(Ones(d, m), Receipts)
<1> DEFINE w == Worth(d, m)
           n == Ones(d, m)
           a == [o \in S |-> pay[o].amount]
           R == Receipts \ S
<1>1. IsFiniteSet(S) /\ IsFiniteSet(R) /\ S \in SUBSET Receipts /\ IsFiniteSet(Receipts)
  BY TillFacts, FS_Subset
<1>2. /\ \A o \in Receipts : w[o] \in Int
      /\ \A o \in Receipts : n[o] \in Int
  BY WorthTyped
<1>3. /\ \A o \in S : w[o] = a[o] /\ n[o] = 1
      /\ \A o \in R : w[o] = 0 /\ n[o] = 0
      /\ DOMAIN a = S
  BY DEF Worth, Ones
<1> HIDE DEF w, n, a, R
<1>4. /\ SumFunctionOnSet(w, Receipts) = SumFunctionOnSet(w, S) + SumFunctionOnSet(w, R)
      /\ SumFunctionOnSet(n, Receipts) = SumFunctionOnSet(n, S) + SumFunctionOnSet(n, R)
  BY <1>1, <1>2, SumParts DEF R
<1>5. SumFunctionOnSet(w, R) = 0 /\ SumFunctionOnSet(n, R) = 0
  BY <1>1, <1>3, SumZeros
<1>6. \A o \in S : w[o] \in Int BY <1>1, <1>2
<1>7. SumFunctionOnSet(w, S) = SumFunctionOnSet(a, S) /\ SumFunctionOnSet(w, S) \in Int
  BY <1>1, <1>3, <1>6, SumSame, SumInt
<1>8. SumFunctionOnSet(n, S) = Cardinality(S) /\ Cardinality(S) \in Nat
  BY <1>1, <1>3, SumOnes, FS_CardinalityType
<1>9. Till!Sum(S) = SumFunctionOnSet(a, S) BY <1>3, SumsOfTill DEF Till!Sum, a
<1>. QED BY <1>4, <1>5, <1>7, <1>8, <1>9, FiniteInTill DEF w, n

\* A step on one payment changes the sums by what it was and is worth.
LEMMA OnePaymentChanges ==
    ASSUME TillTypes, TillTypes', NEW o \in Receipts, \A p \in Receipts \ {o} : pay'[p] = pay[p],
           NEW d \in Cards, NEW m \in Till!Methods
    PROVE  /\ SumFunctionOnSet(Worth(d, m)', Receipts) =
                  SumFunctionOnSet(Worth(d, m), Receipts) - Worth(d, m)[o] + Worth(d, m)'[o]
           /\ SumFunctionOnSet(Ones(d, m)', Receipts) =
                  SumFunctionOnSet(Ones(d, m), Receipts) - Ones(d, m)[o] + Ones(d, m)'[o]
<1> DEFINE w == Worth(d, m)
           x == Worth(d, m)'
           n == Ones(d, m)
           k == Ones(d, m)'
<1>1. /\ \A p \in Receipts : w[p] \in Int
      /\ \A p \in Receipts : n[p] \in Int
  BY WorthTyped
<1>2. /\ \A p \in Receipts : x[p] \in Int
      /\ \A p \in Receipts : k[p] \in Int
  <2>1. ASSUME NEW p \in Receipts PROVE x[p] \in Int /\ k[p] \in Int
    <3>1. InDrawer(p, d, m)' => pay'[p].amount \in Int
      BY DEF InDrawer, TillTypes, PaymentRows
    <3>. QED BY <3>1 DEF Worth, Ones
  <2>. QED BY <2>1
<1>3. /\ \A p \in Receipts : p # o => w[p] = x[p]
      /\ \A p \in Receipts : p # o => n[p] = k[p]
  BY DEF Worth, Ones, InDrawer
<1> HIDE DEF w, x, n, k
<1>4. IsFiniteSet(Receipts) BY TillFacts
<1>5. /\ SumFunctionOnSet(x, Receipts) = SumFunctionOnSet(w, Receipts) - w[o] + x[o]
      /\ SumFunctionOnSet(k, Receipts) = SumFunctionOnSet(n, Receipts) - n[o] + k[o]
  BY <1>1, <1>2, <1>3, <1>4, SumChange
<1>. QED BY <1>5 DEF w, x, n, k

\* The counters of a drawer are what they were while its payments are.
LEMMA CountersStay ==
    ASSUME NEW d \in Cards, drawer'[d].exp = drawer[d].exp, drawer'[d].count = drawer[d].count,
           drawer'[d].totalSales = drawer[d].totalSales, Counters(d),
           \A o \in Receipts, m \in Till!Methods :
               /\ InDrawer(o, d, m)' <=> InDrawer(o, d, m)
               /\ InDrawer(o, d, m) => pay'[o].amount = pay[o].amount
    PROVE  Counters(d)'
<1>1. \A m \in Till!Methods : Worth(d, m)' = Worth(d, m) /\ Ones(d, m)' = Ones(d, m)
  BY DEF Worth, Ones
<1>. QED BY <1>1, MethodsAre DEF Counters

-----------------------------------------------------------------------------
(* Steps.                                                                  *)

\* Rows stay in their tables, with their terminal and drawer.
Steady ==
    /\ \A d \in Cards : Has(d) => drawer'[d].status # "NONE" /\ drawer'[d].term = drawer[d].term
    /\ \A o \in Receipts : pay[o] # Till!NoPayment =>
           pay'[o] # Till!NoPayment /\ pay'[o].home = pay[o].home
    /\ late \subseteq late' /\ misbooked \subseteq misbooked' /\ lost \subseteq lost'
    /\ flagged \subseteq flagged'

LEMMA CallsKeep ==
    ASSUME Steady, NEW q \in Hands, CallWhole(q), tillCall'[q] = tillCall[q]
    PROVE  CallWhole(q)'
<1> DEFINE k == tillCall[q]
<1>1. k.op = "sale" /\ k.drawer # NoOne => Has(k.drawer)' /\ drawer'[k.drawer].term = k.term
  BY DEF CallWhole, Steady, MaybeDrawer, Has
<1>2. k.op \in {"void", "correct"} => pay'[k.order] # Till!NoPayment /\ pay'[k.order].home = k.saw.home
  BY DEF CallWhole, Steady
<1>3. k.op = "count" => Has(k.drawer)' BY DEF CallWhole, Steady, Has
<1>4. k.op \in {"sales", "refunds", "close"} => Has(k.drawer)' /\ drawer'[k.drawer].term = NoOne
  BY DEF CallWhole, Steady, Has
<1>. QED BY <1>1, <1>2, <1>3, <1>4 DEF CallWhole

\* A step of a caller on the drawers of D and the payments of P.
LEMMA TillAgain ==
    ASSUME TillInductive, TillTypes', Steady, NEW c,
           \A q \in Hands \ {c} : tillCall'[q] = tillCall[q], c \in Hands => CallWhole(c)',
           tillCall'[c] = tillCall[c] \/
               (tillCall[c].op = "flag" => tillCall[c].drawer \in flagged' \union lost'),
           NEW D \in SUBSET Cards, \A d \in Cards \ D : drawer'[d] = drawer[d],
           \A d \in D : /\ RowFits(d)'
                        /\ d \notin late' => Vary(d)'
                        /\ d \notin lost' => Seen(d)',
           NEW P \in SUBSET Receipts, \A o \in Receipts \ P : pay'[o] = pay[o],
           \A o \in P : PaymentFits(o)',
           \A d \in Cards \ misbooked' :
               /\ drawer'[d].term # NoOne
               /\ d \in D \/ \E o \in P, m \in Till!Methods : InDrawer(o, d, m) \/ InDrawer(o, d, m)'
               => Counters(d)'
    PROVE  TillInductive'
<1>1. ASSUME NEW q \in Hands PROVE CallWhole(q)' BY CallsKeep DEF TillInductive
<1>2. ASSUME NEW d \in Cards PROVE RowFits(d)'
  <2>1. CASE d \in D BY <2>1
  <2>2. CASE d \notin D BY <2>2 DEF TillInductive, RowFits
  <2>. QED BY <2>1, <2>2
<1>3. ASSUME NEW o \in Receipts PROVE PaymentFits(o)'
  <2>1. CASE o \in P BY <2>1
  <2>2. CASE o \notin P
    <3>1. pay'[o] = pay[o] /\ PaymentFits(o) BY <2>2 DEF TillInductive
    <3>2. pay[o] # Till!NoPayment /\ pay[o].home # NoOne => pay[o].home \in Cards
      BY DEF TillInductive, TillTypes, PaymentRows, MaybeDrawer
    <3>. QED BY <3>1, <3>2 DEF PaymentFits, Steady, Has
  <2>. QED BY <2>1, <2>2
<1>4. ASSUME NEW d \in Cards \ misbooked', drawer'[d].term # NoOne PROVE Counters(d)'
  <2>1. CASE d \in D \/ \E o \in P, m \in Till!Methods : InDrawer(o, d, m) \/ InDrawer(o, d, m)'
    BY <1>4, <2>1
  <2>2. CASE ~(d \in D \/ \E o \in P, m \in Till!Methods : InDrawer(o, d, m) \/ InDrawer(o, d, m)')
    <3>1. drawer'[d] = drawer[d] /\ d \notin misbooked BY <2>2 DEF Steady
    <3>2. Counters(d) BY <1>4, <3>1 DEF TillInductive
    <3>3. ASSUME NEW o \in Receipts, NEW m \in Till!Methods
          PROVE  /\ InDrawer(o, d, m)' <=> InDrawer(o, d, m)
                 /\ InDrawer(o, d, m) => pay'[o].amount = pay[o].amount
      <4>1. CASE o \in P BY <2>2, <4>1
      <4>2. CASE o \notin P BY <4>2 DEF InDrawer
      <4>. QED BY <4>1, <4>2
    <3>. QED BY <3>1, <3>2, <3>3, CountersStay
  <2>. QED BY <2>1, <2>2
<1>5. ASSUME NEW d \in Cards \ late' PROVE Vary(d)'
  <2>1. CASE d \in D BY <2>1
  <2>2. CASE d \notin D BY <2>2 DEF TillInductive, Vary, Steady
  <2>. QED BY <2>1, <2>2
<1>6. ASSUME NEW d \in Cards \ lost' PROVE Seen(d)'
  <2>1. CASE d \in D BY <2>1
  <2>2. CASE d \notin D
    <3>1. drawer'[d] = drawer[d] /\ Seen(d) /\ flagged \subseteq flagged'
      BY <2>2 DEF TillInductive, Steady
    <3>2. ASSUME NEW q \in Hands, tillCall[q].op = "flag", tillCall[q].drawer = d
          PROVE  d \in flagged' \/ \E h \in Hands : tillCall'[h].op = "flag" /\ tillCall'[h].drawer = d
      <4>1. CASE q = c BY <3>2, <4>1
      <4>2. CASE q # c BY <3>2, <4>2
      <4>. QED BY <4>1, <4>2
    <3>. QED BY <3>1, <3>2 DEF Seen
  <2>. QED BY <2>1, <2>2
<1>. QED BY <1>1, <1>2, <1>3, <1>4, <1>5, <1>6 DEF TillInductive

\* A request that begins, or ends, or reads on.
LEMMA CallMoves ==
    ASSUME TillInductive, NEW c \in Hands, NEW k, tillCall' = [tillCall EXCEPT ![c] = k],
           UNCHANGED <<drawer, pay, late, misbooked>>, drops' \in [Cards -> Int],
           flagged \subseteq flagged', lost \subseteq lost',
           tillCall[c].op = "flag" => tillCall[c].drawer \in flagged' \union lost',
           CallWhole(c)'
    PROVE  TillInductive'
<1>1. DOMAIN tillCall' = Hands /\ \A q \in Hands \ {c} : tillCall'[q] = tillCall[q]
  BY DEF TillInductive, TillTypes
<1>2. TillTypes' BY <1>1 DEF TillInductive, TillTypes
<1>3. Steady BY DEF Steady, Has
<1>4. \A d \in Cards \ {} : drawer'[d] = drawer[d] OBVIOUS
<1>5. \A o \in Receipts \ {} : pay'[o] = pay[o] OBVIOUS
<1>6. {} \in SUBSET Cards /\ {} \in SUBSET Receipts OBVIOUS
<1>. QED BY <1>1, <1>2, <1>3, <1>4, <1>5, <1>6, TillAgain

LEMMA Idle ==
    ASSUME NEW c \in Hands, tillCall'[c] = Till!NoCall
    PROVE  CallWhole(c)'
  BY DEF CallWhole, Till!NoCall

LEMMA BeginMoves ==
    ASSUME TillInductive, NEW c \in Hands, NEW k, Till!Begin(c, k), Till!Reads,
           tillCall'[c] = k => CallWhole(c)'
    PROVE  TillInductive'
<1>1. tillCall[c] = Till!NoCall /\ tillCall' = [tillCall EXCEPT ![c] = k]
  BY DEF Till!Begin
<1>2. tillCall'[c] = k /\ tillCall[c].op # "flag"
  BY <1>1 DEF TillInductive, TillTypes, Till!NoCall
<1>3. /\ UNCHANGED <<drawer, pay, late, misbooked>> /\ drops' \in [Cards -> Int]
      /\ flagged \subseteq flagged' /\ lost \subseteq lost'
  BY DEF Till!Reads, TillInductive, TillTypes
<1>. QED BY <1>1, <1>2, <1>3, CallMoves

LEMMA ContinueMoves ==
    ASSUME TillInductive, NEW c \in Hands, NEW k, Till!Continue(c, k), Till!Reads,
           tillCall[c].op # "flag", tillCall'[c] = k => CallWhole(c)'
    PROVE  TillInductive'
<1>1. tillCall' = [tillCall EXCEPT ![c] = k] BY DEF Till!Continue
<1>2. tillCall'[c] = k BY <1>1 DEF TillInductive, TillTypes
<1>3. /\ UNCHANGED <<drawer, pay, late, misbooked>> /\ drops' \in [Cards -> Int]
      /\ flagged \subseteq flagged' /\ lost \subseteq lost'
  BY DEF Till!Reads, TillInductive, TillTypes
<1>. QED BY <1>1, <1>2, <1>3, CallMoves

LEMMA AmountsAreInt == Till!Amounts \subseteq Int
  BY TillFacts DEF Till!Amounts

LEMMA TerminalOpenReadTill ==
    ASSUME TillInductive, NEW c \in Hands, NEW t \in Terminals, Till!TerminalOpenRead(c, t)
    PROVE  TillInductive'
<1> DEFINE k == [op |-> "open", term |-> t, user |-> NoOne]
<1>1. Till!Begin(c, k) /\ Till!Reads BY DEF Till!TerminalOpenRead
<1>2. k.op = "open" /\ k.term \in MaybeTerminal /\ k.user \in MaybeCashier /\ k.user = NoOne
  BY DEF MaybeTerminal, MaybeCashier
<1> HIDE DEF k
<1>3. tillCall'[c] = k => CallWhole(c)' BY <1>2 DEF CallWhole
<1>. QED BY <1>1, <1>3, BeginMoves

LEMMA StaffOpenReadTill ==
    ASSUME TillInductive, NEW c \in Hands, NEW u \in Cashiers, Till!StaffOpenRead(c, u)
    PROVE  TillInductive'
<1> DEFINE k == [op |-> "open", term |-> NoOne, user |-> u]
<1>1. Till!Begin(c, k) /\ Till!Reads BY DEF Till!StaffOpenRead
<1>2. k.op = "open" /\ k.term \in MaybeTerminal /\ k.user \in MaybeCashier /\ k.term = NoOne
  BY DEF MaybeTerminal, MaybeCashier
<1> HIDE DEF k
<1>3. tillCall'[c] = k => CallWhole(c)' BY <1>2 DEF CallWhole
<1>. QED BY <1>1, <1>3, BeginMoves

LEMMA SaleReadTill ==
    ASSUME TillInductive, NEW c \in Hands, NEW o \in Receipts, NEW t \in Terminals,
           NEW m \in Till!Methods, NEW n \in Till!Amounts, Till!SaleRead(c, o, t, m, n)
    PROVE  TillInductive'
<1>1. PICK d \in Till!FirstOf(Till!OpenAt(t)) :
          Till!Begin(c, [op |-> "sale", order |-> o, term |-> t, method |-> m,
                         amount |-> n, drawer |-> d])
  BY DEF Till!SaleRead
<1> DEFINE k == [op |-> "sale", order |-> o, term |-> t, method |-> m, amount |-> n, drawer |-> d]
<1>2. Till!Begin(c, k) /\ Till!Reads BY <1>1 DEF Till!SaleRead
<1>3. d \in MaybeDrawer /\ (d # NoOne => Has(d) /\ drawer[d].term = t)
  BY DEF Till!FirstOf, Till!OpenAt, Till!OpenDrawers, MaybeDrawer, Has
<1>4. /\ k.op = "sale" /\ k.order = o /\ k.term = t /\ k.method = m /\ k.amount \in Int
      /\ k.drawer = d
  BY AmountsAreInt
<1>5. Has(d)' <=> Has(d) BY <1>2 DEF Has, Till!Reads
<1>6. drawer' = drawer BY <1>2 DEF Till!Reads
<1> HIDE DEF k
<1>7. tillCall'[c] = k => CallWhole(c)' BY <1>3, <1>4, <1>5, <1>6 DEF CallWhole
<1>. QED BY <1>2, <1>7, BeginMoves

LEMMA PaymentReadTill ==
    ASSUME TillInductive, NEW c \in Hands, NEW o \in Receipts, NEW op \in {"void", "correct"},
           NEW n \in Int, Till!PaymentRead(c, o, op, n)
    PROVE  TillInductive'
<1> DEFINE k == [op |-> op, order |-> o, saw |-> pay[o], amount |-> n]
<1>1. Till!Begin(c, k) /\ Till!Reads /\ pay[o] # Till!NoPayment /\ pay[o].status = "COMPLETED"
  BY DEF Till!PaymentRead
<1>2. /\ k.op = op /\ k.order = o /\ k.saw = pay[o] /\ k.amount = n /\ k.saw \in PaymentRows
  BY <1>1 DEF TillInductive, TillTypes
<1>3. pay' = pay BY <1>1 DEF Till!Reads
<1> HIDE DEF k
<1>4. tillCall'[c] = k => CallWhole(c)' BY <1>1, <1>2, <1>3 DEF CallWhole
<1>. QED BY <1>1, <1>4, BeginMoves

LEMMA TerminalCloseReadTill ==
    ASSUME TillInductive, NEW c \in Hands, NEW d \in Cards, Till!TerminalCloseRead(c, d)
    PROVE  TillInductive'
<1>1. PICK e \in Errors :
         Till!Begin(c, [op |-> "count", drawer |-> d, saw |-> drawer[d].exp,
                   act |-> [m \in Till!Methods |-> IF m = "CASH" THEN drawer[d].exp[m] + e
                                                                ELSE drawer[d].exp[m]]])
  BY DEF Till!TerminalCloseRead
<1> DEFINE act == [m \in Till!Methods |-> IF m = "CASH" THEN drawer[d].exp[m] + e ELSE drawer[d].exp[m]]
           k == [op |-> "count", drawer |-> d, saw |-> drawer[d].exp, act |-> act]
<1>2. Till!Begin(c, k) /\ Till!Reads /\ d \in Till!OpenDrawers
  BY <1>1 DEF Till!TerminalCloseRead
<1>3. drawer[d].exp \in Figures BY DEF TillInductive, TillTypes, DrawerRows
<1>4. act \in Figures /\ act["CARD"] = drawer[d].exp["CARD"]
  BY <1>3, TillFacts, MethodsAre DEF Figures
<1>5. Has(d) /\ drawer' = drawer /\ (Has(d)' <=> Has(d))
  BY <1>2 DEF Till!OpenDrawers, Till!Reads, Has
<1> HIDE DEF act
<1>6. k.op = "count" /\ k.drawer = d /\ k.saw = drawer[d].exp /\ k.act = act OBVIOUS
<1> HIDE DEF k
<1>7. tillCall'[c] = k => CallWhole(c)' BY <1>3, <1>4, <1>5, <1>6 DEF CallWhole
<1>. QED BY <1>2, <1>7, BeginMoves

LEMMA StaffCloseReadTill ==
    ASSUME TillInductive, NEW c \in Hands, NEW d \in Cards, Till!StaffCloseRead(c, d)
    PROVE  TillInductive'
<1> DEFINE k == [op |-> "sales", drawer |-> d, expected |-> Float - drops[d]]
<1>1. Till!Begin(c, k) /\ Till!Reads /\ d \in Till!OpenDrawers /\ drawer[d].user # NoOne
  BY DEF Till!StaffCloseRead
<1>2. Float - drops[d] \in Int BY TillFacts DEF TillInductive, TillTypes
<1>3. Has(d) /\ drawer' = drawer /\ (Has(d)' <=> Has(d)) /\ drawer[d].term = NoOne
  BY <1>1 DEF Till!OpenDrawers, Till!Reads, Has, TillInductive, RowFits
<1>4. k.op = "sales" /\ k.drawer = d /\ k.expected \in Int BY <1>2
<1> HIDE DEF k
<1>5. tillCall'[c] = k => CallWhole(c)' BY <1>3, <1>4 DEF CallWhole
<1>. QED BY <1>1, <1>5, BeginMoves

LEMMA SumOfPayments ==
    ASSUME TillTypes, NEW S \in SUBSET {o \in Receipts : pay[o] # Till!NoPayment}
    PROVE  Till!Sum(S) \in Int
<1> DEFINE a == [o \in S |-> pay[o].amount]
<1>1. IsFiniteSet(S) BY TillFacts, FS_Subset
<1>2. DOMAIN a = S /\ \A o \in S : a[o] \in Int BY DEF TillTypes, PaymentRows
<1>3. Till!Sum(S) = SumFunctionOnSet(a, S) BY <1>2, SumsOfTill DEF Till!Sum
<1> HIDE DEF a
<1>. QED BY <1>1, <1>2, <1>3, SumInt

LEMMA StaffCloseSalesTill ==
    ASSUME TillInductive, NEW c \in Hands, Till!StaffCloseSales(c)
    PROVE  TillInductive'
<1> DEFINE d == tillCall[c].drawer
           n == tillCall[c].expected + Till!Sum(Till!Since(d, "COMPLETED"))
           k == [op |-> "refunds", drawer |-> d, expected |-> n]
<1>1. Till!Continue(c, k) /\ Till!Reads /\ tillCall[c].op = "sales"
  BY DEF Till!StaffCloseSales
<1>2. /\ d \in Cards /\ Has(d) /\ drawer[d].term = NoOne /\ tillCall[c].expected \in Int
  BY <1>1 DEF TillInductive, CallWhole
<1>3. n \in Int BY <1>2, SumOfPayments DEF TillInductive, Till!Since
<1>4. drawer' = drawer /\ (Has(d) <=> drawer[d].status # "NONE")
  BY <1>1 DEF Till!Reads, Has
<1> HIDE DEF n
<1>5. k.op = "refunds" /\ k.drawer = d /\ k.expected = n OBVIOUS
<1> HIDE DEF k, d
<1>6. tillCall'[c] = k => CallWhole(c)'
  BY <1>2, <1>3, <1>4, <1>5 DEF CallWhole, Has
<1>. QED BY <1>1, <1>6, ContinueMoves

LEMMA StaffCloseRefundsTill ==
    ASSUME TillInductive, NEW c \in Hands, Till!StaffCloseRefunds(c)
    PROVE  TillInductive'
<1> DEFINE d == tillCall[c].drawer
           n == tillCall[c].expected - Till!Sum(Till!Since(d, "REFUNDED"))
<1>1. PICK e \in Errors :
          Till!Continue(c, [op |-> "close", drawer |-> d, expected |-> n, actual |-> n + e])
  BY DEF Till!StaffCloseRefunds
<1> DEFINE k == [op |-> "close", drawer |-> d, expected |-> n, actual |-> n + e]
<1>2. Till!Continue(c, k) /\ Till!Reads /\ tillCall[c].op = "refunds"
  BY <1>1 DEF Till!StaffCloseRefunds
<1>3. /\ d \in Cards /\ Has(d) /\ drawer[d].term = NoOne /\ tillCall[c].expected \in Int
  BY <1>2 DEF TillInductive, CallWhole
<1>4. n \in Int /\ n + e \in Int
  BY <1>3, SumOfPayments, TillFacts DEF TillInductive, Till!Since
<1>5. drawer' = drawer /\ (Has(d) <=> drawer[d].status # "NONE")
  BY <1>2 DEF Till!Reads, Has
<1> HIDE DEF n
<1>6. k.op = "close" /\ k.drawer = d /\ k.expected = n /\ k.actual = n + e OBVIOUS
<1> HIDE DEF k, d
<1>7. tillCall'[c] = k => CallWhole(c)'
  BY <1>3, <1>4, <1>5, <1>6 DEF CallWhole, Has
<1>. QED BY <1>2, <1>7, ContinueMoves

LEMMA DropReadTill ==
    ASSUME TillInductive, NEW c \in Hands, NEW d \in Cards, NEW n \in Till!Amounts, Till!DropRead(c, d, n)
    PROVE  TillInductive'
<1> DEFINE k == [op |-> "drop", drawer |-> d, amount |-> n]
<1>1. Till!Begin(c, k) /\ Till!Reads BY DEF Till!DropRead
<1>2. k.op = "drop" /\ k.drawer = d /\ k.amount \in Int BY AmountsAreInt
<1> HIDE DEF k
<1>3. tillCall'[c] = k => CallWhole(c)' BY <1>2 DEF CallWhole
<1>. QED BY <1>1, <1>3, BeginMoves

LEMMA DropWriteTill ==
    ASSUME TillInductive, NEW c \in Hands, Till!DropWrite(c)
    PROVE  TillInductive'
<1>1. /\ tillCall[c].op = "drop" /\ tillCall' = [tillCall EXCEPT ![c] = Till!NoCall]
      /\ drops' = [drops EXCEPT ![tillCall[c].drawer] = @ + tillCall[c].amount]
      /\ UNCHANGED <<drawer, pay, flagged, misbooked, late, lost>>
  BY DEF Till!DropWrite, Till!Done, Till!Continue
<1>2. tillCall[c].drawer \in Cards /\ tillCall[c].amount \in Int
  BY <1>1 DEF TillInductive, CallWhole
<1>3. drops' \in [Cards -> Int] BY <1>1, <1>2 DEF TillInductive, TillTypes
<1>4. CallWhole(c)' BY <1>1, Idle DEF TillInductive, TillTypes
<1>5. UNCHANGED <<drawer, pay, late, misbooked>> /\ flagged \subseteq flagged' /\ lost \subseteq lost'
  BY <1>1
<1>. QED BY <1>1, <1>3, <1>4, <1>5, CallMoves

LEMMA FlagTill ==
    ASSUME TillInductive, NEW c \in Hands, Till!Flag(c)
    PROVE  TillInductive'
<1>1. /\ tillCall' = [tillCall EXCEPT ![c] = Till!NoCall]
      /\ flagged' = flagged \union {tillCall[c].drawer}
      /\ UNCHANGED <<drawer, pay, drops, misbooked, late, lost>>
  BY DEF Till!Flag, Till!Done, Till!Continue
<1>2. CallWhole(c)' /\ drops' \in [Cards -> Int]
  BY <1>1, Idle DEF TillInductive, TillTypes
<1>3. /\ UNCHANGED <<drawer, pay, late, misbooked>> /\ flagged \subseteq flagged'
      /\ lost \subseteq lost' /\ tillCall[c].drawer \in flagged' \union lost'
  BY <1>1
<1>. QED BY <1>1, <1>2, <1>3, CallMoves

LEMMA DropTill ==
    ASSUME TillInductive, NEW c \in Hands, Till!Drop(c)
    PROVE  TillInductive'
<1>1. /\ tillCall' = [tillCall EXCEPT ![c] = Till!NoCall]
      /\ lost' = IF tillCall[c].op = "flag" THEN lost \union {tillCall[c].drawer} ELSE lost
      /\ UNCHANGED <<drawer, pay, drops, flagged, misbooked, late>>
  BY DEF Till!Drop, Till!Done, Till!Continue
<1>2. CallWhole(c)' /\ drops' \in [Cards -> Int]
  BY <1>1, Idle DEF TillInductive, TillTypes
<1>3. /\ UNCHANGED <<drawer, pay, late, misbooked>> /\ flagged \subseteq flagged'
      /\ lost \subseteq lost' /\ (tillCall[c].op = "flag" => tillCall[c].drawer \in flagged' \union lost')
  BY <1>1
<1>. QED BY <1>1, <1>2, <1>3, CallMoves

\* A drawer that is opened has no payment yet.
LEMMA NewDrawerCounters ==
    ASSUME TillInductive, NEW d \in Cards, ~Has(d), pay' = pay,
           \A m \in Till!Methods :
               /\ drawer'[d].exp[m] = IF m = "CASH" THEN Float ELSE 0
               /\ drawer'[d].count[m] = 0,
           drawer'[d].totalSales = 0
    PROVE  Counters(d)'
<1>1. ASSUME NEW o \in Receipts, NEW m PROVE ~InDrawer(o, d, m)'
  BY TillFacts DEF TillInductive, PaymentFits, InDrawer
<1>2. ASSUME NEW m \in Till!Methods
      PROVE  /\ SumFunctionOnSet(Worth(d, m)', Receipts) = 0
             /\ SumFunctionOnSet(Ones(d, m)', Receipts) = 0
  <2> DEFINE w == Worth(d, m)'
             n == Ones(d, m)'
  <2>1. \A o \in Receipts : w[o] = 0 /\ n[o] = 0 BY <1>1 DEF Worth, Ones
  <2> HIDE DEF w, n
  <2>2. SumFunctionOnSet(w, Receipts) = 0 /\ SumFunctionOnSet(n, Receipts) = 0
    BY <2>1, SumZeros, TillFacts
  <2>. QED BY <2>2 DEF w, n
<1>3. \A m \in Till!Methods :
          /\ drawer'[d].exp[m] = SumFunctionOnSet(Worth(d, m)', Receipts) + IF m = "CASH" THEN Float ELSE 0
          /\ drawer'[d].count[m] = SumFunctionOnSet(Ones(d, m)', Receipts)
  BY <1>2, TillFacts
<1>4. drawer'[d].totalSales = SumFunctionOnSet(Worth(d, "CASH")', Receipts)
                            + SumFunctionOnSet(Worth(d, "CARD")', Receipts)
  BY <1>2, MethodsAre
<1>. QED BY <1>3, <1>4 DEF Counters

LEMMA OpenWriteTill ==
    ASSUME TillInductive, NEW c \in Hands, Till!OpenWrite(c)
    PROVE  TillInductive'
<1> DEFINE k == tillCall[c]
           exp == Till!ByMethod(IF k.term = NoOne THEN 0 ELSE Float, 0)
           row == [Till!NoDrawer EXCEPT !.status = "OPEN", !.term = k.term, !.user = k.user, !.exp = exp]
<1>1. PICK d \in Cards : drawer[d] = Till!NoDrawer /\ drawer' = [drawer EXCEPT ![d] = row]
  BY DEF Till!OpenWrite
<1>2. /\ k.op = "open" /\ tillCall' = [tillCall EXCEPT ![c] = Till!NoCall]
      /\ UNCHANGED <<pay, drops, flagged, misbooked, late, lost>>
  BY DEF Till!OpenWrite, Till!Done, Till!Continue
<1>3. k.term \in MaybeTerminal /\ k.user \in MaybeCashier /\ (k.term = NoOne \/ k.user = NoOne)
  BY <1>2 DEF TillInductive, CallWhole
<1>4. exp \in Figures /\ (k.term # NoOne => \A m \in Till!Methods : exp[m] = IF m = "CASH" THEN Float ELSE 0)
  BY TillFacts DEF Till!ByMethod, Figures
<1> HIDE DEF exp
<1>5. /\ row \in DrawerRows /\ row.status = "OPEN" /\ row.term = k.term /\ row.user = k.user
      /\ row.exp = exp /\ row.counted = FALSE /\ row.totalSales = 0
      /\ row.var = Till!NoDrawer.var /\ row.count = Till!NoDrawer.count
  BY <1>3, <1>4, NoDrawerIs DEF DrawerRows
<1> HIDE DEF row
<1>6. /\ drawer' \in [Cards -> DrawerRows] /\ drawer'[d] = row
      /\ \A e \in Cards \ {d} : drawer'[e] = drawer[e]
      /\ DOMAIN tillCall' = Hands /\ tillCall'[c] = Till!NoCall
      /\ \A q \in Hands \ {c} : tillCall'[q] = tillCall[q]
  BY <1>1, <1>2, <1>5 DEF TillInductive, TillTypes
<1>7. TillTypes' /\ CallWhole(c)'
  BY <1>2, <1>6, Idle DEF TillInductive, TillTypes
<1>8. ~Has(d) BY <1>1, NoDrawerIs DEF Has
<1>9. Steady BY <1>2, <1>6, <1>8 DEF Steady, Has
<1>10. RowFits(d)' /\ Vary(d)' /\ Seen(d)'
  BY <1>3, <1>5, <1>6, NoDrawerIs, MethodsAre DEF RowFits, Vary, Seen
<1>11. ASSUME drawer'[d].term # NoOne PROVE Counters(d)'
  BY <1>2, <1>4, <1>5, <1>6, <1>8, <1>11, NoDrawerIs, NewDrawerCounters
<1>12. \A o \in Receipts \ {} : pay'[o] = pay[o] BY <1>2
<1>13. {d} \in SUBSET Cards /\ {} \in SUBSET Receipts /\ k.op # "flag" BY <1>2
<1>14. \A e \in {d} : /\ RowFits(e)'
                      /\ e \notin late' => Vary(e)'
                      /\ e \notin lost' => Seen(e)'
  BY <1>10
<1>15. \A e \in Cards \ misbooked' :
             /\ drawer'[e].term # NoOne
             /\ e \in {d} \/ \E o \in {}, m \in Till!Methods : InDrawer(o, e, m) \/ InDrawer(o, e, m)'
             => Counters(e)'
  BY <1>11
<1>. QED BY <1>6, <1>7, <1>9, <1>12, <1>13, <1>14, <1>15, TillAgain

\* A drawer is counted, or approved: the counters of a terminal's stay.
LEMMA CountedAgain ==
    ASSUME TillInductive, NEW c, NEW d \in Cards, NEW row \in DrawerRows, Has(d),
           drawer' = [drawer EXCEPT ![d] = row], UNCHANGED <<pay, drops, flagged, misbooked, lost>>,
           late \subseteq late', DOMAIN tillCall' = Hands,
           \A q \in Hands \ {c} : tillCall'[q] = tillCall[q], c \in Hands => CallWhole(c)',
           tillCall'[c] = tillCall[c] \/ tillCall[c].op # "flag",
           row.status \notin {"NONE", "OPEN"}, row.term = drawer[d].term, row.user = drawer[d].user,
           row.var["CARD"] = 0, ~row.counted => row.var["CASH"] = 0,
           row.term # NoOne =>
               row.exp = drawer[d].exp /\ row.count = drawer[d].count /\ row.totalSales = drawer[d].totalSales,
           d \notin late' => Vary(d)', d \notin lost => Seen(d)'
    PROVE  TillInductive'
<1>1. /\ drawer' \in [Cards -> DrawerRows] /\ drawer'[d] = row
      /\ \A e \in Cards \ {d} : drawer'[e] = drawer[e]
  BY DEF TillInductive, TillTypes
<1>2. TillTypes' BY <1>1 DEF TillInductive, TillTypes
<1>3. Steady BY <1>1 DEF Steady, Has
<1>4. RowFits(d)' BY <1>1 DEF TillInductive, RowFits
<1>5. ASSUME drawer'[d].term # NoOne, d \notin misbooked' PROVE Counters(d)'
  <2>1. Counters(d) BY <1>1, <1>5 DEF TillInductive
  <2>2. \A o \in Receipts, m \in Till!Methods :
             /\ InDrawer(o, d, m)' <=> InDrawer(o, d, m)
             /\ InDrawer(o, d, m) => pay'[o].amount = pay[o].amount
    BY DEF InDrawer
  <2>. QED BY <1>1, <1>5, <2>1, <2>2, CountersStay
<1>6. PICK D \in SUBSET Cards, P \in SUBSET Receipts : D = {d} /\ P = {} OBVIOUS
<1>7. /\ \A e \in Cards \ D : drawer'[e] = drawer[e]
      /\ \A o \in Receipts \ P : pay'[o] = pay[o]
      /\ \A o \in P : PaymentFits(o)'
  BY <1>1, <1>6
<1>8. \A e \in D : /\ RowFits(e)'
                   /\ e \notin late' => Vary(e)'
                   /\ e \notin lost' => Seen(e)'
  BY <1>4, <1>6
<1>9. \A e \in Cards \ misbooked' :
             /\ drawer'[e].term # NoOne
             /\ e \in D \/ \E o \in P, m \in Till!Methods : InDrawer(o, e, m) \/ InDrawer(o, e, m)'
             => Counters(e)'
  BY <1>5, <1>6
<1>10. tillCall'[c] = tillCall[c] \/
           (tillCall[c].op = "flag" => tillCall[c].drawer \in flagged' \union lost')
  OBVIOUS
<1>11. /\ \A q \in Hands \ {c} : tillCall'[q] = tillCall[q]
       /\ c \in Hands => CallWhole(c)'
  OBVIOUS
<1>. QED BY <1>2, <1>3, <1>7, <1>8, <1>9, <1>10, <1>11, TillAgain

LEMMA TerminalCloseWriteTill ==
    ASSUME TillInductive, NEW c \in Hands, Till!TerminalCloseWrite(c)
    PROVE  TillInductive'
<1>0. PICK k, d : k = tillCall[c] /\ d = tillCall[c].drawer OBVIOUS
<1> DEFINE var == [m \in Till!Methods |-> k.act[m] - k.saw[m]]
           big == \E m \in Till!Methods : Till!Abs(var[m]) > CashThreshold
           row == [drawer[d] EXCEPT !.status = "CLOSED", !.counted = TRUE, !.act = k.act, !.var = var]
           next == IF big THEN [op |-> "flag", drawer |-> d] ELSE Till!NoCall
<1>1. /\ k.op = "count"
      /\ drawer' = [drawer EXCEPT ![d].status = "CLOSED", ![d].counted = TRUE,
                                  ![d].act = k.act, ![d].var = var]
      /\ late' = IF drawer[d].exp = k.saw THEN late ELSE late \union {d}
      /\ tillCall' = [tillCall EXCEPT ![c] = next]
      /\ UNCHANGED <<pay, drops, flagged, misbooked, lost>>
  BY <1>0 DEF Till!TerminalCloseWrite, Till!Done, Till!Continue
<1>2. /\ d \in Cards /\ Has(d) /\ drawer[d] \in DrawerRows
      /\ k.saw \in Figures /\ k.act \in Figures /\ k.act["CARD"] = k.saw["CARD"]
  BY <1>0, <1>1 DEF TillInductive, TillTypes, CallWhole
<1>3. var \in Figures /\ var["CARD"] = 0 /\ var["CASH"] = k.act["CASH"] - k.saw["CASH"]
  <2>1. \A m \in Till!Methods : k.act[m] \in Int /\ k.saw[m] \in Int
    BY <1>2 DEF Figures
  <2>. QED BY <1>2, <2>1, MethodsAre DEF Figures
<1>4. drawer' = [drawer EXCEPT ![d] = row]
  BY <1>1, <1>2 DEF TillInductive, TillTypes
<1> HIDE DEF var
<1>5. /\ row \in DrawerRows /\ row.status = "CLOSED" /\ row.counted = TRUE /\ row.act = k.act /\ row.var = var
      /\ row.term = drawer[d].term /\ row.user = drawer[d].user /\ row.exp = drawer[d].exp
      /\ row.count = drawer[d].count /\ row.totalSales = drawer[d].totalSales
  BY <1>2, <1>3 DEF DrawerRows
<1>6. drawer'[d] = row /\ DOMAIN tillCall' = Hands /\ tillCall'[c] = next
      /\ \A q \in Hands \ {c} : tillCall'[q] = tillCall[q]
  BY <1>1, <1>2, <1>4 DEF TillInductive, TillTypes
<1> HIDE DEF row
<1>7. CallWhole(c)' BY <1>2, <1>6, Idle DEF CallWhole
<1>8. d \notin late' => Vary(d)' BY <1>1, <1>3, <1>5, <1>6 DEF Vary
<1>9. Seen(d)'
  <2>1. SUFFICES ASSUME Till!Abs(var["CASH"]) > CashThreshold PROVE Seen(d)'
    BY <1>5, <1>6 DEF Seen
  <2>2. big BY <2>1, MethodsAre
  <2>3. tillCall'[c].op = "flag" /\ tillCall'[c].drawer = d BY <1>6, <2>2
  <2>. QED BY <2>3 DEF Seen
<1>10. late \subseteq late' /\ tillCall[c].op # "flag" /\ lost' = lost
  BY <1>0, <1>1
<1>11. PICK newRow \in DrawerRows : newRow = row BY <1>5
<1>12. /\ drawer' = [drawer EXCEPT ![d] = newRow] /\ UNCHANGED <<pay, drops, flagged, misbooked, lost>>
       /\ newRow.status \notin {"NONE", "OPEN"}
       /\ newRow.term = drawer[d].term /\ newRow.user = drawer[d].user
       /\ newRow.var["CARD"] = 0 /\ newRow.counted = TRUE
       /\ newRow.term # NoOne => newRow.exp = drawer[d].exp /\ newRow.count = drawer[d].count
                                 /\ newRow.totalSales = drawer[d].totalSales
  BY <1>1, <1>2, <1>3, <1>4, <1>5, <1>11
<1> HIDE DEF next
<1>. QED BY <1>2, <1>6, <1>7, <1>8, <1>9, <1>10, <1>11, <1>12, CountedAgain

LEMMA StaffCloseWriteTill ==
    ASSUME TillInductive, NEW c \in Hands, Till!StaffCloseWrite(c)
    PROVE  TillInductive'
<1>0. PICK k, d : k = tillCall[c] /\ d = tillCall[c].drawer OBVIOUS
<1> DEFINE review == Till!Abs(k.actual - k.expected) > CashThreshold
           exp == [drawer[d].exp EXCEPT !["CASH"] = k.expected]
           act == [drawer[d].act EXCEPT !["CASH"] = k.actual]
           var == [drawer[d].var EXCEPT !["CASH"] = k.actual - k.expected]
           row == [drawer[d] EXCEPT !.status = IF review THEN "RECONCILING" ELSE "CLOSED",
                       !.counted = TRUE, !.exp = exp, !.act = act, !.var = var]
           next == IF review THEN [op |-> "flag", drawer |-> d] ELSE Till!NoCall
<1>1. /\ k.op = "close"
      /\ drawer' = [drawer EXCEPT ![d] =
             [drawer[d] EXCEPT !.status = IF review THEN "RECONCILING" ELSE "CLOSED", !.counted = TRUE,
                       !.exp["CASH"] = k.expected, !.act["CASH"] = k.actual,
                       !.var["CASH"] = k.actual - k.expected]]
      /\ tillCall' = [tillCall EXCEPT ![c] = next]
      /\ UNCHANGED <<pay, drops, flagged, misbooked, late, lost>>
  BY <1>0 DEF Till!StaffCloseWrite, Till!Done, Till!Continue
<1>2. /\ d \in Cards /\ Has(d) /\ drawer[d] \in DrawerRows /\ drawer[d].term = NoOne
      /\ k.expected \in Int /\ k.actual \in Int
  BY <1>0, <1>1 DEF TillInductive, TillTypes, CallWhole
<1>3. /\ exp \in Figures /\ act \in Figures /\ var \in Figures
      /\ exp["CASH"] = k.expected /\ act["CASH"] = k.actual /\ var["CASH"] = k.actual - k.expected
      /\ var["CARD"] = 0
  <2>1. drawer[d].exp \in Figures /\ drawer[d].act \in Figures /\ drawer[d].var \in Figures
    BY <1>2 DEF DrawerRows
  <2>2. drawer[d].var["CARD"] = 0 BY <1>2 DEF TillInductive, RowFits
  <2>. QED BY <1>2, <2>1, <2>2, MethodsAre DEF Figures
<1>4. drawer' = [drawer EXCEPT ![d] = row]
  <2> DEFINE new == [drawer[d] EXCEPT !.status = IF review THEN "RECONCILING" ELSE "CLOSED",
                         !.counted = TRUE, !.exp["CASH"] = k.expected, !.act["CASH"] = k.actual,
                         !.var["CASH"] = k.actual - k.expected]
  <2>1. new = row BY <1>2 DEF DrawerRows
  <2> HIDE DEF new, row
  <2>. QED BY <1>1, <2>1 DEF new
<1> HIDE DEF exp, act, var
<1>5. /\ row \in DrawerRows /\ row.status \in {"RECONCILING", "CLOSED"} /\ row.counted = TRUE
      /\ row.act = act /\ row.var = var /\ row.exp = exp
      /\ row.term = drawer[d].term /\ row.user = drawer[d].user
  BY <1>2, <1>3 DEF DrawerRows
<1>6. drawer'[d] = row /\ DOMAIN tillCall' = Hands /\ tillCall'[c] = next
      /\ \A q \in Hands \ {c} : tillCall'[q] = tillCall[q]
  BY <1>1, <1>2, <1>4 DEF TillInductive, TillTypes
<1> HIDE DEF row
<1>7. CallWhole(c)' BY <1>2, <1>6, Idle DEF CallWhole
<1>8. Vary(d)' BY <1>3, <1>5, <1>6 DEF Vary
<1>9. Seen(d)'
  <2>1. SUFFICES ASSUME Till!Abs(var["CASH"]) > CashThreshold PROVE Seen(d)'
    BY <1>5, <1>6 DEF Seen
  <2>2. review BY <1>3, <2>1
  <2>3. tillCall'[c].op = "flag" /\ tillCall'[c].drawer = d BY <1>6, <2>2
  <2>. QED BY <2>3 DEF Seen
<1>10. late \subseteq late' /\ tillCall[c].op # "flag" /\ lost' = lost
  BY <1>0, <1>1
<1>11. PICK newRow \in DrawerRows : newRow = row BY <1>5
<1>12. /\ drawer' = [drawer EXCEPT ![d] = newRow] /\ UNCHANGED <<pay, drops, flagged, misbooked, lost>>
       /\ newRow.status \notin {"NONE", "OPEN"}
       /\ newRow.term = drawer[d].term /\ newRow.user = drawer[d].user
       /\ newRow.var["CARD"] = 0 /\ newRow.counted = TRUE
       /\ newRow.term # NoOne => newRow.exp = drawer[d].exp /\ newRow.count = drawer[d].count
                                 /\ newRow.totalSales = drawer[d].totalSales
  BY <1>1, <1>2, <1>3, <1>4, <1>5, <1>11
<1> HIDE DEF next
<1>. QED BY <1>2, <1>6, <1>7, <1>8, <1>9, <1>10, <1>11, <1>12, CountedAgain

LEMMA NotAHand == \E c : c \notin Hands
<1> DEFINE c == {h \in Hands : h \notin h}
<1>1. c \notin Hands OBVIOUS
<1>. QED BY <1>1

LEMMA ApproveVarianceTill ==
    ASSUME TillInductive, NEW d \in Cards, Till!ApproveVariance(d)
    PROVE  TillInductive'
<1> DEFINE row == [drawer[d] EXCEPT !.status = "CLOSED", !.approved = TRUE]
<1>1. /\ drawer[d] # Till!NoDrawer
      /\ drawer' = [drawer EXCEPT ![d].status = "CLOSED", ![d].approved = TRUE]
      /\ UNCHANGED <<pay, drops, flagged, tillCall, misbooked, late, lost>>
  BY DEF Till!ApproveVariance
<1>2. drawer[d] \in DrawerRows /\ Has(d) /\ RowFits(d)
  BY <1>1 DEF TillInductive, TillTypes, RowFits, Has
<1>3. drawer' = [drawer EXCEPT ![d] = row] BY <1>1 DEF TillInductive, TillTypes
<1>4. /\ row \in DrawerRows /\ row.status = "CLOSED" /\ row.counted = drawer[d].counted
      /\ row.act = drawer[d].act /\ row.var = drawer[d].var /\ row.exp = drawer[d].exp
      /\ row.term = drawer[d].term /\ row.user = drawer[d].user /\ row.approved = TRUE
      /\ row.count = drawer[d].count /\ row.totalSales = drawer[d].totalSales
  BY <1>2 DEF DrawerRows
<1>5. drawer'[d] = row /\ DOMAIN tillCall' = Hands
  BY <1>1, <1>3 DEF TillInductive, TillTypes
<1> HIDE DEF row
<1>7. (d \notin late' => Vary(d)') /\ Seen(d)'
  BY <1>1, <1>4, <1>5 DEF TillInductive, Vary, Seen
<1>8. row.var["CARD"] = 0 /\ (~row.counted => row.var["CASH"] = 0)
  BY <1>2, <1>4 DEF RowFits
<1>9. PICK c : c \notin Hands BY NotAHand
<1>10. late \subseteq late' /\ \A q \in Hands \ {c} : tillCall'[q] = tillCall[q]
  BY <1>1
<1>11. tillCall'[c] = tillCall[c] BY <1>1
<1>. QED BY <1>1, <1>2, <1>3, <1>4, <1>5, <1>7, <1>8, <1>9, <1>10, <1>11, CountedAgain

LEMMA RemindTill ==
    ASSUME TillInductive, NEW d \in Cards, Till!Remind(d)
    PROVE  TillInductive'
<1>1. /\ flagged' = {d} /\ flagged = {}
      /\ UNCHANGED <<drawer, pay, drops, tillCall, misbooked, late, lost>>
  BY DEF Till!Remind
<1>2. PICK c : c \notin Hands BY NotAHand
<1>3. TillTypes' /\ Steady BY <1>1 DEF TillInductive, TillTypes, Steady, Has
<1>4. /\ \A q \in Hands \ {c} : tillCall'[q] = tillCall[q]
      /\ tillCall'[c] = tillCall[c]
      /\ \A e \in Cards \ {} : drawer'[e] = drawer[e]
      /\ \A o \in Receipts \ {} : pay'[o] = pay[o]
      /\ {} \in SUBSET Cards /\ {} \in SUBSET Receipts
  BY <1>1
<1>. QED BY <1>2, <1>3, <1>4, TillAgain

-----------------------------------------------------------------------------
(* Payments.                                                               *)

\* Row d of the drawers with a payment booked in it.
BookedIn(d, m, n, amount, sales) ==
    LET row == drawer'[d]
        was == drawer[d]
    IN  /\ row \in DrawerRows
        /\ row.exp[m] = was.exp[m] + n /\ row.count[m] = was.count[m] + sales
        /\ \A k \in Till!Methods \ {m} : row.exp[k] = was.exp[k] /\ row.count[k] = was.count[k]
        /\ row.totalSales = was.totalSales + amount
        /\ row.status = was.status /\ row.term = was.term /\ row.user = was.user
        /\ row.var = was.var /\ row.act = was.act
        /\ row.counted = was.counted /\ row.approved = was.approved

LEMMA BookTill ==
    ASSUME TillTypes, NEW d \in Cards, NEW m \in Till!Methods, NEW n \in Int, NEW amount \in Int,
           NEW sales \in Int, Till!Book(d, m, n, amount, sales)
    PROVE  /\ drawer' \in [Cards -> DrawerRows] /\ \A e \in Cards \ {d} : drawer'[e] = drawer[e]
           /\ BookedIn(d, m, n, amount, sales)
<1> DEFINE exp == [drawer[d].exp EXCEPT ![m] = drawer[d].exp[m] + n]
           count == [drawer[d].count EXCEPT ![m] = drawer[d].count[m] + sales]
           total == drawer[d].totalSales + amount
           row == [drawer[d] EXCEPT !.exp = exp, !.totalSales = total, !.count = count]
           new == [drawer[d] EXCEPT !.exp[m] = @ + n, !.totalSales = @ + amount, !.count[m] = @ + sales]
<1>1. drawer' = [drawer EXCEPT ![d] = new]
  <2>1. d # NoOne BY TillFacts
  <2>. QED BY <2>1 DEF Till!Book
<1>2. drawer[d] \in DrawerRows /\ drawer[d].exp \in Figures /\ drawer[d].count \in Figures
      /\ drawer[d].totalSales \in Int
  BY DEF TillTypes, DrawerRows
<1>3. new = row BY <1>2 DEF DrawerRows
<1>4. /\ exp \in Figures /\ exp[m] = drawer[d].exp[m] + n
      /\ \A k \in Till!Methods \ {m} : exp[k] = drawer[d].exp[k]
  BY <1>2 DEF Figures
<1>5. /\ count \in Figures /\ count[m] = drawer[d].count[m] + sales
      /\ \A k \in Till!Methods \ {m} : count[k] = drawer[d].count[k]
  BY <1>2 DEF Figures
<1>6. total \in Int BY <1>2
<1> HIDE DEF exp, count, total, new
<1>7. /\ row \in DrawerRows /\ row.exp = exp /\ row.count = count /\ row.totalSales = total
      /\ row.status = drawer[d].status /\ row.term = drawer[d].term /\ row.user = drawer[d].user
      /\ row.var = drawer[d].var /\ row.act = drawer[d].act
      /\ row.counted = drawer[d].counted /\ row.approved = drawer[d].approved
  BY <1>2, <1>4, <1>5, <1>6 DEF DrawerRows
<1> HIDE DEF row
<1>8. /\ drawer' \in [Cards -> DrawerRows] /\ drawer'[d] = row
      /\ \A e \in Cards \ {d} : drawer'[e] = drawer[e]
  BY <1>1, <1>3, <1>7 DEF TillTypes
<1>. QED BY <1>4, <1>5, <1>7, <1>8 DEF BookedIn, total

\* The counters follow the payment that is booked in them.
LEMMA CountersMove ==
    ASSUME TillTypes, TillTypes', NEW o \in Receipts, \A p \in Receipts \ {o} : pay'[p] = pay[p],
           NEW d \in Cards, NEW m \in Till!Methods, NEW n \in Int, NEW sales \in Int,
           Counters(d), BookedIn(d, m, n, n, sales),
           Worth(d, m)'[o] = Worth(d, m)[o] + n, Ones(d, m)'[o] = Ones(d, m)[o] + sales,
           \A k \in Till!Methods \ {m} : Worth(d, k)'[o] = Worth(d, k)[o] /\ Ones(d, k)'[o] = Ones(d, k)[o]
    PROVE  Counters(d)'
<1>1. ASSUME NEW k \in Till!Methods
      PROVE  /\ SumFunctionOnSet(Worth(d, k), Receipts) \in Int
             /\ SumFunctionOnSet(Ones(d, k), Receipts) \in Int
             /\ SumFunctionOnSet(Worth(d, k)', Receipts) =
                    SumFunctionOnSet(Worth(d, k), Receipts) + (IF k = m THEN n ELSE 0)
             /\ SumFunctionOnSet(Ones(d, k)', Receipts) =
                    SumFunctionOnSet(Ones(d, k), Receipts) + (IF k = m THEN sales ELSE 0)
  <2>1. /\ \A p \in Receipts : Worth(d, k)[p] \in Int
        /\ \A p \in Receipts : Ones(d, k)[p] \in Int
    BY WorthTyped
  <2>2. /\ SumFunctionOnSet(Worth(d, k), Receipts) \in Int
        /\ SumFunctionOnSet(Ones(d, k), Receipts) \in Int
    BY <2>1, SumInt, TillFacts
  <2>3. /\ SumFunctionOnSet(Worth(d, k)', Receipts) =
               SumFunctionOnSet(Worth(d, k), Receipts) - Worth(d, k)[o] + Worth(d, k)'[o]
        /\ SumFunctionOnSet(Ones(d, k)', Receipts) =
               SumFunctionOnSet(Ones(d, k), Receipts) - Ones(d, k)[o] + Ones(d, k)'[o]
    BY OnePaymentChanges
  <2>4. Worth(d, k)[o] \in Int /\ Ones(d, k)[o] \in Int BY <2>1
  <2>. QED BY <2>2, <2>3, <2>4
<1> DEFINE W(k) == SumFunctionOnSet(Worth(d, k), Receipts)
           X(k) == SumFunctionOnSet(Worth(d, k)', Receipts)
           N(k) == SumFunctionOnSet(Ones(d, k), Receipts)
           M(k) == SumFunctionOnSet(Ones(d, k)', Receipts)
<1>2. \A k \in Till!Methods : /\ W(k) \in Int /\ N(k) \in Int
                              /\ X(k) = W(k) + (IF k = m THEN n ELSE 0)
                              /\ M(k) = N(k) + (IF k = m THEN sales ELSE 0)
  BY <1>1
<1>3. /\ \A k \in Till!Methods : /\ drawer[d].exp[k] = W(k) + (IF k = "CASH" THEN Float ELSE 0)
                                 /\ drawer[d].count[k] = N(k)
      /\ drawer[d].totalSales = W("CASH") + W("CARD")
  BY DEF Counters
<1> HIDE DEF W, X, N, M
<1>4. \A k \in Till!Methods : /\ drawer'[d].exp[k] = X(k) + (IF k = "CASH" THEN Float ELSE 0)
                              /\ drawer'[d].count[k] = M(k)
  BY <1>2, <1>3, TillFacts DEF BookedIn
<1>5. drawer'[d].totalSales = X("CASH") + X("CARD")
  BY <1>2, <1>3, MethodsAre DEF BookedIn
<1>. QED BY <1>4, <1>5 DEF Counters, X, M

\* A caller books the payment of order o in drawer d, or in none.
LEMMA PaymentBooked ==
    ASSUME TillInductive, NEW c \in Hands, NEW o \in Receipts, NEW d \in MaybeDrawer,
           NEW m \in Till!Methods, NEW n \in Int, NEW amount \in Int, NEW sales \in Int,
           Till!Book(d, m, n, amount, sales), UNCHANGED <<drops, flagged, lost>>,
           tillCall' = [tillCall EXCEPT ![c] = Till!NoCall], tillCall[c].op # "flag",
           late \subseteq late', misbooked \subseteq misbooked',
           DOMAIN pay' = Receipts, \A p \in Receipts \ {o} : pay'[p] = pay[p],
           pay'[o] \in PaymentRows, pay'[o] # Till!NoPayment, PaymentFits(o)',
           pay[o] # Till!NoPayment => pay'[o].home = pay[o].home,
           d # NoOne /\ d \notin late' => ~drawer[d].counted,
           d # NoOne => Has(d),
           \A e \in Cards \ misbooked' :
               drawer'[e].term # NoOne /\ (e = d \/ e = pay'[o].home) => Counters(e)'
    PROVE  TillInductive'
<1>1. PICK D \in SUBSET Cards, P \in SUBSET Receipts : D = {d} \ {NoOne} /\ P = {o}
  BY DEF MaybeDrawer
<1>2. drawer' \in [Cards -> DrawerRows] /\ \A e \in Cards \ D : drawer'[e] = drawer[e]
  <2>1. CASE d = NoOne BY <1>1, <2>1 DEF Till!Book, TillInductive, TillTypes
  <2>2. CASE d \in Cards BY <1>1, <2>2, BookTill, TillFacts DEF TillInductive
  <2>. QED BY <2>1, <2>2 DEF MaybeDrawer
<1>3. TillTypes' BY <1>2 DEF TillInductive, TillTypes
<1>4. ASSUME d # NoOne PROVE d \in Cards /\ BookedIn(d, m, n, amount, sales)
  BY <1>4, BookTill DEF MaybeDrawer, TillInductive
<1>5. Steady
  <2>1. ASSUME NEW e \in Cards, Has(e) PROVE drawer'[e].status # "NONE" /\ drawer'[e].term = drawer[e].term
    BY <1>1, <1>2, <1>4, <2>1 DEF Has, BookedIn
  <2>2. ASSUME NEW p \in Receipts, pay[p] # Till!NoPayment
        PROVE  pay'[p] # Till!NoPayment /\ pay'[p].home = pay[p].home
    <3>1. CASE p = o BY <2>2, <3>1
    <3>2. CASE p # o BY <2>2, <3>2
    <3>. QED BY <3>1, <3>2
  <2>. QED BY <2>1, <2>2 DEF Steady
<1>6. ASSUME NEW e \in D
      PROVE  RowFits(e)' /\ (e \notin late' => Vary(e)') /\ (e \notin lost' => Seen(e)')
  <2>1. e = d /\ d \in Cards /\ BookedIn(d, m, n, amount, sales) /\ Has(d) /\ d # NoOne
    BY <1>1, <1>4, <1>6
  <2>2. RowFits(d)' BY <2>1 DEF TillInductive, RowFits, BookedIn, Has
  <2>3. d \notin late' => Vary(d)' BY <2>1 DEF Vary, BookedIn
  <2>4. d \notin lost' => Seen(d)'
    <3>1. SUFFICES ASSUME d \notin lost, Seen(d) PROVE Seen(d)'
      BY <2>1 DEF TillInductive
    <3>2. \A q \in Hands : tillCall[q].op = "flag" => tillCall'[q] = tillCall[q]
      BY DEF TillInductive, TillTypes
    <3>. QED BY <2>1, <3>1, <3>2 DEF Seen, BookedIn
  <2>. QED BY <2>1, <2>2, <2>3, <2>4
<1>7. ASSUME NEW e \in Cards \ misbooked', drawer'[e].term # NoOne,
             e \in D \/ \E p \in P, k \in Till!Methods : InDrawer(p, e, k) \/ InDrawer(p, e, k)'
      PROVE  Counters(e)'
  <2>1. e = d \/ e = pay'[o].home BY <1>1, <1>7 DEF InDrawer
  <2>. QED BY <1>7, <2>1
<1>8. /\ \A q \in Hands \ {c} : tillCall'[q] = tillCall[q]
      /\ CallWhole(c)'
      /\ tillCall'[c] = tillCall[c] \/
             (tillCall[c].op = "flag" => tillCall[c].drawer \in flagged' \union lost')
  BY Idle DEF TillInductive, TillTypes
<1>9. /\ \A p \in Receipts \ P : pay'[p] = pay[p]
      /\ \A p \in P : PaymentFits(p)'
  BY <1>1
<1>. QED BY <1>2, <1>3, <1>5, <1>6, <1>7, <1>8, <1>9, TillAgain

LEMMA SaleWriteTill ==
    ASSUME TillInductive, NEW c \in Hands, Till!SaleWrite(c)
    PROVE  TillInductive'
<1>0. PICK s, o, d : s = tillCall[c] /\ o = s.order /\ d = s.drawer OBVIOUS
<1>1. /\ s.op = "sale" /\ tillCall' = [tillCall EXCEPT ![c] = Till!NoCall]
      /\ UNCHANGED <<drops, flagged, misbooked, lost>>
  BY <1>0 DEF Till!SaleWrite, Till!Done, Till!Continue
<1>2. /\ o \in Receipts /\ s.term \in Terminals /\ s.method \in Till!Methods /\ s.amount \in Int
      /\ d \in MaybeDrawer /\ (d # NoOne => Has(d) /\ drawer[d].term = s.term)
  BY <1>0, <1>1 DEF TillInductive, CallWhole
<1>3. CASE pay[o] # Till!NoPayment
  <2>1. UNCHANGED <<drawer, pay, late>> BY <1>0, <1>3 DEF Till!SaleWrite
  <2>2. /\ UNCHANGED <<drawer, pay, late, misbooked>> /\ drops' \in [Cards -> Int]
        /\ flagged \subseteq flagged' /\ lost \subseteq lost' /\ tillCall[c].op # "flag"
    BY <1>0, <1>1, <2>1 DEF TillInductive, TillTypes
  <2>3. CallWhole(c)' BY <1>1, Idle DEF TillInductive, TillTypes
  <2>. QED BY <1>1, <2>2, <2>3, CallMoves
<1>4. CASE pay[o] = Till!NoPayment
  <2> DEFINE after == {e \in Cards : drawer[e] # Till!NoDrawer}
             during == {e \in Cards : drawer[e] # Till!NoDrawer /\ ~drawer[e].counted}
             row == [status |-> "COMPLETED", term |-> s.term, method |-> s.method, home |-> d,
                     amount |-> s.amount, net |-> s.amount, after |-> after, during |-> during]
  <2>1. /\ pay' = [pay EXCEPT ![o] = row]
        /\ Till!Book(d, s.method, s.amount, s.amount, 1)
        /\ late' = late \union ({d} \ (Till!OpenDrawers \union {NoOne}))
    BY <1>0, <1>4 DEF Till!SaleWrite
  <2>2. after \in SUBSET Cards /\ during \in SUBSET Cards OBVIOUS
  <2>3. \A e \in Cards : Has(e) /\ ~drawer[e].counted => e \in during
    BY NoDrawerIs DEF Has
  <2> HIDE DEF after, during
  <2>4. /\ row \in PaymentRows /\ row.status = "COMPLETED" /\ row.term = s.term
        /\ row.method = s.method /\ row.home = d /\ row.amount = s.amount /\ row.during = during
    BY <1>2, <2>2 DEF PaymentRows, PaymentStatuses
  <2>5. row # Till!NoPayment BY <2>4 DEF Till!NoPayment
  <2> HIDE DEF row
  <2>6. /\ DOMAIN pay' = Receipts /\ pay'[o] = row
        /\ \A p \in Receipts \ {o} : pay'[p] = pay[p]
    BY <1>2, <2>1 DEF TillInductive, TillTypes
  <2>7. d # NoOne /\ d \notin late' => ~drawer[d].counted
    BY <1>2, <2>1 DEF TillInductive, RowFits, Till!OpenDrawers, MaybeDrawer
  <2>8. /\ late \subseteq late' /\ misbooked \subseteq misbooked' /\ s.op # "flag"
        /\ 1 \in Int
    BY <1>1, <2>1
  <2>9. ASSUME d # NoOne PROVE d \in Cards /\ BookedIn(d, s.method, s.amount, s.amount, 1)
    BY <1>2, <2>1, <2>9, BookTill DEF MaybeDrawer, TillInductive
  <2>10. drawer' \in [Cards -> DrawerRows] /\ TillTypes'
    <3>1. drawer' \in [Cards -> DrawerRows]
      <4>1. CASE d = NoOne BY <2>1, <4>1 DEF Till!Book, TillInductive, TillTypes
      <4>2. CASE d # NoOne
        BY <1>2, <2>1, <2>8, <2>9, <4>2, BookTill DEF TillInductive
      <4>. QED BY <4>1, <4>2
    <3>2. DOMAIN tillCall' = Hands BY <1>1 DEF TillInductive, TillTypes
    <3>3. ASSUME NEW p \in Receipts, pay'[p] # Till!NoPayment PROVE pay'[p] \in PaymentRows
      <4>1. CASE p = o BY <2>4, <2>6, <4>1
      <4>2. CASE p # o BY <2>6, <3>3, <4>2 DEF TillInductive, TillTypes
      <4>. QED BY <4>1, <4>2
    <3>. QED BY <1>1, <2>6, <3>1, <3>2, <3>3 DEF TillInductive, TillTypes
  <2>11. PaymentFits(o)'
    <3>1. SUFFICES ASSUME d # NoOne
                   PROVE  /\ drawer'[d].status # "NONE" /\ drawer'[d].term = s.term
                          /\ d \notin late' => d \in during
      BY <2>4, <2>6 DEF PaymentFits, Has
    <3>. QED BY <1>2, <2>3, <2>7, <2>9, <3>1 DEF BookedIn, Has
  <2>12. ASSUME NEW e \in Cards \ misbooked', drawer'[e].term # NoOne, e = d \/ e = pay'[o].home
         PROVE  Counters(e)'
    <3>1. e = d /\ d # NoOne /\ d \in Cards BY <2>4, <2>6, <2>12, TillFacts
    <3>2. BookedIn(d, s.method, s.amount, s.amount, 1) BY <2>9, <3>1
    <3>3. Counters(d) BY <1>1, <2>12, <3>1, <3>2 DEF BookedIn, TillInductive
    <3>4. \A k : ~InDrawer(o, d, k) BY <1>4 DEF InDrawer
    <3>5. \A k : InDrawer(o, d, k)' <=> k = s.method
      BY <2>4, <2>5, <2>6 DEF InDrawer
    <3>6. /\ Worth(d, s.method)[o] = 0 /\ Ones(d, s.method)[o] = 0
          /\ Worth(d, s.method)'[o] = s.amount /\ Ones(d, s.method)'[o] = 1
      BY <1>2, <2>4, <2>6, <3>4, <3>5 DEF Worth, Ones
    <3>7. \A k \in Till!Methods \ {s.method} :
              Worth(d, k)'[o] = Worth(d, k)[o] /\ Ones(d, k)'[o] = Ones(d, k)[o]
      BY <1>2, <3>4, <3>5 DEF Worth, Ones
    <3>8. Worth(d, s.method)'[o] = Worth(d, s.method)[o] + s.amount
          /\ Ones(d, s.method)'[o] = Ones(d, s.method)[o] + 1
      BY <1>2, <3>6
    <3>9. TillTypes BY DEF TillInductive
    <3>. QED BY <1>2, <2>6, <2>8, <2>10, <3>1, <3>2, <3>3, <3>7, <3>8, <3>9, CountersMove
  <2>13. pay'[o] \in PaymentRows /\ pay'[o] # Till!NoPayment /\ (d # NoOne => Has(d))
    BY <1>2, <2>4, <2>5, <2>6
  <2>14. PICK m \in Till!Methods, n \in Int, one \in Int :
             Till!Book(d, m, n, n, one) /\ UNCHANGED <<drops, flagged, lost>>
    BY <1>1, <1>2, <2>1, <2>8
  <2>15. /\ tillCall' = [tillCall EXCEPT ![c] = Till!NoCall] /\ tillCall[c].op # "flag"
         /\ pay[o] # Till!NoPayment => pay'[o].home = pay[o].home
    BY <1>0, <1>1, <1>4
  <2>16. \A e \in Cards \ misbooked' :
             drawer'[e].term # NoOne /\ (e = d \/ e = pay'[o].home) => Counters(e)'
    BY <2>12
  <2>. QED BY <1>2, <2>6, <2>7, <2>8, <2>11, <2>13, <2>14, <2>15, <2>16, PaymentBooked
<1>. QED BY <1>3, <1>4

\* A void or correction of the payment of o, which was read as saw: d is the
\* drawer it is booked in, row what the payment becomes.
Changes(c, o, saw, d, n, amount, sales, row, clean) ==
    /\ c \in Hands /\ o \in Receipts /\ saw \in PaymentRows
    /\ d \in Till!FirstOf(Till!OpenAt(saw.term)) /\ n \in Int /\ amount \in Int /\ sales \in Int
    /\ Till!Book(d, saw.method, n, amount, sales)
    /\ row \in PaymentRows /\ pay' = [pay EXCEPT ![o] = row] /\ pay[o] # Till!NoPayment
    /\ pay[o].home = saw.home /\ row.home = pay[o].home /\ row.term = pay[o].term
    /\ row.method = pay[o].method /\ row.during = pay[o].during
    /\ UNCHANGED <<drops, flagged, late, lost>>
    /\ tillCall' = [tillCall EXCEPT ![c] = Till!NoCall] /\ tillCall[c].op # "flag"
    /\ clean \in BOOLEAN /\ misbooked' = misbooked \union Till!OffBy(o, saw, d, clean)
    /\ pay[o] = saw /\ clean =>
           /\ n = amount /\ saw.status = "COMPLETED"
           /\ row.status = "COMPLETED" => row.amount = saw.amount + n /\ sales = 0
           /\ row.status # "COMPLETED" => saw.amount + n = 0 /\ sales = -1

LEMMA PaymentChanged ==
    ASSUME TillInductive, NEW c, NEW o, NEW saw, NEW d, NEW n, NEW amount, NEW sales, NEW row, NEW clean,
           Changes(c, o, saw, d, n, amount, sales, row, clean)
    PROVE  TillInductive'
<1> USE DEF Changes
<1>1. d \in MaybeDrawer /\ (d # NoOne => d \in Cards /\ Has(d) /\ ~drawer[d].counted)
  BY TillFacts DEF Till!FirstOf, Till!OpenAt, Till!OpenDrawers, MaybeDrawer, Has, TillInductive, RowFits
<1>2. saw.method \in Till!Methods /\ saw.home \in MaybeDrawer BY DEF PaymentRows
<1>3. row # Till!NoPayment BY DEF PaymentRows, PaymentStatuses, Till!NoPayment
<1>4. /\ DOMAIN pay' = Receipts /\ pay'[o] = row
      /\ \A p \in Receipts \ {o} : pay'[p] = pay[p]
  BY DEF TillInductive, TillTypes
<1>5. ASSUME d # NoOne PROVE BookedIn(d, saw.method, n, amount, sales)
  BY <1>1, <1>2, <1>5, BookTill DEF TillInductive
<1>6. /\ drawer' \in [Cards -> DrawerRows]
      /\ \A e \in Cards : Has(e) => drawer'[e].status # "NONE" /\ drawer'[e].term = drawer[e].term
  <2>1. CASE d = NoOne BY <2>1 DEF Till!Book, TillInductive, TillTypes, Has
  <2>2. CASE d # NoOne
    <3>1. /\ drawer' \in [Cards -> DrawerRows]
          /\ \A e \in Cards \ {d} : drawer'[e] = drawer[e]
      BY <1>1, <1>2, <2>2, BookTill DEF TillInductive
    <3>. QED BY <1>5, <2>2, <3>1 DEF BookedIn, Has
  <2>. QED BY <2>1, <2>2
<1>7. TillTypes'
  <2>1. DOMAIN tillCall' = Hands BY DEF TillInductive, TillTypes
  <2>2. ASSUME NEW p \in Receipts, pay'[p] # Till!NoPayment PROVE pay'[p] \in PaymentRows
    <3>1. CASE p = o BY <1>4, <3>1
    <3>2. CASE p # o BY <1>4, <2>2, <3>2 DEF TillInductive, TillTypes
    <3>. QED BY <3>1, <3>2
  <2>. QED BY <1>4, <1>6, <2>1, <2>2 DEF TillInductive, TillTypes
<1>8. PaymentFits(o)'
  <2>1. PaymentFits(o) BY DEF TillInductive
  <2>2. saw.home # NoOne => saw.home \in Cards BY <1>2 DEF MaybeDrawer
  <2>. QED BY <1>4, <1>6, <2>1, <2>2 DEF PaymentFits, Has
<1>9. ASSUME NEW e \in Cards \ misbooked', drawer'[e].term # NoOne, e = d \/ e = pay'[o].home
      PROVE  Counters(e)'
  <2>1. e # NoOne /\ e \in {d, saw.home} BY <1>4, <1>9, TillFacts
  <2>2. pay[o] = saw /\ d = saw.home /\ clean /\ e = d
    BY <1>9, <2>1 DEF Till!OffBy
  <2>3. BookedIn(d, saw.method, n, n, sales) /\ d \in Cards
    BY <1>1, <1>5, <2>1, <2>2
  <2>4. Counters(d) BY <1>9, <2>2, <2>3 DEF BookedIn, TillInductive
  <2>5. /\ \A k : InDrawer(o, d, k) <=> k = saw.method
        /\ \A k : InDrawer(o, d, k)' <=> k = saw.method /\ row.status = "COMPLETED"
    BY <1>3, <1>4, <2>2 DEF InDrawer
  <2>6. /\ Worth(d, saw.method)[o] = saw.amount /\ Ones(d, saw.method)[o] = 1
        /\ Worth(d, saw.method)'[o] = (IF row.status = "COMPLETED" THEN row.amount ELSE 0)
        /\ Ones(d, saw.method)'[o] = (IF row.status = "COMPLETED" THEN 1 ELSE 0)
    BY <1>4, <2>2, <2>5 DEF Worth, Ones
  <2>7. \A k \in Till!Methods \ {saw.method} :
            Worth(d, k)'[o] = Worth(d, k)[o] /\ Ones(d, k)'[o] = Ones(d, k)[o]
    BY <2>5 DEF Worth, Ones
  <2>8. Worth(d, saw.method)'[o] = Worth(d, saw.method)[o] + n
        /\ Ones(d, saw.method)'[o] = Ones(d, saw.method)[o] + sales
    BY <2>2, <2>6
  <2>9. TillTypes BY DEF TillInductive
  <2>. QED BY <1>2, <1>4, <1>7, <2>2, <2>3, <2>4, <2>7, <2>8, <2>9, CountersMove
<1>10. /\ late \subseteq late' /\ misbooked \subseteq misbooked'
       /\ UNCHANGED <<drops, flagged, lost>>
       /\ pay[o] # Till!NoPayment => pay'[o].home = pay[o].home
       /\ d # NoOne /\ d \notin late' => ~drawer[d].counted
       /\ d # NoOne => Has(d)
  BY <1>1, <1>4
<1>11. \A e \in Cards \ misbooked' :
           drawer'[e].term # NoOne /\ (e = d \/ e = pay'[o].home) => Counters(e)'
  BY <1>9
<1>12. pay'[o] \in PaymentRows /\ pay'[o] # Till!NoPayment BY <1>3, <1>4
<1>13. PICK m \in Till!Methods : m = saw.method /\ Till!Book(d, m, n, amount, sales)
  BY <1>2
<1>. QED BY <1>1, <1>4, <1>8, <1>10, <1>11, <1>12, <1>13, PaymentBooked

LEMMA VoidWriteTill ==
    ASSUME TillInductive, NEW c \in Hands, Till!VoidWrite(c)
    PROVE  TillInductive'
<1>0. PICK v, o, saw, back :
          /\ v = tillCall[c] /\ o = v.order /\ saw = v.saw
          /\ back = IF saw.method = "CASH" THEN saw.net ELSE saw.amount
  OBVIOUS
<1>1. /\ v.op = "void" /\ tillCall' = [tillCall EXCEPT ![c] = Till!NoCall]
      /\ pay' = [pay EXCEPT ![o].status = "VOIDED"]
      /\ UNCHANGED <<drops, flagged, late, lost>>
  BY <1>0 DEF Till!VoidWrite, Till!Done, Till!Continue
<1>2. PICK d \in Till!FirstOf(Till!OpenAt(saw.term)) :
          /\ Till!Book(d, saw.method, -back, -saw.amount, -1)
          /\ misbooked' = misbooked \union Till!OffBy(o, saw, d, back = saw.amount)
  BY <1>0 DEF Till!VoidWrite
<1>3. /\ o \in Receipts /\ saw \in PaymentRows /\ saw.status = "COMPLETED"
      /\ pay[o] # Till!NoPayment /\ pay[o].home = saw.home /\ pay[o] \in PaymentRows
  BY <1>0, <1>1 DEF TillInductive, TillTypes, CallWhole
<1>4. saw.amount \in Int /\ back \in Int BY <1>0, <1>3 DEF PaymentRows
<1> DEFINE row == [pay[o] EXCEPT !.status = "VOIDED"]
<1>5. /\ row \in PaymentRows /\ row.status = "VOIDED" /\ row.home = pay[o].home
      /\ row.term = pay[o].term /\ row.method = pay[o].method /\ row.during = pay[o].during
  BY <1>3 DEF PaymentRows, PaymentStatuses
<1>6. pay' = [pay EXCEPT ![o] = row] BY <1>1
<1> HIDE DEF row
<1>7. PICK newRow \in PaymentRows : newRow = row BY <1>5
<1>8. PICK clean \in BOOLEAN : clean = (back = saw.amount) OBVIOUS
<1>9. PICK n \in Int : n = -back BY <1>4
<1>10. PICK amount \in Int : amount = -saw.amount BY <1>4
<1>11. PICK sales \in Int : sales = -1 OBVIOUS
<1>12. Till!Book(d, saw.method, n, amount, sales) BY <1>2, <1>9, <1>10, <1>11
<1>13. misbooked' = misbooked \union Till!OffBy(o, saw, d, clean) BY <1>2, <1>8
<1>14. pay' = [pay EXCEPT ![o] = newRow] BY <1>6, <1>7
<1>15. ASSUME pay[o] = saw, clean
       PROVE  /\ n = amount /\ saw.status = "COMPLETED"
              /\ newRow.status = "COMPLETED" => newRow.amount = saw.amount + n /\ sales = 0
              /\ newRow.status # "COMPLETED" => saw.amount + n = 0 /\ sales = -1
  <2>1. back = saw.amount BY <1>8, <1>15
  <2>2. newRow.status # "COMPLETED" BY <1>5, <1>7
  <2>. QED BY <1>3, <1>4, <1>9, <1>10, <1>11, <2>1, <2>2
<1>16. /\ tillCall[c].op # "flag" /\ tillCall' = [tillCall EXCEPT ![c] = Till!NoCall]
       /\ UNCHANGED <<drops, flagged, late, lost>>
  BY <1>0, <1>1
<1>17. newRow.home = pay[o].home /\ newRow.term = pay[o].term /\ newRow.during = pay[o].during
  BY <1>5, <1>7
<1>18. pay[o] = saw /\ clean =>
           /\ n = amount /\ saw.status = "COMPLETED"
           /\ newRow.status = "COMPLETED" => newRow.amount = saw.amount + n /\ sales = 0
           /\ newRow.status # "COMPLETED" => saw.amount + n = 0 /\ sales = -1
  BY <1>15
<1>19. newRow.method = pay[o].method BY <1>5, <1>7
<1>20. Changes(c, o, saw, d, n, amount, sales, newRow, clean)
  BY <1>2, <1>3, <1>7, <1>8, <1>9, <1>10, <1>11, <1>12, <1>13, <1>14, <1>16, <1>17, <1>18, <1>19
     DEF Changes
<1>. QED BY <1>20, PaymentChanged

LEMMA CorrectWriteTill ==
    ASSUME TillInductive, NEW c \in Hands, Till!CorrectWrite(c)
    PROVE  TillInductive'
<1>0. PICK v, o, saw : v = tillCall[c] /\ o = v.order /\ saw = v.saw OBVIOUS
<1>1. /\ v.op = "correct" /\ tillCall' = [tillCall EXCEPT ![c] = Till!NoCall]
      /\ pay' = [pay EXCEPT ![o].amount = v.amount]
      /\ UNCHANGED <<drops, flagged, late, lost>>
  BY <1>0 DEF Till!CorrectWrite, Till!Done, Till!Continue
<1>2. PICK d \in Till!FirstOf(Till!OpenAt(saw.term)) :
          /\ Till!Book(d, saw.method, v.amount - saw.amount, v.amount - saw.amount, 0)
          /\ misbooked' = misbooked \union Till!OffBy(o, saw, d, TRUE)
  BY <1>0 DEF Till!CorrectWrite
<1>3. /\ o \in Receipts /\ saw \in PaymentRows /\ saw.status = "COMPLETED" /\ v.amount \in Int
      /\ pay[o] # Till!NoPayment /\ pay[o].home = saw.home /\ pay[o] \in PaymentRows
  BY <1>0, <1>1 DEF TillInductive, TillTypes, CallWhole
<1>4. saw.amount \in Int BY <1>3 DEF PaymentRows
<1> DEFINE row == [pay[o] EXCEPT !.amount = v.amount]
<1>5. /\ row \in PaymentRows /\ row.status = pay[o].status /\ row.home = pay[o].home
      /\ row.term = pay[o].term /\ row.method = pay[o].method /\ row.during = pay[o].during
      /\ row.amount = v.amount
  BY <1>3 DEF PaymentRows
<1>6. pay' = [pay EXCEPT ![o] = row] BY <1>1
<1> HIDE DEF row
<1>7. PICK newRow \in PaymentRows : newRow = row BY <1>5
<1>8. PICK n \in Int : n = v.amount - saw.amount BY <1>3, <1>4
<1>9. PICK clean \in BOOLEAN : clean = TRUE OBVIOUS
<1>10. PICK sales \in Int : sales = 0 OBVIOUS
<1>11. Till!Book(d, saw.method, n, n, sales) BY <1>2, <1>8, <1>10
<1>12. misbooked' = misbooked \union Till!OffBy(o, saw, d, clean) BY <1>2, <1>9
<1>13. pay' = [pay EXCEPT ![o] = newRow] BY <1>6, <1>7
<1>14. ASSUME pay[o] = saw, clean
       PROVE  /\ n = n /\ saw.status = "COMPLETED"
              /\ newRow.status = "COMPLETED" => newRow.amount = saw.amount + n /\ sales = 0
              /\ newRow.status # "COMPLETED" => saw.amount + n = 0 /\ sales = -1
  <2>1. newRow.status = "COMPLETED" /\ newRow.amount = v.amount
    BY <1>3, <1>5, <1>7, <1>14
  <2>. QED BY <1>3, <1>4, <1>8, <1>10, <2>1
<1>15. /\ tillCall[c].op # "flag" /\ tillCall' = [tillCall EXCEPT ![c] = Till!NoCall]
       /\ UNCHANGED <<drops, flagged, late, lost>>
  BY <1>0, <1>1
<1>16. newRow.home = pay[o].home /\ newRow.term = pay[o].term /\ newRow.during = pay[o].during
  BY <1>5, <1>7
<1>17. pay[o] = saw /\ clean =>
           /\ n = n /\ saw.status = "COMPLETED"
           /\ newRow.status = "COMPLETED" => newRow.amount = saw.amount + n /\ sales = 0
           /\ newRow.status # "COMPLETED" => saw.amount + n = 0 /\ sales = -1
  BY <1>14
<1>18. newRow.method = pay[o].method BY <1>5, <1>7
<1>19. Changes(c, o, saw, d, n, n, sales, newRow, clean)
  BY <1>2, <1>3, <1>7, <1>8, <1>9, <1>10, <1>11, <1>12, <1>13, <1>15, <1>16, <1>17, <1>18
     DEF Changes
<1>. QED BY <1>19, PaymentChanged

LEMMA OverrideTill ==
    ASSUME TillInductive, NEW o \in Receipts, NEW to \in PaymentStatuses, Till!Override(o, to)
    PROVE  TillInductive'
<1> DEFINE row == [pay[o] EXCEPT !.status = to]
<1>1. /\ pay[o] # Till!NoPayment /\ pay' = [pay EXCEPT ![o] = row]
      /\ misbooked' = misbooked \union ({pay[o].home} \ {NoOne})
      /\ UNCHANGED <<drawer, drops, flagged, tillCall, late, lost>>
  BY DEF Till!Override
<1>2. pay[o] \in PaymentRows BY <1>1 DEF TillInductive, TillTypes
<1>3. /\ row \in PaymentRows /\ row.home = pay[o].home /\ row.term = pay[o].term
      /\ row.during = pay[o].during
  BY <1>2 DEF PaymentRows
<1>4. row # Till!NoPayment
  BY <1>3 DEF PaymentRows, PaymentStatuses, Till!NoPayment
<1> HIDE DEF row
<1>5. /\ DOMAIN pay' = Receipts /\ pay'[o] = row
      /\ \A p \in Receipts \ {o} : pay'[p] = pay[p]
  BY <1>1 DEF TillInductive, TillTypes
<1>6. TillTypes'
  <2>1. ASSUME NEW p \in Receipts, pay'[p] # Till!NoPayment PROVE pay'[p] \in PaymentRows
    <3>1. CASE p = o BY <1>3, <1>5, <3>1
    <3>2. CASE p # o BY <1>5, <2>1, <3>2 DEF TillInductive, TillTypes
    <3>. QED BY <3>1, <3>2
  <2>. QED BY <1>1, <1>5, <2>1 DEF TillInductive, TillTypes
<1>7. Steady
  <2>1. ASSUME NEW p \in Receipts, pay[p] # Till!NoPayment
        PROVE  pay'[p] # Till!NoPayment /\ pay'[p].home = pay[p].home
    <3>1. CASE p = o BY <1>3, <1>4, <1>5, <3>1
    <3>2. CASE p # o BY <1>5, <2>1, <3>2
    <3>. QED BY <3>1, <3>2
  <2>. QED BY <1>1, <2>1 DEF Steady, Has
<1>8. PaymentFits(o)' BY <1>1, <1>3, <1>5 DEF TillInductive, PaymentFits, Has
<1>9. PICK c : c \notin Hands BY NotAHand
<1>10. PICK D \in SUBSET Cards, P \in SUBSET Receipts : D = {} /\ P = {o} OBVIOUS
<1>11. ASSUME NEW e \in Cards \ misbooked', drawer'[e].term # NoOne,
              e \in D \/ \E p \in P, m \in Till!Methods : InDrawer(p, e, m) \/ InDrawer(p, e, m)'
       PROVE  Counters(e)'
  BY <1>1, <1>3, <1>5, <1>10, <1>11, TillFacts DEF InDrawer
<1>12. /\ \A q \in Hands \ {c} : tillCall'[q] = tillCall[q]
       /\ tillCall'[c] = tillCall[c]
       /\ \A e \in Cards \ D : drawer'[e] = drawer[e]
       /\ \A p \in Receipts \ P : pay'[p] = pay[p]
       /\ \A p \in P : PaymentFits(p)'
       /\ \A e \in D : /\ RowFits(e)'
                       /\ e \notin late' => Vary(e)'
                       /\ e \notin lost' => Seen(e)'
  BY <1>1, <1>5, <1>8, <1>10
<1>. QED BY <1>6, <1>7, <1>9, <1>11, <1>12, TillAgain

LEMMA TillStep ==
    ASSUME TillInductive, Till!Next
    PROVE  TillInductive'
<1>1. ASSUME NEW c \in Hands, Till!CallerStep(c) PROVE TillInductive'
  <2>1. ASSUME NEW t \in Terminals, Till!TerminalOpenRead(c, t) PROVE TillInductive'
    BY <2>1, TerminalOpenReadTill
  <2>2. ASSUME NEW u \in Cashiers, Till!StaffOpenRead(c, u) PROVE TillInductive'
    BY <2>2, StaffOpenReadTill
  <2>3. ASSUME NEW o \in Receipts, NEW t \in Terminals, NEW m \in Till!Methods, NEW n \in Till!Amounts,
               Till!SaleRead(c, o, t, m, n)
        PROVE  TillInductive'
    BY <2>3, SaleReadTill
  <2>4. ASSUME NEW o \in Receipts, Till!VoidRead(c, o) PROVE TillInductive'
    <3>1. Till!PaymentRead(c, o, "void", 0) /\ "void" \in {"void", "correct"} /\ 0 \in Int
      BY <2>4 DEF Till!VoidRead
    <3>. QED BY <3>1, PaymentReadTill
  <2>5. ASSUME NEW o \in Receipts, NEW n \in Till!Amounts, Till!CorrectRead(c, o, n)
        PROVE  TillInductive'
    <3>1. Till!PaymentRead(c, o, "correct", n) /\ "correct" \in {"void", "correct"} /\ n \in Int
      BY <2>5, AmountsAreInt DEF Till!CorrectRead
    <3>. QED BY <3>1, PaymentReadTill
  <2>6. ASSUME NEW d \in Cards, Till!TerminalCloseRead(c, d) \/ Till!StaffCloseRead(c, d)
        PROVE  TillInductive'
    BY <2>6, TerminalCloseReadTill, StaffCloseReadTill
  <2>7. ASSUME NEW d \in Cards, NEW n \in Till!Amounts, Till!DropRead(c, d, n) PROVE TillInductive'
    BY <2>7, DropReadTill
  <2>8. ASSUME \/ Till!OpenWrite(c) \/ Till!SaleWrite(c) \/ Till!VoidWrite(c) \/ Till!CorrectWrite(c)
               \/ Till!TerminalCloseWrite(c) \/ Till!StaffCloseSales(c) \/ Till!StaffCloseRefunds(c)
               \/ Till!StaffCloseWrite(c) \/ Till!Flag(c) \/ Till!DropWrite(c) \/ Till!Drop(c)
        PROVE  TillInductive'
    BY <2>8, OpenWriteTill, SaleWriteTill, VoidWriteTill, CorrectWriteTill, TerminalCloseWriteTill,
       StaffCloseSalesTill, StaffCloseRefundsTill, StaffCloseWriteTill, FlagTill, DropWriteTill,
       DropTill
  <2>. QED BY <1>1, <2>1, <2>2, <2>3, <2>4, <2>5, <2>6, <2>7, <2>8 DEF Till!CallerStep
<1>2. ASSUME NEW o \in Receipts, NEW to \in {"PAID", "FAILED", "CANCELLED", "REFUNDED"},
             Till!Override(o, to)
      PROVE  TillInductive'
  <2>1. to \in PaymentStatuses BY DEF PaymentStatuses
  <2>. QED BY <1>2, <2>1, OverrideTill
<1>3. ASSUME NEW d \in Cards, Till!ApproveVariance(d) \/ Till!Remind(d) PROVE TillInductive'
  BY <1>3, ApproveVarianceTill, RemindTill
<1>. QED BY <1>1, <1>2, <1>3 DEF Till!Next

LEMMA TillStart ==
    ASSUME Till!Init
    PROVE  TillInductive
<1>1. /\ drawer = [d \in Cards |-> Till!NoDrawer] /\ pay = [o \in Receipts |-> Till!NoPayment]
      /\ drops = [d \in Cards |-> 0] /\ tillCall = [c \in Hands |-> Till!NoCall]
  BY DEF Till!Init
<1>2. TillTypes BY <1>1, NoDrawerIs DEF TillTypes
<1>3. \A c \in Hands : CallWhole(c) BY <1>1 DEF CallWhole, Till!NoCall
<1>4. \A d \in Cards : RowFits(d) /\ Vary(d) /\ Seen(d) /\ drawer[d].term = NoOne
  BY <1>1, NoDrawerIs, MethodsAre DEF RowFits, Vary, Seen
<1>5. \A o \in Receipts : PaymentFits(o) BY <1>1 DEF PaymentFits
<1>. QED BY <1>2, <1>3, <1>4, <1>5 DEF TillInductive

-----------------------------------------------------------------------------
(* What the drawers and their reports say.                                 *)

LEMMA TillBooks ==
    ASSUME TillInductive
    PROVE  Till!DrawerBooks
<1>1. ASSUME NEW d \in Cards \ misbooked, NEW m \in Till!Methods, drawer[d].term # NoOne
      PROVE  drawer[d].exp[m] = Till!Sum(Till!Sold(d, m)) + IF m = "CASH" THEN Float ELSE 0
  <2>1. Till!Sold(d, m) = {o \in Receipts : InDrawer(o, d, m)}
    BY InDrawerIsSold DEF Till!Sold
  <2>2. Till!Sum(Till!Sold(d, m)) = SumFunctionOnSet(Worth(d, m), Receipts)
    BY <2>1, SumOfSome DEF TillInductive
  <2>. QED BY <1>1, <2>2 DEF TillInductive, Counters
<1>2. ASSUME NEW d \in Cards \ late, drawer[d].counted
      PROVE  drawer[d].var["CASH"] = drawer[d].act["CASH"] - drawer[d].exp["CASH"]
  BY <1>2 DEF TillInductive, Vary
<1>. QED BY <1>1, <1>2 DEF Till!DrawerBooks, Till!CounterExplained, Till!VarianceCurrent

LEMMA TillSeen ==
    ASSUME TillInductive
    PROVE  Till!NoSilentShortage
  BY DEF TillInductive, Seen, Till!NoSilentShortage

\* The payments of the session's time and terminal are the drawer's own.
LEMMA ActiveIsInDrawer ==
    ASSUME TillInductive, NEW d \in Till!Sessions \ (misbooked \union late), ~Till!Straddled(d), NEW m
    PROVE  Till!ActiveBy(d, m) = {o \in Receipts : InDrawer(o, d, m)}
<1>1. d \in Cards /\ d # NoOne BY TillFacts DEF Till!Sessions
<1>2. ASSUME NEW o \in Receipts PROVE o \in Till!ActiveBy(d, m) <=> InDrawer(o, d, m)
  <2>1. ASSUME InDrawer(o, d, m) PROVE o \in Till!ActiveBy(d, m)
    <3>1. PaymentFits(o) BY DEF TillInductive
    <3>. QED BY <1>1, <2>1, <3>1 DEF InDrawer, PaymentFits, Till!ActiveBy, Till!Active, Till!Taken
  <2>2. ASSUME o \in Till!ActiveBy(d, m) PROVE InDrawer(o, d, m)
    BY <2>2 DEF InDrawer, Till!ActiveBy, Till!Active, Till!Taken, Till!Straddled
  <2>. QED BY <2>1, <2>2
<1>3. Till!ActiveBy(d, m) \subseteq Receipts
  BY DEF Till!ActiveBy, Till!Active, Till!Taken
<1>. QED BY <1>2, <1>3

LEMMA ShiftsExplained ==
    ASSUME TillInductive
    PROVE  Till!ShiftExplained
<1> SUFFICES ASSUME NEW d \in Till!Sessions \ (misbooked \union late), ~Till!Straddled(d)
             PROVE  LET r == Till!getShiftReport(d)
                    IN  /\ \A m \in Till!Methods :
                               r.total[m] + (IF m = "CASH" THEN Float ELSE 0) = r.expected[m]
                        /\ r.count = drawer[d].count
                        /\ r.totalSales = drawer[d].totalSales
  BY DEF Till!ShiftExplained
<1> DEFINE r == Till!getShiftReport(d)
<1>1. d \in Cards \ misbooked /\ drawer[d].term # NoOne BY DEF Till!Sessions
<1>2. TillTypes /\ Counters(d) /\ drawer[d].count \in Figures
  BY <1>1 DEF TillInductive, TillTypes, DrawerRows
<1>3. ASSUME NEW m \in Till!Methods
      PROVE  /\ Till!Sum(Till!ActiveBy(d, m)) = SumFunctionOnSet(Worth(d, m), Receipts)
             /\ Till!Cardinality(Till!ActiveBy(d, m)) = SumFunctionOnSet(Ones(d, m), Receipts)
  BY <1>2, ActiveIsInDrawer, SumOfSome
<1>4. /\ r.expected = drawer[d].exp
      /\ \A m \in Till!Methods : r.total[m] = Till!Sum(Till!ActiveBy(d, m))
      /\ r.count = [m \in Till!Methods |-> Till!Cardinality(Till!ActiveBy(d, m))]
      /\ r.totalSales = Till!Sum(Till!ActiveBy(d, "CASH")) + Till!Sum(Till!ActiveBy(d, "CARD"))
  BY DEF Till!getShiftReport
<1> HIDE DEF r
<1>5. \A m \in Till!Methods : r.total[m] + (IF m = "CASH" THEN Float ELSE 0) = r.expected[m]
  BY <1>2, <1>3, <1>4 DEF Counters
<1>6. drawer[d].count = [m \in Till!Methods |-> drawer[d].count[m]]
  BY <1>2 DEF Figures
<1>7. r.count = [m \in Till!Methods |-> drawer[d].count[m]]
  BY <1>2, <1>3, <1>4 DEF Counters
<1>8. r.totalSales = drawer[d].totalSales
  BY <1>2, <1>3, <1>4, MethodsAre DEF Counters
<1>. QED BY <1>5, <1>6, <1>7, <1>8 DEF r

LEMMA ShiftStatusesFollowed ==
    ASSUME TillInductive
    PROVE  Till!ShiftStatusFollowed
<1> SUFFICES ASSUME NEW d \in Till!Sessions \ lost,
                    Till!getShiftReport(d).status = "SIGNIFICANT_VARIANCE"
             PROVE  \/ drawer[d].approved
                    \/ d \in flagged
                    \/ \E c \in Hands : tillCall[c].op = "flag" /\ tillCall[c].drawer = d
  BY DEF Till!ShiftStatusFollowed
<1> DEFINE cash == drawer[d].var["CASH"]
           card == drawer[d].var["CARD"]
<1>1. d \in Cards /\ d \notin lost BY DEF Till!Sessions
<1>2. cash \in Int /\ card = 0 /\ (~drawer[d].counted => cash = 0) /\ Seen(d)
  BY <1>1, MethodsAre DEF TillInductive, TillTypes, DrawerRows, Figures, RowFits
<1>3. Till!VarianceStatus(cash + card) = "SIGNIFICANT_VARIANCE"
  BY DEF Till!getShiftReport
<1>4. ~(Till!Abs(cash + card) <= CashThreshold) BY <1>3 DEF Till!VarianceStatus
<1>5. cash + card = cash /\ Till!Abs(cash) \in Int BY <1>2 DEF Till!Abs
<1>6. ~(Till!Abs(cash) <= CashThreshold) BY <1>4, <1>5
<1>7. Till!Abs(cash) > CashThreshold BY <1>5, <1>6, TillFacts
<1>8. drawer[d].counted BY <1>2, <1>7, TillFacts DEF Till!Abs
<1>. QED BY <1>2, <1>7, <1>8 DEF Seen

\* What each terminal's closed sessions add up to is what all of them do.
LEMMA SumByTerminal ==
    ASSUME TillInductive, NEW f, \A d \in Till!Closed : f[d] \in Int,
           NEW K, K = {drawer[d].term : d \in Till!Closed},
           NEW g, DOMAIN g = K, g = [t \in K |-> g[t]],
           \A t \in K : g[t] = SumFunctionOnSet(f, {d \in Till!Closed : drawer[d].term = t})
    PROVE  SumFunctionOnSet(f, Till!Closed) = Till!SumFunction(g)
<1> DEFINE C == Till!Closed
           group == [d \in C |-> drawer[d].term]
           h == [t \in K |-> SumFunctionOnSet(f, {d \in C : group[d] = t})]
<1>1. IsFiniteSet(C) BY TillFacts, FS_Subset DEF Till!Closed, Till!Sessions
<1>2. IsFiniteSet(K)
  <2>1. group \in Surjection(C, K) BY DEF Surjection
  <2>. QED BY <1>1, <2>1, FS_Surjection
<1>3. /\ \A d \in C : group[d] \in K /\ f[d] \in Int
      /\ \A t \in K : {d \in C : drawer[d].term = t} = {d \in C : group[d] = t}
  OBVIOUS
<1>4. h = [t \in K |-> g[t]] BY <1>3
<1> HIDE DEF C, group
<1>5. SumFunctionOnSet(f, C) = SumFunctionOnSet(h, K)
  BY <1>1, <1>2, <1>3, SumGroups
<1>6. h = g /\ DOMAIN g = K BY <1>4
<1>. QED BY <1>5, <1>6, SumsOfTill DEF C

LEMMA TillSummaries ==
    ASSUME TillInductive
    PROVE  Till!SummariesAgree
<1> DEFINE C == Till!Closed
           S == Till!Sessions
           O == S \intersect Till!OpenDrawers
           K == {drawer[d].term : d \in C}
           perf == Till!getTerminalPerformance
           history == Till!getSessionHistory(S)
           day == Till!getDailySummary
           At(t) == {d \in C : drawer[d].term = t}
<1>1. /\ IsFiniteSet(C) /\ IsFiniteSet(O) /\ S \intersect C = C /\ C \in SUBSET Cards
  BY TillFacts, FS_Subset DEF Till!Closed, Till!Sessions
<1>2. \A d \in Cards : drawer[d] \in DrawerRows BY DEF TillInductive, TillTypes
<1>3. /\ history.totalSalesVolume = Till!Sales(C) /\ day.totalSales = Till!Sales(C)
      /\ history.closedSessions = Till!Cardinality(C) /\ day.closedSessions = Till!Cardinality(C)
      /\ history.openSessions = Till!Cardinality(O) /\ (day.hasOpenDrawers <=> O # {})
      /\ day.totalCashVariance = Till!Variance(C, "CASH")
      /\ history.totalCashVariance = Till!AbsVariance(C, "CASH")
  BY <1>1 DEF Till!getSessionHistory, Till!getDailySummary
<1>4. /\ DOMAIN perf = K
      /\ \A t \in K : perf[t].sessions = Till!Cardinality(At(t)) /\ perf[t].totalSales = Till!Sales(At(t))
  BY DEF Till!getTerminalPerformance
<1>5. \A t : IsFiniteSet(At(t)) /\ At(t) \in SUBSET C BY <1>1, FS_Subset
<1> HIDE DEF perf, history, day
<1>6. Till!Sales(C) = Till!SumFunction([t \in DOMAIN perf |-> perf[t].totalSales])
  <2> DEFINE f == [d \in C |-> drawer[d].totalSales]
             g == [t \in DOMAIN perf |-> perf[t].totalSales]
  <2>1. \A d \in C : f[d] \in Int BY <1>1, <1>2 DEF DrawerRows
  <2>2. Till!Sales(C) = SumFunctionOnSet(f, C) BY SumsOfTill DEF Till!Sales
  <2>3. ASSUME NEW t \in K PROVE g[t] = SumFunctionOnSet(f, At(t))
    <3> DEFINE h == [d \in At(t) |-> drawer[d].totalSales]
    <3>1. Till!Sales(At(t)) = SumFunctionOnSet(h, At(t))
      BY SumsOfTill DEF Till!Sales
    <3>2. g[t] = Till!Sales(At(t)) BY <1>4
    <3>3. \A d \in At(t) : h[d] \in Int /\ h[d] = f[d] BY <2>1
    <3> HIDE DEF h, f, g
    <3>. QED BY <1>5, <3>1, <3>2, <3>3, SumSame
  <2>4. DOMAIN g = K /\ g = [t \in K |-> g[t]] BY <1>4
  <2> HIDE DEF f, g
  <2>5. SumFunctionOnSet(f, C) = Till!SumFunction(g)
    BY <2>1, <2>3, <2>4, SumByTerminal
  <2>. QED BY <2>2, <2>5 DEF g
<1>7. Till!Cardinality(C) = Till!SumFunction([t \in DOMAIN perf |-> perf[t].sessions])
  <2> DEFINE f == [d \in C |-> 1]
             g == [t \in DOMAIN perf |-> perf[t].sessions]
  <2>1. (\A d \in C : f[d] = 1) /\ 1 \in Int OBVIOUS
  <2>2. DOMAIN g = K /\ g = [t \in K |-> g[t]] /\ \A t \in K : g[t] = Cardinality(At(t))
    BY <1>4, FiniteInTill
  <2> HIDE DEF f, g
  <2>3. Till!Cardinality(C) = SumFunctionOnSet(f, C)
    BY <1>1, <2>1, SumOnes, FiniteInTill
  <2>4. ASSUME NEW t \in K PROVE g[t] = SumFunctionOnSet(f, At(t))
    <3>1. \A d \in At(t) : f[d] = 1 BY <2>1
    <3>. QED BY <1>5, <2>2, <3>1, SumOnes
  <2>5. \A d \in C : f[d] \in Int BY <2>1
  <2>6. SumFunctionOnSet(f, C) = Till!SumFunction(g)
    BY <2>2, <2>4, <2>5, SumByTerminal
  <2>. QED BY <2>3, <2>6 DEF g
<1>8. Till!Cardinality(Till!generateDrawerSummaryReport) = Till!Cardinality(C)
  <2> DEFINE Line(d) == [drawer |-> d, terminal |-> drawer[d].term, opening |-> Float,
                         expected |-> drawer[d].exp, actual |-> drawer[d].act,
                         variance |-> drawer[d].var, count |-> drawer[d].count,
                         totalSales |-> drawer[d].totalSales]
             lines == {Line(d) : d \in C}
             line == [d \in C |-> Line(d)]
  <2>1. Till!generateDrawerSummaryReport = lines
    BY DEF Till!generateDrawerSummaryReport
  <2>2. \A d \in C : Line(d).drawer = d OBVIOUS
  <2> HIDE DEF Line
  <2>3. /\ line \in [C -> lines]
        /\ \A d, e \in C : line[d] = line[e] => d = e
        /\ \A l \in lines : \E d \in C : line[d] = l
    BY <2>2
  <2>4. line \in Bijection(C, lines)
    BY <2>3 DEF Bijection, Injection, Surjection, IsInjective
  <2>5. Cardinality(lines) = Cardinality(C)
    BY <1>1, <2>4, FS_Bijection DEF ExistsBijection
  <2>. QED BY <2>1, <2>5, FiniteInTill
<1>9. Till!Abs(Till!Variance(C, "CASH")) <= Till!AbsVariance(C, "CASH")
  <2>0. PICK minus \in Int : minus = -1 OBVIOUS
  <2> DEFINE v == [d \in C |-> drawer[d].var["CASH"]]
             a == [d \in C |-> Till!Abs(drawer[d].var["CASH"])]
             n == [d \in C |-> minus * v[d] + 0 * v[d]]
  <2>1. \A d \in C : drawer[d].var["CASH"] \in Int
    BY <1>1, <1>2, MethodsAre DEF DrawerRows, Figures
  <2>2. /\ \A d \in C : v[d] \in Int /\ a[d] \in Int /\ v[d] <= a[d]
        /\ \A d \in C : n[d] \in Int /\ a[d] \in Int /\ n[d] <= a[d]
        /\ \A d \in C : v[d] \in Int
        /\ \A d \in C : n[d] = minus * v[d] + 0 * v[d]
        /\ DOMAIN v = C /\ DOMAIN a = C
    BY <2>0, <2>1 DEF Till!Abs
  <2>3. Till!Variance(C, "CASH") = SumFunctionOnSet(v, C)
    BY SumsOfTill DEF Till!Variance
  <2>4. Till!AbsVariance(C, "CASH") = SumFunctionOnSet(a, C)
    BY SumsOfTill DEF Till!AbsVariance
  <2> HIDE DEF v, a, n
  <2>5. SumFunctionOnSet(v, C) <= SumFunctionOnSet(a, C) BY <1>1, <2>2, SumAtMost
  <2>6. SumFunctionOnSet(n, C) <= SumFunctionOnSet(a, C) BY <1>1, <2>2, SumAtMost
  <2>7. SumFunctionOnSet(v, C) \in Int /\ SumFunctionOnSet(a, C) \in Int
    BY <1>1, <2>2, SumInt
  <2>8. SumFunctionOnSet(n, C) = minus * SumFunctionOnSet(v, C) + 0 * SumFunctionOnSet(v, C)
    <3>1. 0 \in Int OBVIOUS
    <3>. QED BY <1>1, <2>2, <3>1, SumCombine
  <2>9. PICK s \in Int, t \in Int : s = SumFunctionOnSet(v, C) /\ t = SumFunctionOnSet(a, C)
    BY <2>7
  <2>10. s <= t /\ -s <= t BY <2>0, <2>5, <2>6, <2>8, <2>9
  <2>. QED BY <2>3, <2>4, <2>9, <2>10 DEF Till!Abs
<1>10. O # {} <=> Till!Cardinality(O) # 0 BY <1>1, FS_EmptySet, FiniteInTill
<1>11. S \subseteq Till!getDrawerHistory(NoOne)
  BY NoDrawerIs DEF Till!Sessions, Till!getDrawerHistory
<1>. QED BY <1>3, <1>6, <1>7, <1>8, <1>9, <1>10, <1>11 DEF Till!SummariesAgree, perf, history, day

-----------------------------------------------------------------------------
(* The back office's behaviours that are the till's.                       *)

LEMMA TillRests ==
    ASSUME TillInductive, UNCHANGED tillVars
    PROVE  TillInductive'
<1>1. PICK c : c \notin Hands BY NotAHand
<1>2. PICK D \in SUBSET Cards, P \in SUBSET Receipts : D = {} /\ P = {} OBVIOUS
<1>3. UNCHANGED <<drawer, pay, drops, flagged, tillCall, misbooked, late, lost>>
  BY DEF tillVars
<1>4. TillTypes' BY <1>3 DEF TillInductive, TillTypes
<1>5. Steady BY <1>3 DEF Steady, Has
<1>6. /\ \A q \in Hands \ {c} : tillCall'[q] = tillCall[q]
      /\ tillCall'[c] = tillCall[c]
      /\ \A d \in Cards \ D : drawer'[d] = drawer[d]
      /\ \A o \in Receipts \ P : pay'[o] = pay[o]
      /\ \A o \in P : PaymentFits(o)'
      /\ \A d \in D : /\ RowFits(d)'
                      /\ d \notin late' => Vary(d)'
                      /\ d \notin lost' => Seen(d)'
  BY <1>2, <1>3
<1>7. ASSUME NEW d \in Cards \ misbooked', drawer'[d].term # NoOne,
             d \in D \/ \E o \in P, m \in Till!Methods : InDrawer(o, d, m) \/ InDrawer(o, d, m)'
      PROVE  Counters(d)'
  BY <1>2, <1>7
<1>. QED BY <1>1, <1>4, <1>5, <1>6, <1>7, TillAgain

TillKept == focus = "till" => TillInductive

LEMMA TillBegins == Init => TillKept
  BY TillStart DEF Init, TillKept

LEMMA TillGoesOn == TillKept /\ [Next]_everyVar => TillKept'
<1> SUFFICES ASSUME TillKept, [Next]_everyVar, focus = "till" PROVE TillInductive'
  BY DEF TillKept, Next, everyVar
<1>1. TillInductive BY DEF TillKept
<1>2. Till!Next \/ UNCHANGED tillVars BY DEF Next, everyVar
<1>3. ASSUME UNCHANGED tillVars PROVE TillInductive' BY <1>1, <1>3, TillRests
<1>. QED BY <1>1, <1>2, <1>3, TillStep

\* The counters of a terminal's drawer are its float and the payments booked in
\* it that stand, a shortage is never passed over, and the reports say what the
\* drawers hold, however the requests of any number of callers overlap.
THEOREM DrawersAreAccounted == Spec => []DrawersAccounted
<1>1. TillKept => DrawersAccounted
  BY TillBooks, TillSeen, ShiftsExplained, TillSummaries, ShiftStatusesFollowed
     DEF TillKept, DrawersAccounted, Till!ShiftReportsAgree
<1>. QED BY TillBegins, TillGoesOn, <1>1, PTL DEF Spec

-----------------------------------------------------------------------------
(* Payroll.                                                                *)

Pairs == Staff \X Stores
Pay == [hours : Nat, overtime : Nat, gross : Int]
PayrollCalls ==
    [op : {"idle"}]
    \union [op : {"calculate"}, entries : SUBSET Entries, todo : SUBSET Pairs, hours : Nat,
            gross : Int, alone : BOOLEAN]
    \union [op : {"export"}, gross : Int, alone : BOOLEAN]
    \union [op : {"exported"}, gross : Int, alone : BOOLEAN, lines : Int]
    \union [op : {"mark"}, alone : BOOLEAN]

PayrollTypes ==
    /\ closed \subseteq Entries
    /\ period \in [status : {"none", "DRAFT", "CALCULATED", "APPROVED", "EXPORTED"},
                   hours : Nat, gross : Int]
    /\ record \in [Pairs -> Pay]
    /\ export \in [amount : Int, lines : Int, alone : BOOLEAN]
    /\ wagesCall \in [Hands -> PayrollCalls]
    /\ exact \in BOOLEAN

\* The hours that closed entries hold, and what records add up to.
Worked(es) == SumFunctionOnSet([e \in Entries |-> Timesheet[e].hours], es)
Paid(ps) == SumFunctionOnSet([p \in Pairs |-> record[p].gross], ps)
Counted(ps) == SumFunctionOnSet([p \in Pairs |-> record[p].hours], ps)
Done(c) == Wages!PairsOf(wagesCall[c].entries) \ wagesCall[c].todo

\* Nobody is paid for what was not worked.
HoursKept ==
    /\ \A p \in Pairs : record[p].hours <= Worked(Wages!Of(p, closed))
    /\ \A c \in Hands : Wages!Calculating(c) =>
           /\ wagesCall[c].entries \subseteq closed
           /\ wagesCall[c].todo \subseteq Wages!PairsOf(wagesCall[c].entries)

\* A calculation that is alone has added up the records it wrote.
AloneKept ==
    \A c \in Hands : Wages!Calculating(c) /\ wagesCall[c].alone =>
        /\ \A d \in Hands \ {c} : ~Wages!Calculating(d)
        /\ wagesCall[c].gross = Paid(Done(c)) /\ wagesCall[c].hours = Counted(Done(c))

\* Exact totals are those of the records, which no calculation is changing.
ExactKept ==
    exact => /\ \A c \in Hands : ~Wages!Calculating(c)
             /\ period.gross = Paid(Pairs) /\ period.hours = Counted(Pairs)

ExportKept ==
    /\ \A c \in Hands :
           /\ wagesCall[c].op = "export" /\ wagesCall[c].alone =>
                  exact /\ wagesCall[c].gross = period.gross
           /\ wagesCall[c].op = "exported" /\ wagesCall[c].alone =>
                  wagesCall[c].gross = wagesCall[c].lines
    /\ export.alone => export.amount = export.lines

PayrollInductive == PayrollTypes /\ HoursKept /\ AloneKept /\ ExactKept /\ ExportKept

\* The sums of the model are those of the lemmas about sums.
LEMMA SumsOfPayroll ==
    \A f : /\ Wages!SumFunction(f) = SumFunctionOnSet(f, DOMAIN f)
           /\ Wages!SumFunctionOnSet(f, DOMAIN f) = SumFunctionOnSet(f, DOMAIN f)
  BY DEF Wages!SumFunction, Wages!SumFunctionOnSet, Wages!FoldFunctionOnSet, Wages!MapThenFoldSet,
         SumFunctionOnSet, FoldFunctionOnSet, MapThenFoldSet

LEMMA PayrollFinite ==
    /\ IsFiniteSet(Pairs) /\ IsFiniteSet(Entries)
    /\ \A es \in SUBSET Entries : IsFiniteSet(es)
    /\ \A ps \in SUBSET Pairs : IsFiniteSet(ps)
<1>1. IsFiniteSet(Staff) /\ IsFiniteSet(Stores) /\ IsFiniteSet(Entries)
  BY BackOfficeAssumption DEF Wages!TimesheetAssumption, Wages!IsFiniteSet, IsFiniteSet
<1>. QED BY <1>1, FS_Product, FS_Subset DEF Pairs

LEMMA HoursWorked ==
    ASSUME NEW es \in SUBSET Entries
    PROVE  Wages!HoursOf(es) = Worked(es) /\ Worked(es) \in Nat
<1> DEFINE f == [e \in es |-> Timesheet[e].hours]
           g == [e \in Entries |-> Timesheet[e].hours]
<1>1. Wages!HoursOf(es) = SumFunctionOnSet(f, es)
  BY SumsOfPayroll DEF Wages!HoursOf, Wages!Sum
<1>2. \A e \in es : f[e] = g[e] /\ g[e] \in Nat
  BY BackOfficeAssumption DEF Wages!TimesheetAssumption
<1>3. Worked(es) = SumFunctionOnSet(g, es) BY DEF Worked
<1>. HIDE DEF f, g
<1>4. SumFunctionOnSet(f, es) = SumFunctionOnSet(g, es)
  BY <1>2, PayrollFinite, SumSame
<1>5. SumFunctionOnSet(g, es) \in Nat BY <1>2, PayrollFinite, SumNat
<1>. QED BY <1>1, <1>3, <1>4, <1>5

\* More entries, no fewer hours.
LEMMA HoursGrow ==
    ASSUME NEW es \in SUBSET Entries, NEW fs \in SUBSET es
    PROVE  Worked(fs) <= Worked(es)
<1> DEFINE g == [e \in Entries |-> Timesheet[e].hours]
<1>1. \A e \in es : g[e] \in Nat
  BY BackOfficeAssumption DEF Wages!TimesheetAssumption
<1>. HIDE DEF g
<1>2. SumFunctionOnSet(g, fs) <= SumFunctionOnSet(g, es)
  BY <1>1, PayrollFinite, SumPart
<1>. QED BY <1>2 DEF Worked, g
\* The image of a finite set is finite.
LEMMA YearsFinite ==
    ASSUME NEW es \in SUBSET Entries
    PROVE  IsFiniteSet({Wages!WeekKey(e) : e \in es})
<1> DEFINE f == [e \in es |-> Wages!WeekKey(e)]
           T == {Wages!WeekKey(e) : e \in es}
<1>1. f \in Surjection(es, T) BY DEF Surjection
<1>2. IsFiniteSet(es) BY PayrollFinite
<1>. HIDE DEF f, T
<1>3. IsFiniteSet(T) BY <1>1, <1>2, FS_Surjection
<1>. QED BY <1>3 DEF T

\* Pay is for the hours of the entries it is computed from.
LEMMA PayOf ==
    ASSUME NEW es \in SUBSET Entries, NEW rate \in Nat
    PROVE  Wages!PayFor(es, rate) \in Pay /\ Wages!PayFor(es, rate).hours = Worked(es)
<1> DEFINE W == Wages!calculateWeeklyHours(es)
           D == {k \in DOMAIN W : W[k] > 40}
           f == [k \in D |-> W[k] - 40]
<1>1. DOMAIN W = {Wages!WeekKey(e) : e \in es} /\ \A k \in DOMAIN W : W[k] \in Nat
  <2>1. \A k : {e \in es : Wages!WeekKey(e) = k} \in SUBSET Entries OBVIOUS
  <2>. QED BY <2>1, HoursWorked DEF Wages!calculateWeeklyHours
<1>2. IsFiniteSet(D) BY <1>1, YearsFinite, FS_Subset
<1>3. Wages!Overtime(W) = SumFunctionOnSet(f, D)
  BY SumsOfPayroll DEF Wages!Overtime, Wages!Sum
<1>4. \A k \in D : f[k] \in Nat BY <1>1
<1>5. SumFunctionOnSet(f, D) \in Nat
  <2>. HIDE DEF f, D
  <2>. QED BY <1>2, <1>4, SumNat
<1>6. Wages!Round(3 * rate, 2) \in Int BY DEF Wages!Round
<1>7. Wages!HoursOf(es) = Worked(es) /\ Worked(es) \in Nat BY HoursWorked
<1>8. PICK o \in Nat : o = Wages!Overtime(W) BY <1>3, <1>5
<1>9. PICK r \in Int : r = Wages!Round(3 * rate, 2) BY <1>6
<1>10. PICK h \in Nat : h = Worked(es) BY <1>7
<1>11. (h - o) * rate + o * r \in Int OBVIOUS
<1>12. Wages!PayFor(es, rate) = [hours |-> h, overtime |-> o, gross |-> (h - o) * rate + o * r]
  BY <1>7, <1>8, <1>9, <1>10 DEF Wages!PayFor
<1>. HIDE DEF W, D, f
<1>. QED BY <1>10, <1>11, <1>12 DEF Pay

\* What the rows add up to is a number.
LEMMA SumsPaid ==
    ASSUME PayrollTypes, NEW ps \in SUBSET Pairs
    PROVE  Paid(ps) \in Int /\ Counted(ps) \in Int
<1> DEFINE f == [p \in Pairs |-> record[p].gross]
           g == [p \in Pairs |-> record[p].hours]
<1>1. \A p \in ps : f[p] \in Int /\ g[p] \in Int BY DEF PayrollTypes, Pay
<1>2. IsFiniteSet(ps) BY PayrollFinite
<1>. HIDE DEF f, g
<1>3. SumFunctionOnSet(f, ps) \in Int /\ SumFunctionOnSet(g, ps) \in Int
  BY <1>1, <1>2, SumInt
<1>. QED BY <1>3 DEF Paid, Counted, f, g

\* A record that is written joins what was added up.
LEMMA RecordJoins ==
    ASSUME PayrollTypes, PayrollTypes', NEW ps \in SUBSET Pairs, NEW q \in Pairs, q \notin ps,
           NEW earned \in Pay, record' = [record EXCEPT ![q] = earned]
    PROVE  /\ Paid(ps \union {q})' = earned.gross + Paid(ps)
           /\ Counted(ps \union {q})' = earned.hours + Counted(ps)
<1> DEFINE f == [p \in Pairs |-> record[p].gross]
           g == [p \in Pairs |-> record'[p].gross]
           k == [p \in Pairs |-> record[p].hours]
           l == [p \in Pairs |-> record'[p].hours]
<1>1. /\ \A p \in ps : f[p] = g[p] /\ k[p] = l[p]
      /\ g[q] = earned.gross /\ l[q] = earned.hours
  BY DEF PayrollTypes
<1>2. \A p \in ps \union {q} : f[p] \in Int /\ g[p] \in Int /\ k[p] \in Int /\ l[p] \in Int
  BY DEF PayrollTypes, Pay
<1>3. IsFiniteSet(ps) BY PayrollFinite
<1>. HIDE DEF f, g, k, l
<1>4. /\ SumFunctionOnSet(f, ps) = SumFunctionOnSet(g, ps)
      /\ SumFunctionOnSet(k, ps) = SumFunctionOnSet(l, ps)
  BY <1>1, <1>2, <1>3, SumSame
<1>5. /\ SumFunctionOnSet(g, ps \union {q}) = g[q] + SumFunctionOnSet(g, ps)
      /\ SumFunctionOnSet(l, ps \union {q}) = l[q] + SumFunctionOnSet(l, ps)
  BY <1>2, <1>3, SumAdd
<1>6. /\ Paid(ps) = SumFunctionOnSet(f, ps) /\ Counted(ps) = SumFunctionOnSet(k, ps)
      /\ Paid(ps \union {q})' = SumFunctionOnSet(g, ps \union {q})
      /\ Counted(ps \union {q})' = SumFunctionOnSet(l, ps \union {q})
  BY DEF Paid, Counted, f, g, k, l
<1>. QED BY <1>1, <1>4, <1>5, <1>6

\* Pairs without a record add nothing.
LEMMA OnlyRecords ==
    ASSUME PayrollTypes, NEW ps \in SUBSET Pairs, \A p \in Pairs \ ps : record[p] = Wages!NoRecord
    PROVE  Paid(Pairs) = Paid(ps) /\ Counted(Pairs) = Counted(ps)
<1> DEFINE f == [p \in Pairs |-> record[p].gross]
           k == [p \in Pairs |-> record[p].hours]
<1>1. /\ \A p \in Pairs \ ps : f[p] = 0 /\ k[p] = 0
      /\ \A p \in Pairs : f[p] \in Int /\ k[p] \in Int
  BY DEF PayrollTypes, Pay, Wages!NoRecord
<1>2. IsFiniteSet(Pairs) /\ IsFiniteSet(Pairs \ ps) /\ IsFiniteSet(ps)
  BY PayrollFinite
<1>. HIDE DEF f, k
<1>3. SumFunctionOnSet(f, Pairs \ ps) = 0 /\ SumFunctionOnSet(k, Pairs \ ps) = 0
  BY <1>1, <1>2, SumZeros
<1>4. /\ SumFunctionOnSet(f, Pairs) = SumFunctionOnSet(f, ps) + SumFunctionOnSet(f, Pairs \ ps)
      /\ SumFunctionOnSet(k, Pairs) = SumFunctionOnSet(k, ps) + SumFunctionOnSet(k, Pairs \ ps)
  BY <1>1, <1>2, SumParts
<1>5. SumFunctionOnSet(f, ps) \in Int /\ SumFunctionOnSet(k, ps) \in Int
  BY <1>1, <1>2, SumInt
<1>6. SumFunctionOnSet(f, Pairs) = SumFunctionOnSet(f, ps) /\ SumFunctionOnSet(k, Pairs) = SumFunctionOnSet(k, ps)
  BY <1>3, <1>4, <1>5
<1>. QED BY <1>6 DEF Paid, Counted, f, k
LEMMA PayrollInit == Wages!Init => PayrollInductive
<1> SUFFICES ASSUME Wages!Init PROVE PayrollInductive
  OBVIOUS
<1>1. PayrollTypes
  <2>1. closed \subseteq Entries
    BY BackOfficeAssumption DEF Wages!Init, Wages!TimesheetAssumption
  <2>2. record \in [Pairs -> Pay]
    BY DEF Wages!Init, Pairs, Wages!Pairs, Wages!NoRecord, Pay
  <2>3. wagesCall \in [Hands -> PayrollCalls]
    <3>1. [op |-> "idle"] \in PayrollCalls BY DEF PayrollCalls
    <3>. QED BY <3>1 DEF Wages!Init, Wages!Idle
  <2>4. period \in [status : {"none", "DRAFT", "CALCULATED", "APPROVED", "EXPORTED"},
                    hours : Nat, gross : Int]
    BY DEF Wages!Init, Wages!NoPeriod
  <2>5. export \in [amount : Int, lines : Int, alone : BOOLEAN]
    BY DEF Wages!Init, Wages!NoExport
  <2>6. exact \in BOOLEAN BY DEF Wages!Init
  <2>. QED BY <2>1, <2>2, <2>3, <2>4, <2>5, <2>6 DEF PayrollTypes
<1>2. \A p \in Pairs : record[p].hours <= Worked(Wages!Of(p, closed))
  <2>. SUFFICES ASSUME NEW p \in Pairs PROVE record[p].hours <= Worked(Wages!Of(p, closed))
    OBVIOUS
  <2>1. Wages!Of(p, closed) \in SUBSET Entries BY <1>1 DEF PayrollTypes, Wages!Of
  <2>2. record[p].hours = 0 BY DEF Wages!Init, Pairs, Wages!Pairs, Wages!NoRecord
  <2>. QED BY <2>1, <2>2, HoursWorked
<1>3. (\A c \in Hands : wagesCall[c].op = "idle") /\ ~exact /\ ~export.alone
  BY DEF Wages!Init, Wages!Idle, Wages!NoExport
<1>4. \A c \in Hands : ~Wages!Calculating(c) BY <1>3 DEF Wages!Calculating
<1>5. HoursKept BY <1>2, <1>4 DEF HoursKept
<1>6. AloneKept /\ ExactKept BY <1>3, <1>4 DEF AloneKept, ExactKept
<1>7. ExportKept BY <1>3 DEF ExportKept
<1>. QED BY <1>1, <1>5, <1>6, <1>7 DEF PayrollInductive

\* What stays when neither rows of pay nor entries change, and one call moves on
\* to what is no calculation.
LEMMA CallEnds ==
    ASSUME PayrollInductive, NEW c \in Hands, NEW d \in PayrollCalls, d.op # "calculate",
           wagesCall' = [wagesCall EXCEPT ![c] = d],
           d.op = "export" /\ d.alone => exact /\ d.gross = period.gross,
           d.op = "exported" /\ d.alone => d.gross = d.lines,
           UNCHANGED <<closed, record, exact>>,
           period' \in [status : {"none", "DRAFT", "CALCULATED", "APPROVED", "EXPORTED"},
                        hours : Nat, gross : Int],
           period'.hours = period.hours, period'.gross = period.gross,
           export' \in [amount : Int, lines : Int, alone : BOOLEAN],
           export'.alone => export'.amount = export'.lines
    PROVE  PayrollInductive'
<1>1. wagesCall'[c] = d /\ \A x \in Hands \ {c} : wagesCall'[x] = wagesCall[x]
  BY DEF PayrollInductive, PayrollTypes
<1>2. PayrollTypes' BY DEF PayrollInductive, PayrollTypes
<1>3. \A x \in Hands : Wages!Calculating(x)' => x # c /\ Wages!Calculating(x) /\ wagesCall'[x] = wagesCall[x]
  BY <1>1 DEF Wages!Calculating
<1>4. \A ps : Paid(ps)' = Paid(ps) /\ Counted(ps)' = Counted(ps)
  BY DEF Paid, Counted
<1>5. HoursKept' BY <1>3 DEF PayrollInductive, HoursKept, Worked
<1>6. AloneKept'
  BY <1>3, <1>4 DEF PayrollInductive, AloneKept, Done, Wages!PairsOf
<1>7. ExactKept' BY <1>3, <1>4 DEF PayrollInductive, ExactKept
<1>8. ExportKept' BY <1>1 DEF PayrollInductive, ExportKept
<1>. QED BY <1>2, <1>5, <1>6, <1>7, <1>8 DEF PayrollInductive

\* A call that is no longer alone is otherwise as it was.
LEMMA NotAlone ==
    ASSUME NEW r \in PayrollCalls, r.op # "idle", NEW s, s = [r EXCEPT !.alone = FALSE]
    PROVE  /\ s \in PayrollCalls /\ s.op = r.op /\ ~s.alone
           /\ r.op = "calculate" => s.entries = r.entries /\ s.todo = r.todo
<1>1. CASE r.op = "calculate" BY <1>1 DEF PayrollCalls
<1>2. CASE r.op = "export" BY <1>2 DEF PayrollCalls
<1>3. CASE r.op = "exported" BY <1>3 DEF PayrollCalls
<1>4. CASE r.op = "mark" BY <1>4 DEF PayrollCalls
<1>. QED BY <1>1, <1>2, <1>3, <1>4 DEF PayrollCalls

\* A calculation starts, and nobody is alone that was not before.
LEMMA CalculationStarts ==
    ASSUME PayrollInductive, NEW c \in Hands, NEW scope, Wages!calculatePayrollPeriod(c, scope)
    PROVE  PayrollInductive'
<1> DEFINE es == Wages!InScope(scope)
           alone == \A d \in Hands : ~Wages!Calculating(d)
           k == [op |-> "calculate", entries |-> es, todo |-> Wages!PairsOf(es),
                 hours |-> 0, gross |-> 0, alone |-> alone]
<1>1. es \subseteq closed /\ es \in SUBSET Entries /\ Wages!PairsOf(es) \in SUBSET Pairs
  BY BackOfficeAssumption DEF PayrollInductive, PayrollTypes, Wages!InScope, Wages!PairsOf,
     Wages!TimesheetAssumption, Pairs
<1>2. /\ wagesCall' = Wages!Disturbed(c, k)
      /\ ~exact' /\ exact' \in BOOLEAN /\ UNCHANGED <<closed, record, export>>
      /\ wagesCall[c] = Wages!Idle
      /\ period' = IF period = Wages!NoPeriod THEN [Wages!NoPeriod EXCEPT !.status = "DRAFT"]
                   ELSE period
  BY DEF Wages!calculatePayrollPeriod
<1>3. k \in PayrollCalls BY <1>1 DEF PayrollCalls
<1>4. /\ wagesCall'[c] = k
      /\ \A x \in Hands \ {c} :
             wagesCall'[x] = IF wagesCall[x].op = "idle" THEN wagesCall[x]
                             ELSE [wagesCall[x] EXCEPT !.alone = FALSE]
  BY <1>2 DEF Wages!Disturbed
<1>. HIDE DEF k
<1>5. ASSUME NEW x \in Hands \ {c}
      PROVE  /\ wagesCall'[x] \in PayrollCalls
             /\ wagesCall'[x].op = wagesCall[x].op
             /\ wagesCall[x].op # "idle" => ~wagesCall'[x].alone
             /\ wagesCall[x].op = "calculate" =>
                    /\ wagesCall'[x].entries = wagesCall[x].entries
                    /\ wagesCall'[x].todo = wagesCall[x].todo
  <2>1. wagesCall[x] \in PayrollCalls BY DEF PayrollInductive, PayrollTypes
  <2>2. CASE wagesCall[x].op = "idle" BY <1>4, <2>1, <2>2
  <2>3. CASE wagesCall[x].op # "idle"
    <3>1. wagesCall'[x] = [wagesCall[x] EXCEPT !.alone = FALSE] BY <1>4, <2>3
    <3>. QED BY <2>1, <2>3, <3>1, NotAlone
  <2>. QED BY <2>2, <2>3
<1>6. PayrollTypes'
  <2>1. wagesCall' \in [Hands -> PayrollCalls]
    BY <1>2, <1>3, <1>4, <1>5 DEF Wages!Disturbed
  <2>2. period' \in [status : {"none", "DRAFT", "CALCULATED", "APPROVED", "EXPORTED"},
                     hours : Nat, gross : Int]
    BY <1>2 DEF PayrollInductive, PayrollTypes, Wages!NoPeriod
  <2>. QED BY <1>2, <2>1, <2>2 DEF PayrollInductive, PayrollTypes
<1>7. HoursKept'
  <2>1. \A x \in Hands \ {c} : Wages!Calculating(x)' => Wages!Calculating(x)
    BY <1>5 DEF Wages!Calculating
  <2>2. k.op = "calculate" /\ k.entries = es /\ k.todo = Wages!PairsOf(es)
    BY DEF k
  <2>3. \A x \in Hands : Wages!Calculating(x)' =>
            /\ wagesCall'[x].entries \subseteq closed
            /\ wagesCall'[x].todo \subseteq Wages!PairsOf(wagesCall'[x].entries)
    BY <1>1, <1>4, <1>5, <2>1, <2>2 DEF PayrollInductive, HoursKept, Wages!Calculating
  <2>. QED BY <1>2, <2>3 DEF PayrollInductive, HoursKept, Worked, Wages!Of, Wages!PairsOf
<1>8. AloneKept'
  <2>. SUFFICES ASSUME NEW x \in Hands, Wages!Calculating(x)', wagesCall'[x].alone
                PROVE  /\ \A d \in Hands \ {x} : ~Wages!Calculating(d)'
                       /\ wagesCall'[x].gross = Paid(Done(x))' /\ wagesCall'[x].hours = Counted(Done(x))'
    BY DEF AloneKept
  <2>1. x = c BY <1>5 DEF Wages!Calculating
  <2>2. alone BY <1>4, <2>1 DEF k
  <2>3. \A d \in Hands \ {c} : ~Wages!Calculating(d)'
    BY <1>5, <2>2 DEF Wages!Calculating
  <2>4. Done(c)' = {} BY <1>4 DEF k, Done, Wages!PairsOf
  <2>5. Paid(Done(c))' = 0 /\ Counted(Done(c))' = 0
    BY <2>4, SumEmpty DEF Paid, Counted
  <2>6. wagesCall'[c].gross = 0 /\ wagesCall'[c].hours = 0 BY <1>4 DEF k
  <2>. QED BY <2>1, <2>3, <2>5, <2>6
<1>9. ExactKept' BY <1>2 DEF ExactKept
<1>10. ExportKept'
  <2>1. k.op = "calculate" BY DEF k
  <2>. QED BY <1>2, <1>4, <1>5, <2>1 DEF PayrollInductive, ExportKept
<1>. QED BY <1>6, <1>7, <1>8, <1>9, <1>10 DEF PayrollInductive

\* A record is written, which holds no more than the hours that are closed.
LEMMA RecordWritten ==
    ASSUME PayrollInductive, NEW c \in Hands, Wages!UpsertRecord(c)
    PROVE  PayrollInductive'
<1> DEFINE k == wagesCall[c]
<1>1. /\ Wages!Calculating(c) /\ UNCHANGED <<closed, period, export, exact>>
      /\ k \in PayrollCalls /\ k.op = "calculate"
  BY DEF Wages!UpsertRecord, Wages!Calculating, PayrollInductive, PayrollTypes
<1>2. /\ k.entries \in SUBSET Entries /\ k.todo \in SUBSET Pairs /\ k.hours \in Nat /\ k.gross \in Int
      /\ k.alone \in BOOLEAN
  BY <1>1 DEF PayrollCalls
<1> DEFINE Writes(p, x) ==
              LET earned == Wages!PayFor(Wages!Of(p, k.entries), Timesheet[x].rate)
              IN  /\ record' = [record EXCEPT ![p] = earned]
                  /\ wagesCall' = [wagesCall EXCEPT ![c].todo = @ \ {p}, ![c].hours = @ + earned.hours,
                                                    ![c].gross = @ + earned.gross]
<1>a. PICK q \in k.todo : \E x \in Wages!Of(q, k.entries) : Writes(q, x)
  BY DEF Wages!UpsertRecord
<1>3. PICK e \in Wages!Of(q, k.entries) : Writes(q, e) BY <1>a
<1> DEFINE es == Wages!Of(q, k.entries)
           earned == Wages!PayFor(es, Timesheet[e].rate)
           next == [[[k EXCEPT !.todo = k.todo \ {q}] EXCEPT !.hours = k.hours + earned.hours]
                       EXCEPT !.gross = k.gross + earned.gross]
<1>4. q \in Pairs /\ es \in SUBSET Entries /\ earned \in Pay /\ earned.hours = Worked(es)
  <2>1. q \in Pairs /\ es \in SUBSET Entries /\ Timesheet[e].rate \in Nat
    BY <1>2, BackOfficeAssumption DEF Wages!TimesheetAssumption, Wages!Of
  <2>. QED BY <2>1, PayOf
<1>5. record' = [record EXCEPT ![q] = earned] BY <1>3
<1>6. wagesCall' = [wagesCall EXCEPT ![c] = next]
  <2>1. wagesCall' = [wagesCall EXCEPT ![c].todo = @ \ {q}, ![c].hours = @ + earned.hours,
                                       ![c].gross = @ + earned.gross]
    BY <1>3
  <2>2. wagesCall \in [Hands -> PayrollCalls]
    BY DEF PayrollInductive, PayrollTypes
  <2>. HIDE DEF earned
  <2>. QED BY <2>1, <2>2
<1>. HIDE DEF earned
<1>7. /\ next \in PayrollCalls
      /\ next.op = "calculate" /\ next.alone = k.alone /\ next.entries = k.entries
      /\ next.todo = k.todo \ {q}
      /\ next.hours = k.hours + earned.hours /\ next.gross = k.gross + earned.gross
  <2>1. PICK d \in Pay : d = earned BY <1>4
  <2>2. PICK r \in PayrollCalls : r = k BY <1>1
  <2>3. PICK t : t = [r EXCEPT !.todo = r.todo \ {q}] OBVIOUS
  <2>4. PICK u : u = [t EXCEPT !.hours = r.hours + d.hours] OBVIOUS
  <2>5. PICK s : s = [u EXCEPT !.gross = r.gross + d.gross] OBVIOUS
  <2>6. s = next BY <2>1, <2>2, <2>3, <2>4, <2>5
  <2> DEFINE Calculation == [op : {"calculate"}, entries : SUBSET Entries, todo : SUBSET Pairs,
                             hours : Nat, gross : Int, alone : BOOLEAN]
  <2>7. r \in Calculation BY <1>1, <2>2 DEF PayrollCalls
  <2>. HIDE DEF next, k
  <2>8. t \in Calculation /\ t.todo = r.todo \ {q} /\ t.alone = r.alone /\ t.entries = r.entries
    BY <2>3, <2>7
  <2>9. r.hours + d.hours \in Nat /\ r.gross + d.gross \in Int
    BY <2>1, <2>7 DEF Pay
  <2>10. u \in Calculation /\ u.todo = t.todo /\ u.hours = r.hours + d.hours /\ u.alone = r.alone
         /\ u.entries = r.entries
    BY <2>4, <2>8, <2>9
  <2>11. s \in Calculation /\ s.todo = u.todo /\ s.hours = u.hours /\ s.gross = r.gross + d.gross
         /\ s.alone = r.alone /\ s.entries = r.entries
    BY <2>5, <2>9, <2>10
  <2>12. s \in PayrollCalls /\ s.op = "calculate" BY <2>11 DEF PayrollCalls
  <2>. QED BY <2>1, <2>2, <2>6, <2>8, <2>10, <2>11, <2>12
<1>. HIDE DEF next
<1>8. wagesCall'[c] = next /\ \A x \in Hands \ {c} : wagesCall'[x] = wagesCall[x]
  BY <1>6 DEF PayrollInductive, PayrollTypes
<1>9. PayrollTypes'
  BY <1>1, <1>4, <1>5, <1>6, <1>7 DEF PayrollInductive, PayrollTypes
<1>11. \A x \in Hands : Wages!Calculating(x)' <=> Wages!Calculating(x)
  BY <1>1, <1>8, <1>7 DEF Wages!Calculating
<1>12. HoursKept'
  <2>1. record'[q].hours <= Worked(Wages!Of(q, closed))
    <3>1. es \in SUBSET Wages!Of(q, closed) /\ Wages!Of(q, closed) \in SUBSET Entries
      BY <1>1 DEF PayrollInductive, PayrollTypes, HoursKept, Wages!Of
    <3>2. Worked(es) <= Worked(Wages!Of(q, closed)) BY <3>1, HoursGrow
    <3>. QED BY <1>4, <1>5, <3>2 DEF PayrollInductive, PayrollTypes
  <2>2. \A p \in Pairs : record'[p].hours <= Worked(Wages!Of(p, closed))
    BY <1>5, <2>1 DEF PayrollInductive, PayrollTypes, HoursKept
  <2>3. \A x \in Hands : Wages!Calculating(x)' =>
            /\ wagesCall'[x].entries \subseteq closed
            /\ wagesCall'[x].todo \subseteq Wages!PairsOf(wagesCall'[x].entries)
    BY <1>1, <1>7, <1>8, <1>11 DEF PayrollInductive, HoursKept
  <2>. QED BY <1>1, <2>2, <2>3 DEF HoursKept, Worked, Wages!Of, Wages!PairsOf
<1>13. AloneKept'
  <2>. SUFFICES ASSUME NEW x \in Hands, Wages!Calculating(x)', wagesCall'[x].alone
                PROVE  /\ \A d \in Hands \ {x} : ~Wages!Calculating(d)'
                       /\ wagesCall'[x].gross = Paid(Done(x))' /\ wagesCall'[x].hours = Counted(Done(x))'
    BY DEF AloneKept
  <2>1. x = c /\ k.alone /\ \A d \in Hands \ {c} : ~Wages!Calculating(d)
    BY <1>1, <1>8, <1>7, <1>11 DEF PayrollInductive, AloneKept
  <2>0. PICK done : done = Wages!PairsOf(k.entries) \ k.todo OBVIOUS
  <2>2. /\ k.todo \subseteq Wages!PairsOf(k.entries)
        /\ k.gross = Paid(done) /\ k.hours = Counted(done)
    BY <1>1, <2>0, <2>1 DEF PayrollInductive, HoursKept, AloneKept, Done
  <2>3. done \in SUBSET Pairs /\ q \notin done
    BY <1>2, <2>0, BackOfficeAssumption DEF Wages!TimesheetAssumption, Wages!PairsOf, Pairs
  <2>4. Done(c)' = done \union {q}
    BY <1>7, <1>8, <2>0, <2>2 DEF Done, Wages!PairsOf
  <2>5. Paid(done \union {q})' = earned.gross + Paid(done) /\ Counted(done \union {q})' = earned.hours + Counted(done)
    <3>1. PayrollTypes BY DEF PayrollInductive
    <3>2. PICK paid \in Pay : paid = earned BY <1>4
    <3>3. record' = [record EXCEPT ![q] = paid] BY <1>5, <3>2
    <3>4. Paid(done \union {q})' = paid.gross + Paid(done) /\ Counted(done \union {q})' = paid.hours + Counted(done)
      BY <1>4, <1>9, <2>3, <3>1, <3>3, RecordJoins
    <3>. QED BY <3>2, <3>4
  <2>6. earned.gross \in Int /\ earned.hours \in Int BY <1>4 DEF Pay
  <2>8. next.gross = Paid(done \union {q})' /\ next.hours = Counted(done \union {q})'
    <3>1. Paid(done) \in Int /\ Counted(done) \in Int BY <1>2, <2>2
    <3>. QED BY <2>2, <2>5, <2>6, <1>7, <3>1
  <2>9. Paid(Done(c))' = Paid(done \union {q})' /\ Counted(Done(c))' = Counted(done \union {q})'
    BY <2>4 DEF Paid, Counted
  <2>. QED BY <1>8, <1>11, <2>1, <2>8, <2>9
<1>14. ExactKept' BY <1>1 DEF PayrollInductive, ExactKept
<1>15. ExportKept' BY <1>1, <1>8, <1>7 DEF PayrollInductive, ExportKept
<1>. QED BY <1>9, <1>12, <1>13, <1>14, <1>15 DEF PayrollInductive

\* The totals are those of the records when all of them were written.
LEMMA TotalsWritten ==
    ASSUME PayrollInductive, NEW c \in Hands, Wages!WriteTotals(c)
    PROVE  PayrollInductive'
<1> DEFINE k == wagesCall[c]
<1>1. /\ Wages!Calculating(c) /\ UNCHANGED <<closed, record, export>>
      /\ k \in PayrollCalls /\ k.op = "calculate" /\ k.todo = {}
      /\ period' = [status |-> "CALCULATED", hours |-> k.hours, gross |-> k.gross]
      /\ exact' = (k.alone /\ \A p \in Pairs : record[p] # Wages!NoRecord => Wages!Of(p, k.entries) # {})
      /\ wagesCall' = [wagesCall EXCEPT ![c] = Wages!Idle]
  BY DEF Wages!WriteTotals, Wages!Calculating, PayrollInductive, PayrollTypes, Pairs, Wages!Pairs
<1>2. k.entries \in SUBSET Entries /\ k.hours \in Nat /\ k.gross \in Int /\ k.alone \in BOOLEAN
  BY <1>1 DEF PayrollCalls
<1>3. wagesCall'[c] = Wages!Idle /\ \A x \in Hands \ {c} : wagesCall'[x] = wagesCall[x]
  BY <1>1 DEF PayrollInductive, PayrollTypes
<1>4. Wages!Idle \in PayrollCalls /\ Wages!Idle.op = "idle"
  BY DEF Wages!Idle, PayrollCalls
<1>5. PayrollTypes' BY <1>1, <1>2, <1>4 DEF PayrollInductive, PayrollTypes
<1>6. \A x \in Hands : Wages!Calculating(x)' => x # c /\ Wages!Calculating(x) /\ wagesCall'[x] = wagesCall[x]
  BY <1>3, <1>4 DEF Wages!Calculating
<1>7. \A ps : Paid(ps)' = Paid(ps) /\ Counted(ps)' = Counted(ps)
  BY <1>1 DEF Paid, Counted
<1>8. HoursKept' BY <1>1, <1>6 DEF PayrollInductive, HoursKept, Worked
<1>9. AloneKept'
  BY <1>6, <1>7 DEF PayrollInductive, AloneKept, Done, Wages!PairsOf
<1>10. ExactKept'
  <2>. SUFFICES ASSUME exact'
                PROVE  /\ \A x \in Hands : ~Wages!Calculating(x)'
                       /\ period'.gross = Paid(Pairs) /\ period'.hours = Counted(Pairs)
    BY <1>7 DEF ExactKept
  <2>1. k.alone /\ \A p \in Pairs : record[p] # Wages!NoRecord => Wages!Of(p, k.entries) # {}
    BY <1>1
  <2> DEFINE done == Wages!PairsOf(k.entries)
  <2>2. /\ \A d \in Hands \ {c} : ~Wages!Calculating(d)
        /\ k.gross = Paid(done) /\ k.hours = Counted(done)
    <3>1. done \ k.todo = done BY <1>1
    <3>. QED BY <1>1, <2>1, <3>1 DEF PayrollInductive, AloneKept, Done
  <2>3. done \in SUBSET Pairs
    BY <1>2, BackOfficeAssumption DEF Wages!TimesheetAssumption, Wages!PairsOf, Pairs
  <2>4. ASSUME NEW p \in Pairs \ done PROVE record[p] = Wages!NoRecord
    <3>1. p \in Staff \X Stores BY DEF Pairs
    <3>2. Wages!Of(p, k.entries) = {}
      <4>1. \A e \in k.entries : <<Timesheet[e].by, Timesheet[e].store>> # p
        BY <2>4 DEF Wages!PairsOf
      <4>2. p = <<p[1], p[2]>> BY <3>1
      <4>. QED BY <4>1, <4>2 DEF Wages!Of
    <3>. QED BY <2>1, <3>2
  <2>5. Paid(Pairs) = Paid(done) /\ Counted(Pairs) = Counted(done)
    <3>. HIDE DEF done
    <3>. QED BY <2>3, <2>4, OnlyRecords DEF PayrollInductive
  <2>6. period'.gross = k.gross /\ period'.hours = k.hours BY <1>1
  <2>. QED BY <1>6, <2>2, <2>5, <2>6
<1>11. ExportKept'
  <2>1. ~exact BY <1>1 DEF PayrollInductive, ExactKept
  <2>. QED BY <1>1, <1>3, <1>4, <2>1 DEF PayrollInductive, ExportKept
<1>. QED BY <1>5, <1>8, <1>9, <1>10, <1>11 DEF PayrollInductive

\* More entries close.
LEMMA EntryCloses ==
    ASSUME PayrollInductive, NEW e \in Entries, Wages!ClockOut(e)
    PROVE  PayrollInductive'
<1>1. closed' = closed \union {e} /\ UNCHANGED <<period, record, export, wagesCall, exact>>
  BY DEF Wages!ClockOut
<1>2. PayrollTypes' BY <1>1 DEF PayrollInductive, PayrollTypes
<1>3. \A p \in Pairs : record[p].hours <= Worked(Wages!Of(p, closed'))
  <2>. SUFFICES ASSUME NEW p \in Pairs PROVE record[p].hours <= Worked(Wages!Of(p, closed'))
    OBVIOUS
  <2>1. /\ Wages!Of(p, closed) \in SUBSET Wages!Of(p, closed')
        /\ Wages!Of(p, closed') \in SUBSET Entries /\ Wages!Of(p, closed) \in SUBSET Entries
    BY <1>1 DEF PayrollInductive, PayrollTypes, Wages!Of
  <2>2. Worked(Wages!Of(p, closed)) <= Worked(Wages!Of(p, closed'))
    BY <2>1, HoursGrow
  <2>3. Worked(Wages!Of(p, closed)) \in Nat /\ Worked(Wages!Of(p, closed')) \in Nat
    BY <2>1, HoursWorked
  <2>4. record[p].hours \in Nat /\ record[p].hours <= Worked(Wages!Of(p, closed))
    BY DEF PayrollInductive, PayrollTypes, HoursKept, Pay
  <2>. QED BY <2>2, <2>3, <2>4
<1>4. HoursKept'
  BY <1>1, <1>3 DEF PayrollInductive, HoursKept, Wages!Calculating, Wages!PairsOf, Wages!Of, Worked
<1>5. AloneKept' /\ ExactKept' /\ ExportKept'
  BY <1>1 DEF PayrollInductive, AloneKept, ExactKept, ExportKept, Wages!Calculating, Paid, Counted, Done,
     Wages!PairsOf
<1>. QED BY <1>2, <1>4, <1>5 DEF PayrollInductive

\* What a file adds up to when nothing disturbed the records.
LEMMA FileAddsUp ==
    ASSUME PayrollInductive
    PROVE  /\ Wages!Sum(Wages!getPayrollRecords, LAMBDA p : record[p].gross) = Paid(Pairs)
           /\ Wages!Sum(Wages!Pairs, LAMBDA p : record[p].gross) = Paid(Pairs)
           /\ Wages!Sum(Wages!Pairs, LAMBDA p : record[p].hours) = Counted(Pairs)
           /\ Paid(Pairs) \in Int
<1> DEFINE R == Wages!getPayrollRecords
           f == [p \in Pairs |-> record[p].gross]
           g == [p \in R |-> record[p].gross]
<1>1. /\ Wages!Sum(Wages!Pairs, LAMBDA p : record[p].gross) = Paid(Pairs)
      /\ Wages!Sum(Wages!Pairs, LAMBDA p : record[p].hours) = Counted(Pairs)
  BY SumsOfPayroll DEF Wages!Sum, Paid, Counted, Pairs, Wages!Pairs
<1>2. R \in SUBSET Pairs /\ \A p \in Pairs \ R : record[p] = Wages!NoRecord
  BY DEF Wages!getPayrollRecords, Pairs, Wages!Pairs
<1>3. Wages!Sum(R, LAMBDA p : record[p].gross) = SumFunctionOnSet(g, R)
  BY SumsOfPayroll DEF Wages!Sum
<1>4. \A p \in R : g[p] \in Int /\ g[p] = f[p]
  BY <1>2 DEF PayrollInductive, PayrollTypes, Pay
<1>5. IsFiniteSet(R) BY <1>2, PayrollFinite
<1>6. Paid(R) = SumFunctionOnSet(f, R) BY DEF Paid
<1>. HIDE DEF f, g, R
<1>7. SumFunctionOnSet(g, R) = SumFunctionOnSet(f, R) BY <1>4, <1>5, SumSame
<1>8. Paid(Pairs) = Paid(R) BY <1>2, OnlyRecords DEF PayrollInductive
<1>9. Paid(Pairs) \in Int BY SumsPaid DEF PayrollInductive
<1>. USE DEF R
<1>. QED BY <1>1, <1>3, <1>6, <1>7, <1>8, <1>9

LEMMA PayrollStep == PayrollInductive /\ [Wages!Next]_wagesVars => PayrollInductive'
<1> SUFFICES ASSUME PayrollInductive, [Wages!Next]_wagesVars PROVE PayrollInductive'
  OBVIOUS
<1>1. ASSUME UNCHANGED wagesVars PROVE PayrollInductive'
  BY <1>1 DEF wagesVars, PayrollInductive, PayrollTypes, HoursKept, AloneKept, ExactKept, ExportKept,
     Worked, Paid, Counted, Done, Wages!Calculating, Wages!Of, Wages!PairsOf
<1> USE DEF PayrollInductive, PayrollTypes
<1>2. ASSUME NEW c \in Hands, NEW scope, Wages!calculatePayrollPeriod(c, scope) PROVE PayrollInductive'
  BY <1>2, CalculationStarts
<1>3. ASSUME NEW c \in Hands, Wages!UpsertRecord(c) PROVE PayrollInductive'
  BY <1>3, RecordWritten
<1>4. ASSUME NEW c \in Hands, Wages!WriteTotals(c) PROVE PayrollInductive'
  BY <1>4, TotalsWritten
<1>5. ASSUME NEW c \in Hands, Wages!exportPayroll(c) PROVE PayrollInductive'
  <2> DEFINE d == [op |-> "export", gross |-> period.gross, alone |-> exact]
  <2>1. /\ wagesCall' = [wagesCall EXCEPT ![c] = d]
        /\ UNCHANGED <<closed, period, record, export, exact>>
    BY <1>5 DEF Wages!exportPayroll
  <2>2. d \in PayrollCalls /\ d.op = "export" /\ d.gross = period.gross /\ d.alone = exact
    BY DEF PayrollCalls
  <2>. HIDE DEF d
  <2>. QED BY <2>1, <2>2, CallEnds DEF ExportKept
<1>6. ASSUME NEW c \in Hands, Wages!FillFile(c) PROVE PayrollInductive'
  <2> DEFINE k == wagesCall[c]
             l == Wages!Sum(Wages!getPayrollRecords, LAMBDA p : record[p].gross)
             d == [op |-> "exported", gross |-> k.gross, alone |-> k.alone, lines |-> l]
  <2>1. /\ wagesCall' = [wagesCall EXCEPT ![c] = d] /\ k.op = "export"
        /\ UNCHANGED <<closed, period, record, export, exact>>
    BY <1>6 DEF Wages!FillFile
  <2>2. l = Paid(Pairs) /\ l \in Int BY FileAddsUp
  <2>3. k.gross \in Int /\ k.alone \in BOOLEAN BY <2>1 DEF PayrollCalls
  <2>. HIDE DEF l
  <2>4. d \in PayrollCalls /\ d.op = "exported" /\ d.gross = k.gross /\ d.alone = k.alone /\ d.lines = l
    BY <2>2, <2>3 DEF PayrollCalls
  <2>5. d.alone => d.gross = d.lines
    BY <2>1, <2>2, <2>4 DEF ExportKept, ExactKept
  <2>. HIDE DEF d
  <2>. QED BY <2>1, <2>4, <2>5, CallEnds DEF ExportKept
<1>7. ASSUME NEW c \in Hands, Wages!WriteExport(c) PROVE PayrollInductive'
  <2> DEFINE k == wagesCall[c]
             d == [op |-> "mark", alone |-> k.alone]
  <2>1. /\ wagesCall' = [wagesCall EXCEPT ![c] = d] /\ k.op = "exported"
        /\ export' = [amount |-> k.gross, lines |-> k.lines, alone |-> k.alone]
        /\ UNCHANGED <<closed, period, record, exact>>
    BY <1>7 DEF Wages!WriteExport
  <2>2. k.gross \in Int /\ k.alone \in BOOLEAN /\ k.lines \in Int
    BY <2>1 DEF PayrollCalls
  <2>3. d \in PayrollCalls /\ d.op = "mark" BY <2>2 DEF PayrollCalls
  <2>4. export'.alone => export'.amount = export'.lines BY <2>1 DEF ExportKept
  <2>. HIDE DEF d
  <2>. QED BY <2>1, <2>2, <2>3, <2>4, CallEnds
<1>8. ASSUME NEW c \in Hands, Wages!MarkExported(c) \/ Wages!Fail(c) PROVE PayrollInductive'
  <2>1. /\ wagesCall' = [wagesCall EXCEPT ![c] = Wages!Idle]
        /\ period' = period \/ period' = [period EXCEPT !.status = "EXPORTED"]
        /\ UNCHANGED <<closed, record, export, exact>>
    BY <1>8 DEF Wages!MarkExported, Wages!Fail
  <2>2. Wages!Idle \in PayrollCalls /\ Wages!Idle.op = "idle"
    BY DEF Wages!Idle, PayrollCalls
  <2>3. /\ period' \in [status : {"none", "DRAFT", "CALCULATED", "APPROVED", "EXPORTED"},
                        hours : Nat, gross : Int]
        /\ period'.hours = period.hours /\ period'.gross = period.gross
    BY <2>1
  <2>. QED BY <2>1, <2>2, <2>3, CallEnds DEF ExportKept
<1>9. ASSUME Wages!approvePayrollPeriod PROVE PayrollInductive'
  <2>1. /\ period' = [period EXCEPT !.status = "APPROVED"]
        /\ UNCHANGED <<closed, record, export, wagesCall, exact>>
    BY <1>9 DEF Wages!approvePayrollPeriod
  <2>2. /\ period' \in [status : {"none", "DRAFT", "CALCULATED", "APPROVED", "EXPORTED"},
                        hours : Nat, gross : Int]
        /\ period'.hours = period.hours /\ period'.gross = period.gross
    BY <2>1
  <2>. QED
    BY <2>1, <2>2 DEF HoursKept, AloneKept, ExactKept, ExportKept, Worked, Paid, Counted, Done,
       Wages!Calculating, Wages!Of, Wages!PairsOf
<1>10. ASSUME NEW e \in Entries, Wages!ClockOut(e) PROVE PayrollInductive'
  BY <1>10, EntryCloses
<1>. QED BY <1>1, <1>2, <1>3, <1>4, <1>5, <1>6, <1>7, <1>8, <1>9, <1>10 DEF Wages!Next

LEMMA WagesStepOfEach ==
    [Next]_everyVar => /\ focus' = focus
                       /\ focus = "wages" => [Wages!Next]_wagesVars
<1>1. UNCHANGED everyVar => focus' = focus /\ UNCHANGED wagesVars BY DEF everyVar
<1>. QED BY <1>1 DEF Next

\* The totals of a payroll period are those of its records once a calculation has
\* run alone, nobody is paid for hours that were not worked, and an export that no
\* calculation disturbed carries the sum of its lines (PayrollExportService).
THEOREM PayrollAddsUp == Spec => []PayAddsUp
<1> DEFINE Ind == focus = "wages" => PayrollInductive
<1>1. Init => Ind BY PayrollInit DEF Init
<1>2. Ind /\ [Next]_everyVar => Ind' BY PayrollStep, WagesStepOfEach
<1>3. Ind => PayAddsUp
  <2>. SUFFICES ASSUME PayrollInductive PROVE Wages!PayAddsUp BY DEF PayAddsUp
  <2>1. \A p \in Pairs : Wages!HoursOf(Wages!Of(p, closed)) = Worked(Wages!Of(p, closed))
    BY HoursWorked DEF PayrollInductive, PayrollTypes, Wages!Of
  <2>. QED
    BY <2>1, FileAddsUp DEF PayrollInductive, HoursKept, ExactKept, ExportKept, Wages!PayAddsUp, Pairs, Wages!Pairs
<1>. QED BY <1>1, <1>2, <1>3, PTL DEF Spec

-----------------------------------------------------------------------------
\* Each part steps alone, and which one it is never changes.
LEMMA MenuStepOfEach ==
    [Next]_everyVar =>
        /\ focus' = focus
        /\ focus = "menu" => [Shown!Next]_shownVars
        /\ focus = "catalogue" => [Tree!CatalogueNext]_treeVars
        /\ focus = "favourites" => [Tree!FavouriteNext]_treeVars
<1>1. UNCHANGED everyVar => focus' = focus /\ UNCHANGED shownVars /\ UNCHANGED treeVars
  BY DEF everyVar
<1>. QED BY <1>1 DEF Next

-----------------------------------------------------------------------------
(* The cached menu.                                                        *)

MenuCalls ==
    [op : {"idle"}]
    \union [op : {"update", "delete"}, of : Cards]
    \union [op : {"prices"}, todo : SUBSET Cards]
    \union [op : {"bump"}, of : Nat]
    \union [op : {"deleteCategory"}]
Readings ==
    [op : {"idle"}]
    \union [op : {"lookup", "build"}, key : Shown!Keys, least : Nat]
    \union [op : {"store"}, key : Shown!Keys, least : Nat, menu : Nat]

MenuTypes ==
    /\ menuItem \in [Cards -> {"none", "shown", "hidden"}]
    /\ menuCategory \in BOOLEAN /\ orphaned \in BOOLEAN
    /\ changes \in Nat /\ version \in 0 .. MaxChanges + 1
    /\ announced \in Nat /\ announced <= changes
    /\ cache \in [Shown!Keys -> Int]
    /\ menuCall \in [Hands -> MenuCalls]
    /\ reading \in [Readers -> Readings]

\* A bump announces a change that was made.
BumpsMade == \A w \in Hands : menuCall[w].op = "bump" => menuCall[w].of <= changes

\* A product has its category, or lost it to a deletion it was added during.
RowsKept ==
    /\ Shown!ProductsHaveCategory
    /\ \A w \in Hands :
           menuCall[w].op = "deleteCategory" => orphaned \/ \A p \in Cards : ~Shown!Exists(p)

\* Readers of one version have to see the same changes, those of the version in
\* force all that were announced; and what they built has them.
ReaderKept(r) ==
    r.op # "idle" =>
        /\ r.key <= Shown!CacheVersion /\ r.least <= announced
        /\ r.key = Shown!CacheVersion => r.least = announced
        /\ r.op = "store" => r.menu >= r.least
ReadersKept ==
    /\ \A r \in Readers : ReaderKept(reading[r])
    /\ \A r, s \in Readers :
           /\ reading[r].op # "idle" /\ reading[s].op # "idle"
           /\ reading[r].key = reading[s].key
           => reading[r].least = reading[s].least

\* A menu is stored under a version that was in force, and has the changes that
\* readers of that version have to see.
EntryKept(k) ==
    cache[k] # Shown!NoMenu =>
        /\ k <= Shown!CacheVersion
        /\ k = Shown!CacheVersion => cache[k] >= announced
        /\ \A r \in Readers : reading[r].op # "idle" /\ reading[r].key = k => cache[k] >= reading[r].least
CacheKept == \A k \in Shown!Keys : EntryKept(k)

MenuInductive == MenuTypes /\ BumpsMade /\ RowsKept /\ ReadersKept /\ CacheKept /\ Shown!MenuKeepsUp

LEMMA MenuInit == Shown!Init => MenuInductive
<1>. SUFFICES ASSUME Shown!Init PROVE MenuInductive OBVIOUS
<1>1. MaxChanges \in Nat BY BackOfficeAssumption DEF Shown!MenuAssumption
<1>2. /\ \A w \in Hands : menuCall[w].op = "idle"
      /\ \A r \in Readers : reading[r].op = "idle"
      /\ \A k \in Shown!Keys : cache[k] = Shown!NoMenu
  BY DEF Shown!Init, Shown!Idle
<1>3. MenuTypes
  <2>1. menuItem \in [Cards -> {"none", "shown", "hidden"}] BY DEF Shown!Init
  <2>2. menuCall \in [Hands -> MenuCalls]
    BY DEF Shown!Init, Shown!Idle, MenuCalls
  <2>3. reading \in [Readers -> Readings] BY DEF Shown!Init, Shown!Idle, Readings
  <2>4. cache \in [Shown!Keys -> Int] BY DEF Shown!Init, Shown!NoMenu
  <2>5. menuCategory \in BOOLEAN /\ orphaned \in BOOLEAN BY DEF Shown!Init
  <2>6. /\ changes \in Nat /\ version \in 0 .. MaxChanges + 1
        /\ announced \in Nat /\ announced <= changes
    <3>1. changes = 0 /\ version = 0 /\ announced = 0 BY DEF Shown!Init
    <3>. QED BY <1>1, <3>1
  <2>. QED BY <2>1, <2>2, <2>3, <2>4, <2>5, <2>6 DEF MenuTypes
<1>4. BumpsMade /\ RowsKept /\ ReadersKept /\ CacheKept
  BY <1>2 DEF BumpsMade, RowsKept, ReadersKept, ReaderKept, CacheKept, EntryKept, Shown!Init,
              Shown!ProductsHaveCategory
<1>5. Shown!MenuKeepsUp BY DEF Shown!Init, Shown!MenuKeepsUp
<1>. QED BY <1>3, <1>4, <1>5 DEF MenuInductive

\* What a call is about.
LEMMA MenuCallFields ==
    ASSUME NEW c \in MenuCalls
    PROVE  /\ c.op \in {"update", "delete"} => c.of \in Cards
           /\ c.op = "prices" => c.todo \in SUBSET Cards
           /\ c.op = "bump" => c.of \in Nat
  BY DEF MenuCalls

LEMMA ReadingFields ==
    ASSUME NEW c \in Readings
    PROVE  /\ c.op \in {"idle", "lookup", "build", "store"}
           /\ c.op = "idle" => c = Shown!Idle
           /\ c.op # "idle" => c.key \in Shown!Keys /\ c.least \in Nat
           /\ c.op = "store" => c.menu \in Nat
  BY DEF Readings, Shown!Idle

\* A request of the back office moves on, and the readers do not see it.
LEMMA AdminMoves ==
    ASSUME MenuInductive, NEW w \in Hands, NEW d \in MenuCalls,
           menuCall' = [menuCall EXCEPT ![w] = d],
           menuItem' \in [Cards -> {"none", "shown", "hidden"}],
           menuCategory' \in BOOLEAN, orphaned' \in BOOLEAN,
           changes' \in {changes, changes + 1},
           d.op = "bump" => d.of <= changes',
           RowsKept', UNCHANGED <<version, cache, reading, announced, behind>>
    PROVE  MenuInductive'
<1>1. changes \in Nat /\ changes' \in Nat /\ changes <= changes' /\ announced \in Nat
      /\ announced <= changes
  BY DEF MenuInductive, MenuTypes
<1>2. MenuTypes' BY <1>1 DEF MenuInductive, MenuTypes
<1>3. BumpsMade'
  <2>. SUFFICES ASSUME NEW x \in Hands, menuCall'[x].op = "bump" PROVE menuCall'[x].of <= changes'
    BY DEF BumpsMade
  <2>1. CASE x = w BY <2>1 DEF MenuInductive, MenuTypes
  <2>2. CASE x # w
    <3>1. menuCall'[x] = menuCall[x] /\ menuCall[x] \in MenuCalls
      BY <2>2 DEF MenuInductive, MenuTypes
    <3>2. menuCall[x].of \in Nat /\ menuCall[x].of <= changes
      BY <3>1, MenuCallFields DEF MenuInductive, BumpsMade
    <3>. QED BY <1>1, <3>1, <3>2
  <2>. QED BY <2>1, <2>2
<1>4. ReadersKept' /\ CacheKept' /\ Shown!MenuKeepsUp'
  BY DEF MenuInductive, ReadersKept, ReaderKept, CacheKept, EntryKept, Shown!MenuKeepsUp,
         Shown!CacheVersion
<1>. QED BY <1>2, <1>3, <1>4 DEF MenuInductive

\* The rows change and nothing announces it, or it is to be announced.
LEMMA RowsChange ==
    ASSUME MenuInductive, NEW w \in Hands,
           NEW d \in MenuCalls, Shown!Changed(w, d), d.op = "bump" => d.of <= changes + 1,
           menuItem' \in [Cards -> {"none", "shown", "hidden"}],
           menuCategory' \in BOOLEAN, orphaned' \in BOOLEAN,
           RowsKept', Shown!Rest
    PROVE  MenuInductive'
<1>1. /\ changes' = changes + 1 /\ menuCall' = [menuCall EXCEPT ![w] = d]
      /\ UNCHANGED <<version, cache, reading, announced, behind>>
  BY DEF Shown!Changed, Shown!Rest
<1>. QED BY <1>1, AdminMoves

LEMMA Announced ==
    ASSUME MenuInductive, NEW w \in Hands, Shown!Invalidate(w),
           menuItem' \in [Cards -> {"none", "shown", "hidden"}],
           menuCategory' \in BOOLEAN, orphaned' \in BOOLEAN,
           RowsKept', Shown!Rest
    PROVE  MenuInductive'
<1> DEFINE d == [op |-> "bump", of |-> changes + 1]
<1>1. d \in MenuCalls /\ d.op = "bump" /\ d.of = changes + 1
  BY DEF MenuInductive, MenuTypes, MenuCalls
<1>2. Shown!Changed(w, d) BY DEF Shown!Invalidate
<1>3. changes + 1 <= changes + 1 BY DEF MenuInductive, MenuTypes
<1>. HIDE DEF d
<1>. QED BY <1>1, <1>2, <1>3, RowsChange

LEMMA Unannounced ==
    ASSUME MenuInductive, NEW w \in Hands, Shown!Quietly(w),
           menuItem' \in [Cards -> {"none", "shown", "hidden"}],
           menuCategory' \in BOOLEAN, orphaned' \in BOOLEAN,
           RowsKept', Shown!Rest
    PROVE  MenuInductive'
<1>1. Shown!Idle \in MenuCalls /\ Shown!Idle.op # "bump"
  BY DEF MenuCalls, Shown!Idle
<1>2. Shown!Changed(w, Shown!Idle) BY DEF Shown!Quietly
<1>. QED BY <1>1, <1>2, RowsChange

\* What keeps a product with its category: no product comes to be without one,
\* and a call that is about to delete the category knows of each that does.
LEMMA RowsStay ==
    ASSUME MenuInductive, NEW w \in Hands, NEW d \in MenuCalls,
           menuCall' = [menuCall EXCEPT ![w] = d],
           orphaned => orphaned',
           \/ menuCategory => menuCategory'
           \/ menuCall[w].op = "deleteCategory",
           \A p \in Cards : menuItem'[p] # "none" =>
               \/ menuItem[p] # "none"
               \/ /\ menuCategory'
                  /\ (\E v \in Hands : menuCall[v].op = "deleteCategory") => orphaned',
           d.op = "deleteCategory" => \A p \in Cards : menuItem'[p] = "none"
    PROVE  RowsKept'
<1>1. menuCall'[w] = d /\ \A x \in Hands \ {w} : menuCall'[x] = menuCall[x]
  BY DEF MenuInductive, MenuTypes
<1>2. ASSUME NEW x \in Hands, menuCall'[x].op = "deleteCategory", ~orphaned'
      PROVE  \A p \in Cards : menuItem'[p] = "none"
  <2>1. CASE x = w BY <1>1, <1>2, <2>1
  <2>2. CASE x # w
    <3>1. menuCall[x].op = "deleteCategory" BY <1>1, <1>2, <2>2
    <3>2. \A p \in Cards : menuItem[p] = "none"
      BY <1>2, <3>1 DEF MenuInductive, RowsKept, Shown!Exists
    <3>. QED BY <1>2, <3>1, <3>2
  <2>. QED BY <2>1, <2>2
<1>3. ASSUME ~orphaned', ~menuCategory'
      PROVE  \A p \in Cards : menuItem'[p] = "none"
  <2>1. \A p \in Cards : menuItem[p] = "none"
    <3>1. CASE menuCategory => menuCategory'
      BY <1>3, <3>1 DEF MenuInductive, RowsKept, Shown!ProductsHaveCategory, Shown!Exists
    <3>2. CASE menuCall[w].op = "deleteCategory"
      BY <1>3, <3>2 DEF MenuInductive, RowsKept, Shown!Exists
    <3>. QED BY <1>3, <3>1, <3>2
  <2>. QED BY <1>3, <2>1
<1>. QED BY <1>2, <1>3 DEF RowsKept, Shown!ProductsHaveCategory, Shown!Exists

\* A call that has yet to write begins, goes on or ends, and the rows stay.
LEMMA CallTurns ==
    ASSUME MenuInductive, NEW w \in Hands, NEW d \in MenuCalls,
           menuCall' = [menuCall EXCEPT ![w] = d],
           d.op = "bump" => d.of = 0,
           d.op = "deleteCategory" => \A p \in Cards : menuItem[p] = "none",
           UNCHANGED <<menuItem, menuCategory, changes, orphaned>>, Shown!Rest
    PROVE  MenuInductive'
<1>1. RowsKept' BY RowsStay
<1>2. d.op = "bump" => d.of <= changes' BY DEF MenuInductive, MenuTypes
<1>3. /\ menuItem' \in [Cards -> {"none", "shown", "hidden"}]
      /\ menuCategory' \in BOOLEAN /\ orphaned' \in BOOLEAN /\ changes' \in {changes, changes + 1}
  BY DEF MenuInductive, MenuTypes
<1>. QED BY <1>1, <1>2, <1>3, AdminMoves DEF Shown!Rest

\* The steps of the back office.
LEMMA AdminStep ==
    ASSUME MenuInductive, NEW w \in Hands,
           \/ \E p \in Cards :
                  \/ Shown!createProduct(w, p) \/ Shown!updateProduct(w, p) \/ Shown!deleteProduct(w, p)
                  \/ Shown!LinkOptions(w, p) \/ Shown!create(w, p) \/ Shown!update(w, p)
                  \/ Shown!softDelete(w, p)
           \/ Shown!WriteProduct(w) \/ Shown!bulkUpdatePrices(w) \/ Shown!NextPrice(w)
           \/ \E ps \in SUBSET Cards, value \in {"shown", "hidden"} :
                  Shown!bulkUpdateAvailability(w, ps, value)
           \/ Shown!createCategory(w) \/ Shown!updateCategory(w)
           \/ Shown!deleteCategory(w) \/ Shown!DropCategory(w)
           \/ Shown!Rearrange(w) \/ Shown!Fail(w)
    PROVE  MenuInductive'
<1>t. /\ menuItem \in [Cards -> {"none", "shown", "hidden"}]
      /\ menuCategory \in BOOLEAN /\ orphaned \in BOOLEAN
      /\ changes \in Nat /\ menuCall \in [Hands -> MenuCalls]
  BY DEF MenuInductive, MenuTypes
<1> DEFINE bump == [op |-> "bump", of |-> changes + 1]
<1>i. Shown!Idle \in MenuCalls /\ Shown!Idle.op = "idle"
  BY DEF MenuCalls, Shown!Idle
<1>b. bump \in MenuCalls /\ bump.op = "bump" BY <1>t DEF MenuCalls
<1>u. /\ menuItem' = menuItem => menuItem' \in [Cards -> {"none", "shown", "hidden"}]
      /\ menuCategory' = menuCategory => menuCategory' \in BOOLEAN
      /\ orphaned' = orphaned => orphaned' \in BOOLEAN
  BY <1>t
<1>v. ASSUME NEW p \in Cards, NEW value \in {"none", "shown", "hidden"}, Shown!Set(p, value)
      PROVE  /\ menuItem' \in [Cards -> {"none", "shown", "hidden"}]
             /\ menuItem'[p] = value /\ \A q \in Cards \ {p} : menuItem'[q] = menuItem[q]
  BY <1>t, <1>v DEF Shown!Set
<1>a. Shown!Invalidate(w) => menuCall' = [menuCall EXCEPT ![w] = bump]
  BY DEF Shown!Invalidate, Shown!Changed
<1>q. Shown!Quietly(w) => menuCall' = [menuCall EXCEPT ![w] = Shown!Idle]
  BY DEF Shown!Quietly, Shown!Changed
<1>. HIDE DEF bump
<1>1. ASSUME NEW p \in Cards, Shown!createProduct(w, p) \/ Shown!create(w, p) PROVE MenuInductive'
  <2>1. /\ menuCategory' = menuCategory /\ Shown!Set(p, "shown") /\ Shown!Rest
        /\ Shown!Invalidate(w) \/ Shown!Quietly(w)
    BY <1>1 DEF Shown!createProduct, Shown!create
  <2>c. menuCategory BY <1>1 DEF Shown!createProduct, Shown!create
  <2>2. orphaned' = (orphaned \/ \E v \in Hands : menuCall[v].op = "deleteCategory")
    BY <1>1 DEF Shown!createProduct, Shown!create
  <2>3. /\ orphaned' \in BOOLEAN
        /\ orphaned => orphaned'
        /\ (\E v \in Hands : menuCall[v].op = "deleteCategory") => orphaned'
    BY <1>t, <2>2
  <2>d. PICK d \in MenuCalls : d.op \in {"bump", "idle"} /\ menuCall' = [menuCall EXCEPT ![w] = d]
    BY <1>a, <1>b, <1>i, <1>q, <2>1
  <2>e. /\ menuItem' \in [Cards -> {"none", "shown", "hidden"}]
        /\ \A q \in Cards \ {p} : menuItem'[q] = menuItem[q]
    BY <1>v, <2>1
  <2>f. \A q \in Cards : menuItem'[q] # "none" =>
            \/ menuItem[q] # "none"
            \/ /\ menuCategory'
               /\ (\E v \in Hands : menuCall[v].op = "deleteCategory") => orphaned'
    BY <2>1, <2>3, <2>c, <2>e
  <2>h. menuCategory' \in BOOLEAN /\ (menuCategory => menuCategory') /\ Shown!Rest
    BY <1>u, <2>1
  <2>i. d.op = "deleteCategory" => \A q \in Cards : menuItem'[q] = "none" BY <2>d
  <2>j. orphaned' \in BOOLEAN /\ (orphaned => orphaned') BY <2>3
  <2>4. RowsKept' BY <2>d, <2>f, <2>h, <2>i, <2>j, RowsStay
  <2>5. CASE Shown!Invalidate(w) BY <2>4, <2>5, <2>e, <2>h, <2>j, Announced
  <2>6. CASE Shown!Quietly(w) BY <2>4, <2>6, <2>e, <2>h, <2>j, Unannounced
  <2>. QED BY <2>1, <2>5, <2>6
<1>2. ASSUME NEW p \in Cards, Shown!updateProduct(w, p) \/ Shown!deleteProduct(w, p)
      PROVE  MenuInductive'
  <2>1. PICK d \in [op : {"update", "delete"}, of : Cards] : Shown!Begin(w, d)
    BY <1>2 DEF Shown!updateProduct, Shown!deleteProduct
  <2>2. d \in MenuCalls /\ d.op \in {"update", "delete"} BY DEF MenuCalls
  <2>. QED BY <2>1, <2>2, CallTurns DEF Shown!Begin
<1>3. ASSUME NEW p \in Cards, Shown!LinkOptions(w, p) PROVE MenuInductive'
  <2>1. /\ Shown!Invalidate(w) /\ Shown!Rest
        /\ menuItem' = menuItem /\ menuCategory' = menuCategory /\ orphaned' = orphaned
    BY <1>3 DEF Shown!LinkOptions
  <2>2. RowsKept' BY <1>a, <1>b, <2>1, RowsStay
  <2>. QED BY <1>u, <2>1, <2>2, Announced
<1>4. ASSUME NEW p \in Cards, Shown!update(w, p) \/ Shown!softDelete(w, p) PROVE MenuInductive'
  <2>1. /\ menuItem[p] # "none" /\ Shown!Quietly(w) /\ Shown!Rest
        /\ menuCategory' = menuCategory /\ orphaned' = orphaned
    BY <1>4 DEF Shown!update, Shown!softDelete, Shown!Exists
  <2>2. PICK value \in {"none", "shown", "hidden"} : Shown!Set(p, value)
    BY <1>4 DEF Shown!update, Shown!softDelete
  <2>3. RowsKept' BY <1>i, <1>q, <1>v, <2>1, <2>2, RowsStay
  <2>. QED BY <1>u, <1>v, <2>1, <2>2, <2>3, Unannounced
<1>5. ASSUME Shown!WriteProduct(w) PROVE MenuInductive'
  <2> DEFINE p == menuCall[w].of
  <2>1. /\ menuCall[w].op \in {"update", "delete"} /\ menuItem[p] # "none"
        /\ Shown!Invalidate(w) /\ Shown!Rest
        /\ menuCategory' = menuCategory /\ orphaned' = orphaned
    BY <1>5 DEF Shown!WriteProduct, Shown!Exists
  <2>2. p \in Cards BY <1>t, <2>1, MenuCallFields
  <2>3. PICK value \in {"none", "shown", "hidden"} : Shown!Set(p, value)
    BY <1>5 DEF Shown!WriteProduct
  <2>. HIDE DEF p
  <2>e. /\ menuItem' \in [Cards -> {"none", "shown", "hidden"}]
        /\ \A q \in Cards : menuItem'[q] # "none" => menuItem[q] # "none"
    BY <1>v, <2>1, <2>2, <2>3
  <2>f. bump.op # "deleteCategory" /\ menuCall' = [menuCall EXCEPT ![w] = bump]
    BY <1>a, <1>b, <2>1
  <2>4. RowsKept' BY <1>b, <2>1, <2>e, <2>f, RowsStay
  <2>. QED BY <1>u, <1>v, <2>1, <2>2, <2>3, <2>4, Announced
<1>6. ASSUME Shown!bulkUpdatePrices(w) PROVE MenuInductive'
  <2>1. Shown!Begin(w, [op |-> "prices", todo |-> Cards])
    BY <1>6 DEF Shown!bulkUpdatePrices
  <2>2. [op |-> "prices", todo |-> Cards] \in MenuCalls BY DEF MenuCalls
  <2>. QED BY <2>1, <2>2, CallTurns DEF Shown!Begin
<1>7. ASSUME Shown!NextPrice(w) PROVE MenuInductive'
  <2> DEFINE c == menuCall[w]
  <2>1. /\ c.op = "prices" /\ Shown!Rest
        /\ menuItem' = menuItem /\ menuCategory' = menuCategory /\ orphaned' = orphaned
    BY <1>7 DEF Shown!NextPrice
  <2>2. PICK p \in menuCall[w].todo :
            IF Shown!Exists(p)
            THEN Shown!Changed(w, IF menuCall[w].todo = {p} THEN [op |-> "bump", of |-> changes + 1]
                                  ELSE [menuCall[w] EXCEPT !.todo = @ \ {p}])
            ELSE /\ menuCall' = [menuCall EXCEPT ![w] =
                                    IF @.todo = {p} THEN [op |-> "bump", of |-> 0]
                                    ELSE [menuCall[w] EXCEPT !.todo = @ \ {p}]]
                 /\ UNCHANGED changes
    BY <1>7 DEF Shown!NextPrice
  <2> DEFINE e == [c EXCEPT !.todo = c.todo \ {p}]
             zero == [op |-> "bump", of |-> 0]
  <2>3. e \in MenuCalls /\ e.op = "prices"
    <3>1. c \in [op : {"prices"}, todo : SUBSET Cards]
      BY <1>t, <2>1 DEF MenuCalls
    <3>2. e \in [op : {"prices"}, todo : SUBSET Cards] BY <3>1
    <3>. QED BY <3>2 DEF MenuCalls
  <2>4. zero \in MenuCalls /\ zero.op = "bump" /\ zero.of = 0 BY DEF MenuCalls
  <2>. HIDE DEF e, zero
  <2>5. CASE Shown!Exists(p) /\ c.todo = {p}
    <3>1. Shown!Invalidate(w) BY <2>2, <2>5 DEF Shown!Invalidate
    <3>2. RowsKept' BY <1>a, <1>b, <2>1, <3>1, RowsStay
    <3>. QED BY <1>u, <2>1, <3>1, <3>2, Announced
  <2>6. CASE Shown!Exists(p) /\ c.todo # {p}
    <3>1. Shown!Changed(w, e) BY <2>2, <2>6 DEF e
    <3>2. menuCall' = [menuCall EXCEPT ![w] = e] BY <3>1 DEF Shown!Changed
    <3>3. RowsKept' BY <2>1, <2>3, <3>2, RowsStay
    <3>. QED BY <1>u, <2>1, <2>3, <3>1, <3>3, RowsChange
  <2>7. CASE ~Shown!Exists(p) /\ c.todo = {p}
    <3>1. menuCall' = [menuCall EXCEPT ![w] = zero] /\ changes' = changes
      BY <2>2, <2>7 DEF zero
    <3>. QED BY <2>1, <2>4, <3>1, CallTurns
  <2>8. CASE ~Shown!Exists(p) /\ c.todo # {p}
    <3>1. menuCall' = [menuCall EXCEPT ![w] = e] /\ changes' = changes
      BY <2>2, <2>8 DEF e
    <3>. QED BY <2>1, <2>3, <3>1, CallTurns
  <2>. QED BY <2>5, <2>6, <2>7, <2>8
<1>8. ASSUME NEW ps \in SUBSET Cards, NEW value \in {"shown", "hidden"},
             Shown!bulkUpdateAvailability(w, ps, value)
      PROVE  MenuInductive'
  <2>1. /\ Shown!Invalidate(w) /\ Shown!Rest
        /\ menuCategory' = menuCategory /\ orphaned' = orphaned
    BY <1>8 DEF Shown!bulkUpdateAvailability
  <2>2. menuItem' = [p \in Cards |-> IF p \in ps /\ menuItem[p] # "none" THEN value ELSE menuItem[p]]
    BY <1>8 DEF Shown!bulkUpdateAvailability, Shown!Exists
  <2>3. /\ menuItem' \in [Cards -> {"none", "shown", "hidden"}]
        /\ \A p \in Cards : menuItem'[p] # "none" => menuItem[p] # "none"
    BY <1>t, <2>2
  <2>4. RowsKept' BY <1>a, <1>b, <2>1, <2>3, RowsStay
  <2>. QED BY <1>u, <2>1, <2>3, <2>4, Announced
<1>9. ASSUME Shown!createCategory(w) \/ Shown!updateCategory(w) PROVE MenuInductive'
  <2>1. /\ Shown!Invalidate(w) /\ Shown!Rest /\ menuItem' = menuItem /\ orphaned' = orphaned
        /\ menuCategory' = TRUE \/ menuCategory' = menuCategory
    BY <1>9 DEF Shown!createCategory, Shown!updateCategory
  <2>2. RowsKept' BY <1>a, <1>b, <2>1, RowsStay
  <2>3. menuCategory' \in BOOLEAN BY <1>t, <2>1
  <2>. QED BY <1>u, <2>1, <2>2, <2>3, Announced
<1>10. ASSUME Shown!deleteCategory(w) PROVE MenuInductive'
  <2>1. /\ Shown!Begin(w, [op |-> "deleteCategory"]) /\ \A p \in Cards : menuItem[p] = "none"
    BY <1>10 DEF Shown!deleteCategory, Shown!Exists
  <2>2. [op |-> "deleteCategory"] \in MenuCalls BY DEF MenuCalls
  <2>. QED BY <2>1, <2>2, CallTurns DEF Shown!Begin
<1>11. ASSUME Shown!DropCategory(w) PROVE MenuInductive'
  <2>1. /\ menuCall[w].op = "deleteCategory" /\ menuCategory' = FALSE
        /\ Shown!Invalidate(w) /\ Shown!Rest /\ menuItem' = menuItem /\ orphaned' = orphaned
    BY <1>11 DEF Shown!DropCategory
  <2>2. RowsKept' BY <1>a, <1>b, <2>1, RowsStay
  <2>3. menuCategory' \in BOOLEAN BY <2>1
  <2>. QED BY <1>u, <2>1, <2>2, <2>3, Announced
<1>12. ASSUME Shown!Rearrange(w) PROVE MenuInductive'
  <2>1. /\ Shown!Quietly(w) /\ Shown!Rest
        /\ menuItem' = menuItem /\ menuCategory' = menuCategory /\ orphaned' = orphaned
    BY <1>12 DEF Shown!Rearrange
  <2>2. RowsKept' BY <1>i, <1>q, <2>1, RowsStay
  <2>. QED BY <1>u, <2>1, <2>2, Unannounced
<1>13. ASSUME Shown!Fail(w) PROVE MenuInductive'
  BY <1>13, <1>i, CallTurns DEF Shown!Fail
<1>. QED BY <1>1, <1>2, <1>3, <1>4, <1>5, <1>6, <1>7, <1>8, <1>9, <1>10, <1>11, <1>12, <1>13

\* A bump: no reader has the new version yet and nothing is stored under it, but
\* for the first of all, that changes nothing.
LEMMA BumpStep ==
    ASSUME MenuInductive, NEW w \in Hands, Shown!BumpVersion(w)
    PROVE  MenuInductive'
<1>1. /\ menuCall[w].op = "bump" /\ version <= MaxChanges /\ version' = version + 1
      /\ announced' = IF version > 0 /\ menuCall[w].of > announced THEN menuCall[w].of ELSE announced
      /\ menuCall' = [menuCall EXCEPT ![w] = Shown!Idle]
      /\ UNCHANGED <<menuItem, menuCategory, changes, cache, reading, orphaned, behind>>
  BY DEF Shown!BumpVersion, Shown!NextVersion
<1>2. MaxChanges \in Nat /\ version \in Nat /\ announced \in Nat /\ changes \in Nat
  BY BackOfficeAssumption DEF Shown!MenuAssumption, MenuInductive, MenuTypes
<1>3. menuCall[w].of \in Nat /\ menuCall[w].of <= changes
  BY <1>1, MenuCallFields DEF MenuInductive, MenuTypes, BumpsMade
<1>4. /\ announced' \in Nat /\ announced <= announced' /\ announced' <= changes
      /\ version = 0 => announced' = announced
  BY <1>1, <1>2, <1>3 DEF MenuInductive, MenuTypes
<1>5. /\ Shown!CacheVersion \in Nat /\ Shown!CacheVersion' \in Nat
      /\ Shown!CacheVersion <= Shown!CacheVersion'
      /\ Shown!CacheVersion' = Shown!CacheVersion => announced' = announced
  BY <1>1, <1>2, <1>4 DEF Shown!CacheVersion
<1>6. MenuTypes'
  <2>1. menuCall' \in [Hands -> MenuCalls]
    BY <1>1 DEF MenuInductive, MenuTypes, MenuCalls, Shown!Idle
  <2>2. version' \in 0 .. MaxChanges + 1 BY <1>1, <1>2
  <2>. QED BY <1>1, <1>4, <2>1, <2>2 DEF MenuInductive, MenuTypes
<1>7. \A x \in Hands : menuCall'[x] = menuCall[x] \/ menuCall'[x].op = "idle"
  BY <1>1 DEF MenuInductive, MenuTypes, Shown!Idle
<1>8. BumpsMade' /\ RowsKept' /\ Shown!MenuKeepsUp'
  BY <1>1, <1>7 DEF MenuInductive, BumpsMade, RowsKept, Shown!MenuKeepsUp, Shown!Exists,
                    Shown!ProductsHaveCategory
<1>9. ASSUME NEW r \in Readers PROVE ReaderKept(reading[r])'
  <2>1. ReaderKept(reading[r]) /\ reading'[r] = reading[r] /\ reading[r] \in Readings
    BY <1>1 DEF MenuInductive, MenuTypes, ReadersKept
  <2>2. CASE reading[r].op = "idle" BY <2>1, <2>2 DEF ReaderKept
  <2>3. CASE reading[r].op # "idle"
    <3>1. reading[r].key \in Nat /\ reading[r].least \in Nat
      BY <2>1, <2>3, ReadingFields DEF Shown!Keys
    <3>2. /\ reading[r].key <= Shown!CacheVersion /\ reading[r].least <= announced
          /\ reading[r].key = Shown!CacheVersion => reading[r].least = announced
          /\ reading[r].op = "store" => reading[r].menu >= reading[r].least
      BY <2>1, <2>3 DEF ReaderKept
    <3>3. /\ reading[r].key <= Shown!CacheVersion' /\ reading[r].least <= announced'
          /\ reading[r].key = Shown!CacheVersion' => reading[r].least = announced'
      BY <1>2, <1>4, <1>5, <3>1, <3>2
    <3>. QED BY <2>1, <3>2, <3>3 DEF ReaderKept
  <2>. QED BY <2>2, <2>3
<1>10. ReadersKept' BY <1>1, <1>9 DEF MenuInductive, ReadersKept
<1>11. ASSUME NEW k \in Shown!Keys, cache[k] # Shown!NoMenu
       PROVE  /\ k <= Shown!CacheVersion'
              /\ k = Shown!CacheVersion' => cache[k] >= announced'
  <2>1. k <= Shown!CacheVersion /\ (k = Shown!CacheVersion => cache[k] >= announced) /\ k \in Nat
    BY <1>11 DEF MenuInductive, CacheKept, EntryKept, Shown!Keys
  <2>. QED BY <1>2, <1>4, <1>5, <2>1
<1>12. CacheKept' BY <1>1, <1>11 DEF MenuInductive, CacheKept, EntryKept
<1>. QED BY <1>6, <1>8, <1>10, <1>12 DEF MenuInductive

\* A reader moves on; what was stored is what it looked up, or what it built.
LEMMA ReaderMoves ==
    ASSUME MenuInductive, NEW r \in Readers, NEW d \in Readings,
           reading' = [reading EXCEPT ![r] = d],
           ReaderKept(d),
           \A s \in Readers \ {r} :
               d.op # "idle" /\ reading[s].op # "idle" /\ reading[s].key = d.key
                   => reading[s].least = d.least,
           \A k \in Shown!Keys : d.op # "idle" /\ d.key = k /\ cache'[k] # Shown!NoMenu => cache'[k] >= d.least,
           cache' \in [Shown!Keys -> Int],
           \A k \in Shown!Keys : EntryKept(k) => \/ cache'[k] \in {cache[k], Shown!NoMenu}
                                                 \/ /\ k <= Shown!CacheVersion
                                                    /\ k = Shown!CacheVersion => cache'[k] >= announced
                                                    /\ \A s \in Readers :
                                                           reading[s].op # "idle" /\ reading[s].key = k
                                                               => cache'[k] >= reading[s].least,
           ~behind', Shown!RowsKept
    PROVE  MenuInductive'
<1>1. reading'[r] = d /\ \A s \in Readers \ {r} : reading'[s] = reading[s]
  BY DEF MenuInductive, MenuTypes
<1>2. /\ UNCHANGED <<menuItem, menuCategory, changes, version, menuCall, announced, orphaned>>
      /\ Shown!CacheVersion' = Shown!CacheVersion
  BY DEF Shown!RowsKept, Shown!CacheVersion
<1>3. MenuTypes' BY <1>2 DEF MenuInductive, MenuTypes
<1>4. BumpsMade' /\ RowsKept' /\ Shown!MenuKeepsUp'
  BY <1>2 DEF MenuInductive, BumpsMade, RowsKept, Shown!MenuKeepsUp, Shown!Exists,
              Shown!ProductsHaveCategory
<1>5. \A s \in Readers : ReaderKept(reading[s])'
  <2>1. ReaderKept(d)' BY <1>2 DEF ReaderKept
  <2>2. \A s \in Readers \ {r} : ReaderKept(reading[s])
    BY DEF MenuInductive, ReadersKept
  <2>3. \A s \in Readers \ {r} : ReaderKept(reading[s])'
    BY <1>1, <1>2, <2>2 DEF ReaderKept
  <2>. QED BY <1>1, <2>1, <2>3
<1>6. ReadersKept'
  <2>1. ASSUME NEW s \in Readers, NEW t \in Readers,
               reading'[s].op # "idle", reading'[t].op # "idle", reading'[s].key = reading'[t].key
        PROVE  reading'[s].least = reading'[t].least
    BY <1>1, <2>1 DEF MenuInductive, ReadersKept
  <2>. QED BY <1>5, <2>1 DEF ReadersKept
<1>7. ASSUME NEW k \in Shown!Keys, cache'[k] # Shown!NoMenu
      PROVE  /\ k <= Shown!CacheVersion
             /\ k = Shown!CacheVersion => cache'[k] >= announced
             /\ \A s \in Readers \ {r} :
                    reading[s].op # "idle" /\ reading[s].key = k => cache'[k] >= reading[s].least
  <2>1. EntryKept(k) BY DEF MenuInductive, CacheKept
  <2>2. CASE cache'[k] = cache[k] BY <1>7, <2>1, <2>2 DEF EntryKept
  <2>3. CASE cache'[k] # cache[k] BY <1>7, <2>1, <2>3
  <2>. QED BY <2>2, <2>3
<1>8. CacheKept' BY <1>1, <1>2, <1>7 DEF CacheKept, EntryKept
<1>. QED BY <1>3, <1>4, <1>6, <1>8 DEF MenuInductive

LEMMA ReaderStep ==
    ASSUME MenuInductive, NEW r \in Readers,
           Shown!getStoreMenu(r) \/ Shown!Lookup(r) \/ Shown!buildMenu(r) \/ Shown!StoreMenu(r)
    PROVE  MenuInductive'
<1> DEFINE c == reading[r]
<1>1. /\ c \in Readings /\ ReaderKept(c) /\ ~behind /\ cache \in [Shown!Keys -> Int]
      /\ \A s \in Readers : c.op # "idle" /\ reading[s].op # "idle" /\ reading[s].key = c.key
             => reading[s].least = c.least
      /\ \A k \in Shown!Keys : EntryKept(k)
  BY DEF MenuInductive, MenuTypes, ReadersKept, CacheKept, Shown!MenuKeepsUp
<1>2. announced \in Nat /\ changes \in Nat /\ announced <= changes
  BY DEF MenuInductive, MenuTypes
<1>i. Shown!Idle \in Readings /\ Shown!Idle.op = "idle" /\ ReaderKept(Shown!Idle)
  BY DEF Readings, Shown!Idle, ReaderKept
<1>3. ASSUME Shown!getStoreMenu(r) PROVE MenuInductive'
  <2> DEFINE d == [op |-> "lookup", key |-> Shown!CacheVersion, least |-> announced]
  <2>1. reading' = [reading EXCEPT ![r] = d] /\ cache' = cache /\ ~behind' /\ Shown!RowsKept
    BY <1>1, <1>3 DEF Shown!getStoreMenu
  <2>2. Shown!CacheVersion \in Shown!Keys
    BY BackOfficeAssumption DEF Shown!MenuAssumption, MenuInductive, MenuTypes, Shown!CacheVersion,
                                Shown!Keys
  <2>3. d \in Readings /\ d.op = "lookup" /\ d.key = Shown!CacheVersion /\ d.least = announced
    BY <1>2, <2>2 DEF Readings
  <2>. HIDE DEF d
  <2>4. ReaderKept(d) BY <1>2, <2>2, <2>3 DEF ReaderKept, Shown!Keys
  <2>5. \A s \in Readers \ {r} :
            d.op # "idle" /\ reading[s].op # "idle" /\ reading[s].key = d.key
                => reading[s].least = d.least
    BY <2>3 DEF MenuInductive, ReadersKept, ReaderKept
  <2>6. \A k \in Shown!Keys :
            d.op # "idle" /\ d.key = k /\ cache'[k] # Shown!NoMenu => cache'[k] >= d.least
    BY <1>1, <2>1, <2>3 DEF EntryKept
  <2>7. cache' \in [Shown!Keys -> Int] /\ \A k \in Shown!Keys : cache'[k] = cache[k]
    BY <1>1, <2>1
  <2>. QED BY <2>1, <2>3, <2>4, <2>5, <2>6, <2>7, ReaderMoves
<1>4. ASSUME Shown!Lookup(r), cache[c.key] # Shown!NoMenu PROVE MenuInductive'
  <2>1. /\ c.op = "lookup" /\ Shown!Give(r, cache[c.key]) /\ cache' = cache /\ Shown!RowsKept
    BY <1>4 DEF Shown!Lookup
  <2>2. c.key \in Shown!Keys /\ c.least \in Nat BY <1>1, <2>1, ReadingFields
  <2>3. cache[c.key] >= c.least /\ cache[c.key] \in Int
    BY <1>1, <1>4, <2>1, <2>2 DEF EntryKept
  <2>4. ~behind'
    <3>1. behind' = (behind \/ cache[c.key] < c.least) BY <2>1 DEF Shown!Give
    <3>2. ~(cache[c.key] < c.least) BY <2>2, <2>3
    <3>. QED BY <1>1, <3>1, <3>2, Zenon
  <2>5. reading' = [reading EXCEPT ![r] = Shown!Idle] BY <2>1 DEF Shown!Give
  <2>6. cache' \in [Shown!Keys -> Int] /\ \A k \in Shown!Keys : cache'[k] = cache[k]
    BY <1>1, <2>1
  <2>. QED BY <1>i, <2>1, <2>4, <2>5, <2>6, ReaderMoves
<1>5. ASSUME Shown!Lookup(r), cache[c.key] = Shown!NoMenu PROVE MenuInductive'
  <2> DEFINE d == [c EXCEPT !.op = "build"]
  <2>1. /\ c.op = "lookup" /\ reading' = [reading EXCEPT ![r] = d]
        /\ cache' = cache /\ ~behind' /\ Shown!RowsKept
    BY <1>1, <1>5 DEF Shown!Lookup
  <2>2. d \in Readings /\ d.op = "build" /\ d.key = c.key /\ d.least = c.least
    BY <1>1, <2>1 DEF Readings
  <2>. HIDE DEF d
  <2>3. ReaderKept(d) BY <1>1, <2>1, <2>2 DEF ReaderKept
  <2>4. \A k \in Shown!Keys :
            d.op # "idle" /\ d.key = k /\ cache'[k] # Shown!NoMenu => cache'[k] >= d.least
    BY <1>1, <2>1, <2>2 DEF EntryKept
  <2>5. cache' \in [Shown!Keys -> Int] /\ \A k \in Shown!Keys : cache'[k] = cache[k]
    BY <1>1, <2>1
  <2>o. \A s \in Readers \ {r} :
            d.op # "idle" /\ reading[s].op # "idle" /\ reading[s].key = d.key
                => reading[s].least = d.least
    BY <1>1, <2>1, <2>2
  <2>. QED BY <2>1, <2>2, <2>3, <2>4, <2>5, <2>o, ReaderMoves
<1>6. ASSUME Shown!buildMenu(r) PROVE MenuInductive'
  <2> DEFINE d == [op |-> "store", key |-> c.key, least |-> c.least, menu |-> changes]
  <2>1. /\ c.op = "build" /\ reading' = [reading EXCEPT ![r] = d]
        /\ cache' = cache /\ ~behind' /\ Shown!RowsKept
    BY <1>1, <1>6 DEF Shown!buildMenu
  <2>2. c.key \in Shown!Keys /\ c.least \in Nat BY <1>1, <2>1, ReadingFields
  <2>3. d \in Readings /\ d.op = "store" /\ d.key = c.key /\ d.least = c.least /\ d.menu = changes
    BY <1>2, <2>2 DEF Readings
  <2>. HIDE DEF d
  <2>4. ReaderKept(d) BY <1>1, <1>2, <2>1, <2>2, <2>3 DEF ReaderKept
  <2>5. \A k \in Shown!Keys :
            d.op # "idle" /\ d.key = k /\ cache'[k] # Shown!NoMenu => cache'[k] >= d.least
    BY <1>1, <2>1, <2>3 DEF EntryKept
  <2>6. cache' \in [Shown!Keys -> Int] /\ \A k \in Shown!Keys : cache'[k] = cache[k]
    BY <1>1, <2>1
  <2>o. \A s \in Readers \ {r} :
            d.op # "idle" /\ reading[s].op # "idle" /\ reading[s].key = d.key
                => reading[s].least = d.least
    BY <1>1, <2>1, <2>3
  <2>. QED BY <2>1, <2>3, <2>4, <2>5, <2>6, <2>o, ReaderMoves
<1>7. ASSUME Shown!StoreMenu(r) PROVE MenuInductive'
  <2>1. /\ c.op = "store" /\ Shown!Give(r, c.menu)
        /\ cache' = [cache EXCEPT ![c.key] = c.menu] /\ Shown!RowsKept
    BY <1>7 DEF Shown!StoreMenu
  <2>2. c.key \in Shown!Keys /\ c.least \in Nat /\ c.menu \in Nat
    BY <1>1, <2>1, ReadingFields
  <2>3. /\ c.menu >= c.least /\ c.key <= Shown!CacheVersion
        /\ c.key = Shown!CacheVersion => c.least = announced
    BY <1>1, <2>1 DEF ReaderKept
  <2>4. ~behind'
    <3>1. behind' = (behind \/ c.menu < c.least) BY <2>1 DEF Shown!Give
    <3>2. ~(c.menu < c.least) BY <2>2, <2>3
    <3>. QED BY <1>1, <3>1, <3>2, Zenon
  <2>5. reading' = [reading EXCEPT ![r] = Shown!Idle] BY <2>1 DEF Shown!Give
  <2>6. /\ cache' \in [Shown!Keys -> Int]
        /\ cache'[c.key] = c.menu /\ \A k \in Shown!Keys \ {c.key} : cache'[k] = cache[k]
    BY <1>1, <2>1, <2>2
  <2>7. \A s \in Readers : reading[s].op # "idle" /\ reading[s].key = c.key => c.menu >= reading[s].least
    BY <1>1, <2>1, <2>3
  <2>. HIDE DEF c
  <2>. QED BY <1>i, <2>1, <2>3, <2>4, <2>5, <2>6, <2>7, ReaderMoves
<1>. QED BY <1>3, <1>4, <1>5, <1>6, <1>7

LEMMA MenuStep == MenuInductive /\ [Shown!Next]_shownVars => MenuInductive'
<1>. SUFFICES ASSUME MenuInductive, [Shown!Next]_shownVars PROVE MenuInductive' OBVIOUS
<1>1. ASSUME NEW k \in Shown!Keys, Shown!Expire(k) PROVE MenuInductive'
  <2>1. /\ cache' = [cache EXCEPT ![k] = Shown!NoMenu] /\ Shown!RowsKept
        /\ UNCHANGED <<reading, behind>>
    BY <1>1 DEF Shown!Expire
  <2>2. cache' \in [Shown!Keys -> Int] /\ \A j \in Shown!Keys : cache'[j] \in {cache[j], Shown!NoMenu}
    BY <2>1 DEF MenuInductive, MenuTypes, Shown!NoMenu
  <2>3. MenuTypes' BY <2>1, <2>2 DEF MenuInductive, MenuTypes, Shown!RowsKept
  <2>4. BumpsMade' /\ RowsKept' /\ ReadersKept' /\ Shown!MenuKeepsUp'
    BY <2>1 DEF MenuInductive, BumpsMade, RowsKept, ReadersKept, ReaderKept, Shown!MenuKeepsUp,
                Shown!RowsKept, Shown!Exists, Shown!ProductsHaveCategory, Shown!CacheVersion
  <2>5. CacheKept'
    BY <2>1, <2>2 DEF MenuInductive, CacheKept, EntryKept, Shown!RowsKept, Shown!CacheVersion
  <2>. QED BY <2>3, <2>4, <2>5 DEF MenuInductive
<1>2. ASSUME UNCHANGED shownVars PROVE MenuInductive'
  BY <1>2 DEF shownVars, MenuInductive, MenuTypes, BumpsMade, RowsKept, ReadersKept, ReaderKept,
              CacheKept, EntryKept, Shown!MenuKeepsUp, Shown!Exists, Shown!ProductsHaveCategory,
              Shown!CacheVersion
<1>3. ASSUME NEW w \in Hands, Shown!BumpVersion(w) PROVE MenuInductive'
  BY <1>3, BumpStep
<1>4. ASSUME NEW r \in Readers,
             Shown!getStoreMenu(r) \/ Shown!Lookup(r) \/ Shown!buildMenu(r) \/ Shown!StoreMenu(r)
      PROVE  MenuInductive'
  BY <1>4, ReaderStep
<1>. QED BY <1>1, <1>2, <1>3, <1>4, AdminStep DEF Shown!Next

-----------------------------------------------------------------------------
(* The favourites of a customer.                                           *)

\* A request knows the favourite it saw, and a favourite is named by the toggle
\* that made it.
FavouriteInductive ==
    /\ favourite \in Nat /\ toggled \in Nat /\ favourite <= toggled
    /\ toggle \in [Hands -> [op : {"idle"}] \union [op : {"toggle"}, existing : Nat]]
    /\ Tree!FavouriteTurned

LEMMA FavouriteInit == Tree!FavouriteInit => FavouriteInductive
  BY DEF Tree!FavouriteInit, Tree!Idle, FavouriteInductive, Tree!FavouriteTurned

LEMMA FavouriteStep == FavouriteInductive /\ [Tree!FavouriteNext]_treeVars => FavouriteInductive'
<1>. SUFFICES ASSUME FavouriteInductive, [Tree!FavouriteNext]_treeVars PROVE FavouriteInductive'
  OBVIOUS
<1>1. ASSUME NEW c \in Hands, Tree!toggleFavorite(c) PROVE FavouriteInductive'
  <2> DEFINE d == [op |-> "toggle", existing |-> favourite]
  <2>1. toggle' = [toggle EXCEPT ![c] = d] /\ UNCHANGED <<favourite, toggled>>
    BY <1>1 DEF Tree!toggleFavorite
  <2>2. d \in [op : {"toggle"}, existing : Nat] BY DEF FavouriteInductive
  <2>. HIDE DEF d
  <2>. QED BY <2>1, <2>2 DEF FavouriteInductive, Tree!FavouriteTurned
<1>2. ASSUME NEW c \in Hands, Tree!AnswerToggle(c) PROVE FavouriteInductive'
  <2>1. /\ Tree!RemoveFavourite(c) \/ Tree!AddFavourite(c)
        /\ toggle' = [toggle EXCEPT ![c] = Tree!Idle]
    BY <1>2 DEF Tree!AnswerToggle
  <2>2. toggle' \in [Hands -> [op : {"idle"}] \union [op : {"toggle"}, existing : Nat]]
    BY <2>1 DEF FavouriteInductive, Tree!Idle
  <2>3. CASE Tree!RemoveFavourite(c)
    <3>1. \/ favourite > 0 /\ favourite' = 0 /\ toggled' = toggled + 1
          \/ UNCHANGED <<favourite, toggled>>
      BY <2>3 DEF Tree!RemoveFavourite
    <3>. QED BY <2>2, <3>1 DEF FavouriteInductive, Tree!FavouriteTurned
  <2>4. CASE Tree!AddFavourite(c)
    <3>1. \/ favourite = 0 /\ favourite' = toggled + 1 /\ toggled' = toggled + 1
          \/ UNCHANGED <<favourite, toggled>>
      BY <2>4 DEF Tree!AddFavourite
    <3>2. CASE favourite = 0 /\ favourite' = toggled + 1 /\ toggled' = toggled + 1
      <4>1. toggled \in Nat /\ toggled % 2 # 1
        BY <3>2 DEF FavouriteInductive, Tree!FavouriteTurned
      <4>2. toggled' \in Nat /\ favourite' \in Nat /\ favourite' > 0 /\ toggled' % 2 = 1
        BY <3>2, <4>1
      <4>3. favourite' <= toggled' BY <3>2, <4>2
      <4>. QED BY <2>2, <4>2, <4>3 DEF FavouriteInductive, Tree!FavouriteTurned
    <3>3. CASE UNCHANGED <<favourite, toggled>>
      BY <2>2, <3>3 DEF FavouriteInductive, Tree!FavouriteTurned
    <3>. QED BY <3>1, <3>2, <3>3
  <2>. QED BY <2>1, <2>3, <2>4
<1>3. ASSUME UNCHANGED treeVars PROVE FavouriteInductive'
  BY <1>3 DEF treeVars, FavouriteInductive, Tree!FavouriteTurned
<1>. QED BY <1>1, <1>2, <1>3 DEF Tree!FavouriteNext

-----------------------------------------------------------------------------
(* The categories of a store.                                              *)

Slugs == (Names \union {Root}) \X Nat
CategoryRows ==
    [exists : BOOLEAN, name : Names \union {Root}, slug : Slugs, parent : Cards \union {Root},
     level : Nat, displayOrder : Nat, isActive : BOOLEAN]
Creations ==
    [op : {"create", "insert"}, name : Names \union {Root}, parent : Cards \union {Root},
     order : Nat, slug : Slugs]
Renamings == [op : {"update", "write"}, of : Cards, name : Names \union {Root}, slug : Slugs]
Deletions == [op : {"delete"}, of : Cards]
TreeCalls == [op : {"idle"}] \union Creations \union Renamings \union Deletions

TreeTypes ==
    /\ branch \in [Cards -> CategoryRows]
    /\ leaf \in [Leaves -> [category : Cards \union {Root}, isActive : BOOLEAN]]
    /\ treeCall \in [Hands -> TreeCalls]

\* The place of a category that is created is past those of its siblings, unless
\* others are created or moved meanwhile.
Creating(w) == treeCall[w].op \in {"create", "insert"}
PlacesKept ==
    /\ \E n \in Nat : \A k \in Cards : branch[k].displayOrder <= n
    /\ ~misplaced =>
           /\ Tree!PlacesOwn(branch)
           /\ \A w \in Hands : Creating(w) =>
                  \A k \in Tree!Siblings(treeCall[w].parent) :
                      branch[k].displayOrder < treeCall[w].order

SlugsKept ==
    /\ \A k \in Tree!Rows : branch[k].slug[1] = branch[k].name
    /\ \A w \in Hands : treeCall[w].op \in {"create", "insert", "update", "write"} =>
           treeCall[w].slug[1] = treeCall[w].name

\* The parent of a category is one that was created before it.
LevelsKept ==
    /\ \A k \in Tree!Rows : branch[k].parent # Root =>
           /\ branch[k].parent \in Tree!Rows
           /\ branch[k].level = branch[branch[k].parent].level + 1
    /\ \A w \in Hands :
           /\ Creating(w) => treeCall[w].parent \in Tree!Rows \union {Root}
           /\ treeCall[w].op \in {"update", "write", "delete"} => treeCall[w].of \in Tree!Rows

\* The products of a category were counted when its deletion began.
DeletedKept ==
    /\ \A k \in Tree!Rows : ~branch[k].isActive /\ k \notin strayed => Tree!ActiveIn(k) = {}
    /\ \A w \in Hands : treeCall[w].op = "delete" /\ treeCall[w].of \notin strayed =>
           Tree!ActiveIn(treeCall[w].of) = {}

TreeInductive == TreeTypes /\ PlacesKept /\ SlugsKept /\ LevelsKept /\ DeletedKept

LEMMA TreeInit == Tree!CatalogueInit => TreeInductive
<1>. SUFFICES ASSUME Tree!CatalogueInit PROVE TreeInductive OBVIOUS
<1> DEFINE row == [exists |-> FALSE, name |-> Root, slug |-> <<Root, 0>>, parent |-> Root,
                   level |-> 0, displayOrder |-> 0, isActive |-> FALSE]
<1>1. row \in CategoryRows /\ ~row.exists /\ row.displayOrder = 0
  BY DEF CategoryRows, Slugs
<1>2. branch = [k \in Cards |-> row] BY DEF Tree!CatalogueInit
<1>. HIDE DEF row
<1>3. Tree!Rows = {} /\ \A w \in Hands : treeCall[w].op = "idle"
  BY <1>1, <1>2 DEF Tree!Rows, Tree!CatalogueInit, Tree!Idle
<1>4. TreeTypes
  <2>1. branch \in [Cards -> CategoryRows] BY <1>1, <1>2
  <2>2. leaf \in [Leaves -> [category : Cards \union {Root}, isActive : BOOLEAN]]
    BY DEF Tree!CatalogueInit
  <2>3. treeCall \in [Hands -> TreeCalls]
    BY DEF Tree!CatalogueInit, Tree!Idle, TreeCalls
  <2>. QED BY <2>1, <2>2, <2>3 DEF TreeTypes
<1>5. PlacesKept
  <2>1. \A k \in Cards : branch[k].displayOrder <= 0 BY <1>1, <1>2
  <2>2. Tree!PlacesOwn(branch) BY <1>1, <1>2 DEF Tree!PlacesOwn
  <2>. QED BY <1>3, <2>1, <2>2 DEF PlacesKept, Creating
<1>6. SlugsKept /\ LevelsKept /\ DeletedKept
  BY <1>3 DEF SlugsKept, LevelsKept, DeletedKept, Creating
<1>. QED BY <1>4, <1>5, <1>6 DEF TreeInductive

\* What a call is about.
LEMMA TreeCallFields ==
    ASSUME NEW c \in TreeCalls
    PROVE  /\ c.op \in {"create", "insert"} => c \in Creations
           /\ c.op \in {"update", "write"} => c \in Renamings
           /\ c.op = "delete" => c \in Deletions
  BY DEF TreeCalls, Creations, Renamings, Deletions

\* A bounded set of numbers has a largest one.
LEMMA LargestOf ==
    ASSUME NEW S \in SUBSET Nat, S # {}, NEW n \in Nat, \A x \in S : x <= n
    PROVE  Tree!Max(S) \in S /\ \A x \in S : x <= Tree!Max(S)
<1> DEFINE T == {m \in Nat : \A x \in S : x <= m}
<1>1. T \subseteq Nat /\ T # {} OBVIOUS
<1>2. \E m \in T : \A y \in T : <<y, m>> \notin OpToRel(<, Nat)
  BY <1>1, WFMin, NatLessThanWellFounded, Zenon
<1>3. PICK m \in T : \A y \in T : ~(y < m) BY <1>2, Zenon DEF OpToRel
<1>4. m \in S
  <2>. SUFFICES ASSUME m \notin S PROVE FALSE OBVIOUS
  <2>1. \A x \in S : x <= m /\ x # m /\ x \in Nat BY <1>3
  <2>2. m \in Nat /\ m > 0
    <3>1. PICK x \in S : x <= m /\ x # m /\ x \in Nat BY <2>1
    <3>2. m \in Nat BY <1>3
    <3>. QED BY <3>1, <3>2
  <2>3. m - 1 \in T BY <2>1, <2>2
  <2>. QED BY <1>3, <2>2, <2>3
<1>5. \E x \in S : \A y \in S : x >= y BY <1>3, <1>4
<1>. QED BY <1>5 DEF Tree!Max

\* The next place is past those of all siblings.
LEMMA NextPlace ==
    ASSUME TreeTypes, NEW n \in Nat, \A k \in Cards : branch[k].displayOrder <= n, NEW parent
    PROVE  /\ Tree!MaxOrder(parent) \in Nat /\ Tree!MaxOrder(parent) <= n
           /\ \A k \in Tree!Siblings(parent) : branch[k].displayOrder < Tree!MaxOrder(parent) + 1
<1> DEFINE S == {branch[k].displayOrder : k \in Tree!Siblings(parent)} \union {0}
<1>1. \A k \in Cards : branch[k].displayOrder \in Nat
  BY DEF TreeTypes, CategoryRows
<1>2. Tree!Siblings(parent) \subseteq Cards BY DEF Tree!Siblings, Tree!Rows
<1>3. S \in SUBSET Nat /\ S # {} /\ \A x \in S : x <= n BY <1>1, <1>2
<1>4. Tree!Max(S) \in S /\ \A x \in S : x <= Tree!Max(S) BY <1>3, LargestOf
<1>5. Tree!MaxOrder(parent) = Tree!Max(S) BY DEF Tree!MaxOrder
<1>6. \A k \in Tree!Siblings(parent) : branch[k].displayOrder \in S OBVIOUS
<1>7. Tree!Max(S) \in Nat /\ Tree!Max(S) <= n BY <1>3, <1>4
<1>. HIDE DEF S
<1>. QED BY <1>1, <1>2, <1>4, <1>5, <1>6, <1>7

\* A request moves on, and what it carries fits the rows.
LEMMA TreeCallMoves ==
    ASSUME TreeInductive, NEW w \in Hands, NEW d \in TreeCalls,
           treeCall' = [treeCall EXCEPT ![w] = d],
           UNCHANGED <<branch, leaf, misplaced, strayed>>,
           d.op \in {"create", "insert"} =>
               /\ d.parent \in Tree!Rows \union {Root}
               /\ misplaced \/ \A k \in Tree!Siblings(d.parent) : branch[k].displayOrder < d.order,
           d.op \in {"create", "insert", "update", "write"} => d.slug[1] = d.name,
           d.op \in {"update", "write", "delete"} => d.of \in Tree!Rows,
           d.op = "delete" => d.of \in strayed \/ Tree!ActiveIn(d.of) = {}
    PROVE  TreeInductive'
<1>1. treeCall'[w] = d /\ \A x \in Hands \ {w} : treeCall'[x] = treeCall[x]
  BY DEF TreeInductive, TreeTypes
<1>2. /\ Tree!Rows' = Tree!Rows
      /\ \A p : Tree!Siblings(p)' = Tree!Siblings(p)
      /\ \A k : Tree!ActiveIn(k)' = Tree!ActiveIn(k)
  BY DEF Tree!Rows, Tree!Siblings, Tree!ActiveIn
<1>3. TreeTypes' BY DEF TreeInductive, TreeTypes
<1>4. PlacesKept'
  <2>1. \E n \in Nat : \A k \in Cards : branch'[k].displayOrder <= n
    BY DEF TreeInductive, PlacesKept
  <2>2. ~misplaced => Tree!PlacesOwn(branch') BY DEF TreeInductive, PlacesKept
  <2>3. ASSUME ~misplaced, NEW x \in Hands, treeCall'[x].op \in {"create", "insert"},
               NEW k \in Tree!Siblings(treeCall'[x].parent)
        PROVE  branch[k].displayOrder < treeCall'[x].order
    <3>1. CASE x = w BY <1>1, <2>3, <3>1
    <3>2. CASE x # w BY <1>1, <2>3, <3>2 DEF TreeInductive, PlacesKept, Creating
    <3>. QED BY <3>1, <3>2
  <2>4. ~misplaced' => \A x \in Hands : Creating(x)' =>
            \A k \in Tree!Siblings(treeCall[x].parent)' : branch'[k].displayOrder < treeCall'[x].order
    BY <1>2, <2>3 DEF Creating
  <2>. QED BY <2>1, <2>2, <2>4 DEF PlacesKept, Tree!PlacesOwn
<1>5. SlugsKept' BY <1>1, <1>2 DEF TreeInductive, SlugsKept
<1>6. LevelsKept' BY <1>1, <1>2 DEF TreeInductive, LevelsKept, Creating
<1>7. DeletedKept' BY <1>1, <1>2 DEF TreeInductive, DeletedKept
<1>. QED BY <1>3, <1>4, <1>5, <1>6, <1>7 DEF TreeInductive

LEMMA TreeCallEnds ==
    ASSUME TreeInductive, NEW w \in Hands, Tree!Set(w, Tree!Idle),
           UNCHANGED <<branch, leaf, misplaced, strayed>>
    PROVE  TreeInductive'
<1>1. Tree!Idle \in TreeCalls /\ Tree!Idle.op = "idle"
  BY DEF TreeCalls, Tree!Idle
<1>. QED BY <1>1, TreeCallMoves DEF Tree!Set

\* The records a request to create or rename a category goes through.
LEMMA NextCreation ==
    ASSUME NEW c \in Creations
    PROVE  /\ [c EXCEPT !.slug[2] = @ + 1] \in Creations
           /\ [c EXCEPT !.slug[2] = @ + 1].slug[1] = c.slug[1]
           /\ [c EXCEPT !.slug[2] = @ + 1].name = c.name
           /\ [c EXCEPT !.slug[2] = @ + 1].parent = c.parent
           /\ [c EXCEPT !.slug[2] = @ + 1].order = c.order
           /\ [c EXCEPT !.op = "insert"] \in Creations
           /\ [c EXCEPT !.op = "insert"].slug = c.slug
           /\ [c EXCEPT !.op = "insert"].name = c.name
           /\ [c EXCEPT !.op = "insert"].parent = c.parent
           /\ [c EXCEPT !.op = "insert"].order = c.order
<1>1. c.slug \in Slugs BY DEF Creations
<1>2. [c.slug EXCEPT ![2] = @ + 1] \in Slugs /\ [c.slug EXCEPT ![2] = @ + 1][1] = c.slug[1]
  BY <1>1 DEF Slugs
<1>3. [c EXCEPT !.slug[2] = @ + 1] = [c EXCEPT !.slug = [c.slug EXCEPT ![2] = @ + 1]]
  BY DEF Creations
<1>. QED BY <1>2, <1>3 DEF Creations

LEMMA NextRenaming ==
    ASSUME NEW c \in Renamings
    PROVE  /\ [c EXCEPT !.slug[2] = @ + 1] \in Renamings
           /\ [c EXCEPT !.slug[2] = @ + 1].slug[1] = c.slug[1]
           /\ [c EXCEPT !.slug[2] = @ + 1].name = c.name
           /\ [c EXCEPT !.slug[2] = @ + 1].of = c.of
           /\ [c EXCEPT !.op = "write"] \in Renamings
           /\ [c EXCEPT !.op = "write"].slug = c.slug
           /\ [c EXCEPT !.op = "write"].name = c.name
           /\ [c EXCEPT !.op = "write"].of = c.of
<1>1. c.slug \in Slugs BY DEF Renamings
<1>2. [c.slug EXCEPT ![2] = @ + 1] \in Slugs /\ [c.slug EXCEPT ![2] = @ + 1][1] = c.slug[1]
  BY <1>1 DEF Slugs
<1>3. [c EXCEPT !.slug[2] = @ + 1] = [c EXCEPT !.slug = [c.slug EXCEPT ![2] = @ + 1]]
  BY DEF Renamings
<1>. QED BY <1>2, <1>3 DEF Renamings

\* The search for a slug.
LEMMA SlugStep ==
    ASSUME TreeInductive, NEW w \in Hands,
           \/ \E name \in Names, parent \in Cards \union {Root} : Tree!createCategory(w, name, parent)
           \/ \E k \in Cards, name \in Names : Tree!updateCategory(w, k, name)
           \/ Tree!NextSlug(w) \/ Tree!SlugFound(w)
    PROVE  TreeInductive'
<1> DEFINE c == treeCall[w]
<1>t. TreeTypes /\ c \in TreeCalls BY DEF TreeInductive, TreeTypes
<1>k. /\ c.op \in {"create", "insert"} =>
             /\ c.parent \in Tree!Rows \union {Root}
             /\ misplaced \/ \A k \in Tree!Siblings(c.parent) : branch[k].displayOrder < c.order
      /\ c.op \in {"create", "insert", "update", "write"} => c.slug[1] = c.name
      /\ c.op \in {"update", "write"} => c.of \in Tree!Rows
  BY DEF TreeInductive, PlacesKept, SlugsKept, LevelsKept, Creating
<1>1. ASSUME NEW name \in Names, NEW parent \in Cards \union {Root},
             Tree!createCategory(w, name, parent)
      PROVE  TreeInductive'
  <2> DEFINE d == [op |-> "create", name |-> name, parent |-> parent,
                   order |-> Tree!MaxOrder(parent) + 1, slug |-> <<name, 0>>]
  <2>1. /\ parent \in Tree!Rows \union {Root} /\ treeCall' = [treeCall EXCEPT ![w] = d]
        /\ UNCHANGED <<branch, leaf, misplaced, strayed>>
    BY <1>1 DEF Tree!createCategory, Tree!Set
  <2>2. PICK n \in Nat : \A k \in Cards : branch[k].displayOrder <= n
    BY DEF TreeInductive, PlacesKept
  <2>3. /\ Tree!MaxOrder(parent) \in Nat
        /\ \A k \in Tree!Siblings(parent) : branch[k].displayOrder < Tree!MaxOrder(parent) + 1
    BY <1>t, <2>2, NextPlace
  <2>4. d \in Creations /\ d.op = "create" /\ d.parent = parent
        /\ d.order = Tree!MaxOrder(parent) + 1 /\ d.slug[1] = d.name
    BY <2>3 DEF Creations, Slugs
  <2>. HIDE DEF d
  <2>5. d \in TreeCalls BY <2>4 DEF TreeCalls
  <2>. QED BY <2>1, <2>3, <2>4, <2>5, TreeCallMoves
<1>2. ASSUME NEW k \in Cards, NEW name \in Names, Tree!updateCategory(w, k, name)
      PROVE  TreeInductive'
  <2> DEFINE d == [op |-> "update", of |-> k, name |-> name, slug |-> <<name, 0>>]
  <2>1. /\ k \in Tree!Rows /\ treeCall' = [treeCall EXCEPT ![w] = d]
        /\ UNCHANGED <<branch, leaf, misplaced, strayed>>
    BY <1>2 DEF Tree!updateCategory, Tree!Set
  <2>2. d \in Renamings /\ d.op = "update" /\ d.of = k /\ d.slug[1] = d.name
    BY DEF Renamings, Slugs
  <2>. HIDE DEF d
  <2>3. d \in TreeCalls BY <2>2 DEF TreeCalls
  <2>. QED BY <2>1, <2>2, <2>3, TreeCallMoves
<1>3. ASSUME Tree!NextSlug(w) PROVE TreeInductive'
  <2> DEFINE d == [c EXCEPT !.slug[2] = @ + 1]
  <2>1. /\ c.op \in {"create", "update"} /\ treeCall' = [treeCall EXCEPT ![w] = d]
        /\ UNCHANGED <<branch, leaf, misplaced, strayed>>
    BY <1>3 DEF Tree!NextSlug, Tree!Set
  <2>2. CASE c.op = "create"
    <3>1. c \in Creations BY <1>t, <2>2, TreeCallFields
    <3>2. /\ d \in Creations /\ d.slug[1] = c.slug[1] /\ d.name = c.name
          /\ d.parent = c.parent /\ d.order = c.order
      BY <3>1, NextCreation
    <3>. HIDE DEF d
    <3>3. d \in TreeCalls /\ d.op \in {"create", "insert"}
      BY <3>2 DEF TreeCalls, Creations
    <3>. QED BY <1>k, <2>1, <2>2, <3>2, <3>3, TreeCallMoves
  <2>3. CASE c.op = "update"
    <3>1. c \in Renamings BY <1>t, <2>3, TreeCallFields
    <3>2. d \in Renamings /\ d.slug[1] = c.slug[1] /\ d.name = c.name /\ d.of = c.of
      BY <3>1, NextRenaming
    <3>. HIDE DEF d
    <3>3. d \in TreeCalls /\ d.op \in {"update", "write"}
      BY <3>2 DEF TreeCalls, Renamings
    <3>. QED BY <1>k, <2>1, <2>3, <3>2, <3>3, TreeCallMoves
  <2>. QED BY <2>1, <2>2, <2>3
<1>4. ASSUME Tree!SlugFound(w) PROVE TreeInductive'
  <2>1. /\ c.op \in {"create", "update"}
        /\ treeCall' = [treeCall EXCEPT ![w] =
                           [c EXCEPT !.op = IF c.op = "create" THEN "insert" ELSE "write"]]
        /\ UNCHANGED <<branch, leaf, misplaced, strayed>>
    BY <1>4 DEF Tree!SlugFound, Tree!Set
  <2>2. CASE c.op = "create"
    <3> DEFINE d == [c EXCEPT !.op = "insert"]
    <3>1. c \in Creations BY <1>t, <2>2, TreeCallFields
    <3>2. /\ d \in Creations /\ d.slug = c.slug /\ d.name = c.name
          /\ d.parent = c.parent /\ d.order = c.order
      BY <3>1, NextCreation
    <3>3. treeCall' = [treeCall EXCEPT ![w] = d] BY <2>1, <2>2
    <3>. HIDE DEF d
    <3>4. d \in TreeCalls /\ d.op \in {"create", "insert"}
      BY <3>2 DEF TreeCalls, Creations
    <3>5. /\ d.parent \in Tree!Rows \union {Root} /\ d.slug[1] = d.name
          /\ misplaced \/ \A k \in Tree!Siblings(d.parent) : branch[k].displayOrder < d.order
      BY <1>k, <2>2, <3>2
    <3>. QED BY <2>1, <3>3, <3>4, <3>5, TreeCallMoves
  <2>3. CASE c.op = "update"
    <3> DEFINE d == [c EXCEPT !.op = "write"]
    <3>1. c \in Renamings BY <1>t, <2>3, TreeCallFields
    <3>2. d \in Renamings /\ d.slug = c.slug /\ d.name = c.name /\ d.of = c.of
      BY <3>1, NextRenaming
    <3>3. treeCall' = [treeCall EXCEPT ![w] = d] BY <2>1, <2>3
    <3>. HIDE DEF d
    <3>4. d \in TreeCalls /\ d.op \in {"update", "write"}
      BY <3>2 DEF TreeCalls, Renamings
    <3>. QED BY <1>k, <2>1, <2>3, <3>2, <3>3, <3>4, TreeCallMoves
  <2>. QED BY <2>1, <2>2, <2>3
<1>. QED BY <1>1, <1>2, <1>3, <1>4

\* A category is inserted: past its siblings, one below its parent.
LEMMA InsertStep ==
    ASSUME TreeInductive, NEW w \in Hands, Tree!InsertCategory(w), ~Tree!Clash(Root, treeCall[w])
    PROVE  TreeInductive'
<1> DEFINE c == treeCall[w]
           row == [exists |-> TRUE, name |-> c.name, slug |-> c.slug,
                   parent |-> c.parent, level |-> Tree!Level(c.parent),
                   displayOrder |-> c.order, isActive |-> TRUE]
<1>1. /\ c.op = "insert" /\ treeCall' = [treeCall EXCEPT ![w] = Tree!Idle]
      /\ UNCHANGED <<leaf, strayed>>
  BY DEF Tree!InsertCategory, Tree!Set
<1>2. PICK k \in Cards \ Tree!Rows : branch' = [branch EXCEPT ![k] = row]
  BY DEF Tree!InsertCategory
<1>3. ~misplaced' => ~misplaced /\ \A v \in Hands \ {w} :
          treeCall[v].op \in {"create", "insert"} => treeCall[v].parent # c.parent
  <2>1. misplaced' = (misplaced \/
            \E v \in Hands \ {w} : treeCall[v].op \in {"create", "insert"} /\ treeCall[v].parent = c.parent)
    BY DEF Tree!InsertCategory
  <2>. QED BY <2>1, Zenon
<1>t. TreeTypes BY DEF TreeInductive
<1>4. c \in Creations BY <1>1, <1>t, TreeCallFields DEF TreeTypes
<1>5. /\ c.parent \in Tree!Rows \union {Root} /\ c.slug[1] = c.name
      /\ misplaced \/ \A j \in Tree!Siblings(c.parent) : branch[j].displayOrder < c.order
  BY <1>1 DEF TreeInductive, PlacesKept, SlugsKept, LevelsKept, Creating
<1>6. /\ row.exists = TRUE /\ row.name = c.name /\ row.slug = c.slug /\ row.parent = c.parent
      /\ row.level = Tree!Level(c.parent) /\ row.displayOrder = c.order /\ row.isActive = TRUE
  OBVIOUS
<1>7. row \in CategoryRows
  <2>1. Tree!Level(c.parent) \in Nat
    BY <1>5, <1>t DEF Tree!Level, TreeTypes, CategoryRows, Tree!Rows
  <2>. QED BY <1>4, <2>1 DEF Creations, CategoryRows
<1>. HIDE DEF row
<1>8. branch'[k] = row /\ \A j \in Cards \ {k} : branch'[j] = branch[j]
  BY <1>2, <1>t DEF TreeTypes
<1>9. /\ treeCall'[w].op = "idle" /\ \A v \in Hands \ {w} : treeCall'[v] = treeCall[v]
      /\ treeCall' \in [Hands -> TreeCalls]
  BY <1>1, <1>t DEF TreeTypes, TreeCalls, Tree!Idle
<1>10. Tree!Rows' = Tree!Rows \union {k} /\ Tree!Rows \subseteq Cards
  BY <1>6, <1>8 DEF Tree!Rows
<1>11. TreeTypes' BY <1>1, <1>2, <1>7, <1>9, <1>t DEF TreeTypes
<1>12. PlacesKept'
  <2>1. PICK n \in Nat : \A j \in Cards : branch[j].displayOrder <= n
    BY DEF TreeInductive, PlacesKept
  <2>2. \E m \in Nat : \A j \in Cards : branch'[j].displayOrder <= m
    <3>1. c.order \in Nat /\ \A j \in Cards : branch[j].displayOrder \in Nat
      BY <1>4, <1>t DEF Creations, TreeTypes, CategoryRows
    <3>2. n + c.order \in Nat /\ \A j \in Cards : branch'[j].displayOrder <= n + c.order
      BY <1>6, <1>8, <2>1, <3>1
    <3>. QED BY <3>2
  <2>3. ASSUME ~misplaced', NEW i \in Tree!Rows', NEW j \in Tree!Rows', i # j,
               branch'[i].parent = branch'[j].parent
        PROVE  branch'[i].displayOrder # branch'[j].displayOrder
    <3>1. Tree!PlacesOwn(branch) BY <1>3, <2>3 DEF TreeInductive, PlacesKept
    <3>2. CASE i # k /\ j # k
      BY <1>8, <1>10, <2>3, <3>1, <3>2 DEF Tree!PlacesOwn, Tree!Rows
    <3>3. ASSUME NEW l \in Tree!Rows, branch[l].parent = c.parent
          PROVE  branch[l].displayOrder # c.order
      <4>1. l \in Tree!Siblings(c.parent) BY <3>3 DEF Tree!Siblings
      <4>2. branch[l].displayOrder < c.order BY <1>3, <1>5, <2>3, <4>1
      <4>3. branch[l].displayOrder \in Nat /\ c.order \in Nat
        BY <1>4, <1>t DEF Creations, TreeTypes, CategoryRows, Tree!Rows
      <4>. QED BY <4>2, <4>3
    <3>4. CASE i = k
      <4>1. j \in Tree!Rows /\ j # k /\ branch'[j] = branch[j]
        BY <1>8, <1>10, <2>3, <3>4
      <4>. QED BY <1>6, <1>8, <2>3, <3>3, <3>4, <4>1
    <3>5. CASE j = k
      <4>1. i \in Tree!Rows /\ i # k /\ branch'[i] = branch[i]
        BY <1>8, <1>10, <2>3, <3>5
      <4>. QED BY <1>6, <1>8, <2>3, <3>3, <3>5, <4>1
    <3>. QED BY <3>2, <3>4, <3>5
  <2>4. ~misplaced' => Tree!PlacesOwn(branch)'
    BY <2>3 DEF Tree!PlacesOwn, Tree!Rows
  <2>5. ASSUME ~misplaced', NEW v \in Hands, treeCall'[v].op \in {"create", "insert"},
               NEW j \in Cards, branch'[j].exists, branch'[j].parent = treeCall'[v].parent
        PROVE  branch'[j].displayOrder < treeCall'[v].order
    <3>1. v # w /\ treeCall'[v] = treeCall[v] BY <1>9, <2>5
    <3>2. treeCall[v].parent # c.parent BY <1>3, <2>5, <3>1
    <3>3. j # k /\ branch'[j] = branch[j] BY <1>6, <1>8, <2>5, <3>1, <3>2
    <3>4. j \in Tree!Siblings(treeCall[v].parent)
      BY <2>5, <3>1, <3>3 DEF Tree!Siblings, Tree!Rows
    <3>. QED BY <1>3, <2>5, <3>1, <3>3, <3>4 DEF TreeInductive, PlacesKept, Creating
  <2>. QED BY <2>2, <2>4, <2>5 DEF PlacesKept, Creating, Tree!Siblings, Tree!Rows
<1>13. SlugsKept' BY <1>5, <1>6, <1>8, <1>9, <1>10 DEF TreeInductive, SlugsKept
<1>14. LevelsKept'
  <2>1. ASSUME NEW j \in Tree!Rows', branch'[j].parent # Root
        PROVE  /\ branch'[j].parent \in Tree!Rows'
               /\ branch'[j].level = branch'[branch'[j].parent].level + 1
    <3>1. CASE j = k
      <4>1. branch'[j].parent = c.parent /\ c.parent \in Tree!Rows /\ c.parent # k
        BY <1>5, <1>6, <1>8, <2>1, <3>1
      <4>2. branch'[j].level = branch[c.parent].level + 1
        BY <1>6, <1>8, <2>1, <3>1, <4>1 DEF Tree!Level
      <4>. QED BY <1>8, <1>10, <4>1, <4>2
    <3>2. CASE j # k
      <4>1. j \in Tree!Rows /\ branch'[j] = branch[j] BY <1>8, <1>10, <3>2
      <4>2. branch[j].parent \in Tree!Rows /\ branch[j].level = branch[branch[j].parent].level + 1
        BY <2>1, <4>1 DEF TreeInductive, LevelsKept
      <4>. QED BY <1>8, <1>10, <4>1, <4>2
    <3>. QED BY <3>1, <3>2
  <2>. QED BY <1>9, <1>10, <2>1 DEF TreeInductive, LevelsKept, Creating
<1>15. DeletedKept'
  <2>1. \A j : Tree!ActiveIn(j)' = Tree!ActiveIn(j) BY <1>1 DEF Tree!ActiveIn
  <2>. QED BY <1>1, <1>6, <1>8, <1>9, <1>10, <2>1 DEF TreeInductive, DeletedKept
<1>. QED BY <1>11, <1>12, <1>13, <1>14, <1>15 DEF TreeInductive

\* A row is renamed or deactivated, or rows get other places.
LEMMA RowsTouched ==
    ASSUME TreeInductive, NEW w \in Hands, treeCall' = treeCall \/ Tree!Set(w, Tree!Idle),
           branch' \in [Cards -> CategoryRows],
           \A k \in Cards : /\ branch'[k].exists = branch[k].exists
                            /\ branch'[k].parent = branch[k].parent
                            /\ branch'[k].level = branch[k].level,
           \A k \in Tree!Rows : branch'[k].slug[1] = branch'[k].name,
           \A k \in Tree!Rows : \/ branch'[k].isActive \/ branch'[k].isActive = branch[k].isActive
                                \/ k \in strayed \/ Tree!ActiveIn(k) = {},
           \E n \in Nat : \A k \in Cards : branch'[k].displayOrder <= n,
           \/ \A k \in Cards : branch'[k].displayOrder = branch[k].displayOrder
           \/ ~misplaced' => /\ Tree!PlacesOwn(branch')
                             /\ \A v \in Hands : treeCall[v].op \notin {"create", "insert"},
           ~misplaced' => ~misplaced,
           UNCHANGED <<leaf, strayed>>
    PROVE  TreeInductive'
<1>1. /\ treeCall' \in [Hands -> TreeCalls]
      /\ \A v \in Hands : treeCall'[v] = treeCall[v] \/ treeCall'[v].op = "idle"
  BY DEF TreeInductive, TreeTypes, TreeCalls, Tree!Set, Tree!Idle
<1>2. /\ Tree!Rows' = Tree!Rows /\ Tree!Rows \subseteq Cards
      /\ \A p : Tree!Siblings(p)' = Tree!Siblings(p)
      /\ \A k : Tree!ActiveIn(k)' = Tree!ActiveIn(k)
  BY DEF Tree!Rows, Tree!Siblings, Tree!ActiveIn
<1>3. TreeTypes' BY <1>1 DEF TreeInductive, TreeTypes
<1>4. PlacesKept'
  <2>1. CASE \A k \in Cards : branch'[k].displayOrder = branch[k].displayOrder
    <3>1. ~misplaced' => Tree!PlacesOwn(branch')
      BY <2>1 DEF TreeInductive, PlacesKept, Tree!PlacesOwn
    <3>2. ASSUME ~misplaced', NEW v \in Hands, treeCall'[v].op \in {"create", "insert"},
                 NEW k \in Tree!Siblings(treeCall'[v].parent)
          PROVE  branch'[k].displayOrder < treeCall'[v].order
      <4>1. treeCall'[v] = treeCall[v] /\ k \in Cards
        BY <1>1, <1>2, <3>2 DEF Tree!Siblings
      <4>2. branch[k].displayOrder < treeCall[v].order
        BY <3>2, <4>1 DEF TreeInductive, PlacesKept, Creating
      <4>. QED BY <2>1, <4>1, <4>2
    <3>. QED BY <1>2, <3>1, <3>2 DEF PlacesKept, Creating, Tree!PlacesOwn
  <2>2. CASE ~misplaced' => /\ Tree!PlacesOwn(branch')
                            /\ \A v \in Hands : treeCall[v].op \notin {"create", "insert"}
    <3>1. ~misplaced' => \A v \in Hands : treeCall'[v].op \notin {"create", "insert"}
      BY <1>1, <2>2
    <3>. QED BY <2>2, <3>1 DEF PlacesKept, Creating, Tree!PlacesOwn
  <2>. QED BY <2>1, <2>2
<1>5. SlugsKept' BY <1>1, <1>2 DEF TreeInductive, SlugsKept
<1>6. LevelsKept' BY <1>1, <1>2 DEF TreeInductive, LevelsKept, Creating
<1>7. DeletedKept'
  <2>1. ASSUME NEW k \in Tree!Rows, ~branch'[k].isActive, k \notin strayed
        PROVE  Tree!ActiveIn(k) = {}
    BY <2>1 DEF TreeInductive, DeletedKept
  <2>. QED BY <1>1, <1>2, <2>1 DEF TreeInductive, DeletedKept
<1>. QED BY <1>3, <1>4, <1>5, <1>6, <1>7 DEF TreeInductive

LEMMA RowStep ==
    ASSUME TreeInductive, NEW w \in Hands,
           \/ Tree!InsertCategory(w) \/ Tree!WriteCategory(w) \/ Tree!DeactivateCategory(w)
           \/ \E k \in Cards : Tree!deleteCategory(w, k)
           \/ \E ks \in SUBSET Tree!Rows \ {{}} :
                  \E places \in [ks -> Tree!Places] : Tree!reorder(w, places)
    PROVE  TreeInductive'
<1> DEFINE c == treeCall[w]
<1>t. TreeTypes /\ c \in TreeCalls BY DEF TreeInductive, TreeTypes
<1>s. \A k \in Tree!Rows : branch[k].slug[1] = branch[k].name
  BY DEF TreeInductive, SlugsKept
<1>n. \E n \in Nat : \A k \in Cards : branch[k].displayOrder <= n
  BY DEF TreeInductive, PlacesKept
<1>1. ASSUME Tree!InsertCategory(w) PROVE TreeInductive'
  <2>1. CASE Tree!Clash(Root, c)
    <3>1. Tree!Set(w, Tree!Idle) /\ UNCHANGED <<branch, leaf, misplaced, strayed>>
      BY <1>1, <2>1 DEF Tree!InsertCategory
    <3>. QED BY <3>1, TreeCallEnds
  <2>2. CASE ~Tree!Clash(Root, c) BY <1>1, <2>2, InsertStep
  <2>. QED BY <2>1, <2>2
<1>2. ASSUME Tree!WriteCategory(w) PROVE TreeInductive'
  <2>1. c.op = "write" /\ Tree!Set(w, Tree!Idle) /\ UNCHANGED <<leaf, misplaced, strayed>>
    BY <1>2 DEF Tree!WriteCategory
  <2>2. CASE Tree!Clash(c.of, c)
    <3>1. branch' = branch BY <1>2, <2>2 DEF Tree!WriteCategory
    <3>. QED BY <2>1, <3>1, TreeCallEnds
  <2>3. CASE ~Tree!Clash(c.of, c)
    <3> DEFINE row == [branch[c.of] EXCEPT !.name = c.name, !.slug = c.slug]
    <3>1. c \in Renamings /\ c.of \in Cards
      BY <1>t, <2>1, TreeCallFields DEF Renamings
    <3>2. branch' = [branch EXCEPT ![c.of] = row]
      BY <1>2, <1>t, <2>3, <3>1 DEF Tree!WriteCategory, TreeTypes
    <3>3. /\ row \in CategoryRows /\ row.exists = branch[c.of].exists
          /\ row.parent = branch[c.of].parent /\ row.level = branch[c.of].level
          /\ row.displayOrder = branch[c.of].displayOrder /\ row.isActive = branch[c.of].isActive
          /\ row.name = c.name /\ row.slug = c.slug
      <4>1. branch[c.of] \in CategoryRows BY <1>t, <3>1 DEF TreeTypes
      <4>. QED BY <3>1, <4>1 DEF CategoryRows, Renamings
    <3>4. c.slug[1] = c.name BY <2>1 DEF TreeInductive, SlugsKept
    <3>. HIDE DEF row
    <3>5. branch'[c.of] = row /\ \A k \in Cards \ {c.of} : branch'[k] = branch[k]
      BY <1>t, <3>1, <3>2 DEF TreeTypes
    <3>6. branch' \in [Cards -> CategoryRows] BY <1>t, <3>2, <3>3 DEF TreeTypes
    <3>7. \A k \in Cards : /\ branch'[k].exists = branch[k].exists
                           /\ branch'[k].parent = branch[k].parent
                           /\ branch'[k].level = branch[k].level
                           /\ branch'[k].displayOrder = branch[k].displayOrder
                           /\ branch'[k].isActive = branch[k].isActive
      BY <3>3, <3>5
    <3>8. \A k \in Tree!Rows : k \in Cards /\ branch'[k].slug[1] = branch'[k].name
      BY <1>s, <3>3, <3>4, <3>5 DEF Tree!Rows
    <3>9. \E n \in Nat : \A k \in Cards : branch'[k].displayOrder <= n
      BY <1>n, <3>7
    <3>. QED BY <2>1, <3>6, <3>7, <3>8, <3>9, RowsTouched
  <2>. QED BY <2>2, <2>3
<1>3. ASSUME Tree!DeactivateCategory(w) PROVE TreeInductive'
  <2> DEFINE row == [branch[c.of] EXCEPT !.isActive = FALSE]
  <2>1. /\ c.op = "delete" /\ Tree!Set(w, Tree!Idle) /\ UNCHANGED <<leaf, misplaced, strayed>>
        /\ branch' = [branch EXCEPT ![c.of] = row]
    BY <1>3 DEF Tree!DeactivateCategory
  <2>2. c.of \in Cards BY <1>t, <2>1, TreeCallFields DEF Deletions
  <2>3. /\ row \in CategoryRows /\ row.exists = branch[c.of].exists
        /\ row.parent = branch[c.of].parent /\ row.level = branch[c.of].level
        /\ row.displayOrder = branch[c.of].displayOrder
        /\ row.name = branch[c.of].name /\ row.slug = branch[c.of].slug
    <3>1. branch[c.of] \in CategoryRows BY <1>t, <2>2 DEF TreeTypes
    <3>. QED BY <3>1 DEF CategoryRows
  <2>4. c.of \in strayed \/ Tree!ActiveIn(c.of) = {}
    BY <2>1 DEF TreeInductive, DeletedKept
  <2>. HIDE DEF row
  <2>5. branch'[c.of] = row /\ \A k \in Cards \ {c.of} : branch'[k] = branch[k]
    BY <1>t, <2>1, <2>2 DEF TreeTypes
  <2>6. branch' \in [Cards -> CategoryRows] BY <1>t, <2>1, <2>3 DEF TreeTypes
  <2>7. \A k \in Cards : /\ branch'[k].exists = branch[k].exists
                         /\ branch'[k].parent = branch[k].parent
                         /\ branch'[k].level = branch[k].level
                         /\ branch'[k].displayOrder = branch[k].displayOrder
                         /\ branch'[k].name = branch[k].name /\ branch'[k].slug = branch[k].slug
    BY <2>3, <2>5
  <2>8. \A k \in Tree!Rows :
            /\ branch'[k].slug[1] = branch'[k].name
            /\ \/ branch'[k].isActive = branch[k].isActive
               \/ k \in strayed \/ Tree!ActiveIn(k) = {}
    BY <1>s, <2>4, <2>5, <2>7 DEF Tree!Rows
  <2>9. \E n \in Nat : \A k \in Cards : branch'[k].displayOrder <= n
    BY <1>n, <2>7
  <2>. QED BY <2>1, <2>6, <2>7, <2>8, <2>9, RowsTouched
<1>4. ASSUME NEW k \in Cards, Tree!deleteCategory(w, k) PROVE TreeInductive'
  <2> DEFINE d == [op |-> "delete", of |-> k]
  <2>1. /\ k \in Tree!Rows /\ Tree!ActiveIn(k) = {} /\ treeCall' = [treeCall EXCEPT ![w] = d]
        /\ UNCHANGED <<branch, leaf, misplaced, strayed>>
    BY <1>4 DEF Tree!deleteCategory, Tree!Set
  <2>2. d \in TreeCalls /\ d.op = "delete" /\ d.of = k
    BY DEF TreeCalls, Deletions
  <2>. HIDE DEF d
  <2>. QED BY <2>1, <2>2, TreeCallMoves
<1>5. ASSUME NEW ks \in SUBSET Tree!Rows \ {{}}, NEW places \in [ks -> Tree!Places],
             Tree!reorder(w, places)
      PROVE  TreeInductive'
  <2>1. /\ branch' = [k \in Cards |->
               IF k \in ks THEN [branch[k] EXCEPT !.displayOrder = places[k]] ELSE branch[k]]
        /\ UNCHANGED <<leaf, treeCall, strayed>>
    BY <1>5 DEF Tree!reorder
  <2>2. ~misplaced' => /\ ~misplaced /\ Tree!PlacesOwn(branch')
                       /\ \A v \in Hands : treeCall[v].op \notin {"create", "insert"}
    <3>1. misplaced' = (misplaced \/ ~Tree!PlacesOwn(branch') \/
              \E v \in Hands : treeCall[v].op \in {"create", "insert"})
      BY <1>5 DEF Tree!reorder
    <3>. QED BY <3>1, Zenon
  <2>3. PICK n \in Nat : \A k \in Cards : branch[k].displayOrder <= n BY <1>n
  <2>4. Cardinality(Cards) \in Nat
    BY BackOfficeAssumption, FS_CardinalityType DEF Tree!CatalogueAssumption, Tree!IsFiniteSet,
                                                   IsFiniteSet
  <2>5. Tree!Places = 1 .. Cardinality(Cards)
    BY DEF Tree!Places, Tree!Cardinality, Cardinality
  <2>6. ASSUME NEW k \in Cards
        PROVE  /\ branch'[k] \in CategoryRows
               /\ branch'[k].exists = branch[k].exists /\ branch'[k].parent = branch[k].parent
               /\ branch'[k].level = branch[k].level /\ branch'[k].name = branch[k].name
               /\ branch'[k].slug = branch[k].slug /\ branch'[k].isActive = branch[k].isActive
               /\ branch'[k].displayOrder <= n + Cardinality(Cards)
    <3>1. branch[k] \in CategoryRows /\ branch[k].displayOrder \in Nat
      BY <1>t DEF TreeTypes, CategoryRows
    <3>2. CASE k \notin ks
      <4>1. branch'[k] = branch[k] BY <2>1, <3>2
      <4>. QED BY <2>3, <2>4, <3>1, <4>1
    <3>3. CASE k \in ks
      <4>1. branch'[k] = [branch[k] EXCEPT !.displayOrder = places[k]]
        BY <2>1, <3>3
      <4>2. places[k] \in Nat /\ places[k] <= n + Cardinality(Cards)
        BY <2>3, <2>4, <2>5, <3>3
      <4>. QED BY <3>1, <4>1, <4>2 DEF CategoryRows
    <3>. QED BY <3>2, <3>3
  <2>7. branch' \in [Cards -> CategoryRows] BY <2>1, <2>6
  <2>8. n + Cardinality(Cards) \in Nat BY <2>4
  <2>9. \A k \in Tree!Rows : k \in Cards /\ branch'[k].slug[1] = branch'[k].name
    BY <1>s, <2>6 DEF Tree!Rows
  <2>10. \E m \in Nat : \A k \in Cards : branch'[k].displayOrder <= m
    BY <2>6, <2>8
  <2>. QED BY <2>1, <2>2, <2>6, <2>7, <2>9, <2>10, RowsTouched
<1>. QED BY <1>1, <1>2, <1>3, <1>4, <1>5

\* Products come and go, and nobody loses a category for it.  A category gets an
\* active product that was not counted only when it is marked for that.
LEMMA ProductsTouched ==
    ASSUME TreeInductive, NEW p \in Leaves,
           NEW d \in [category : Cards \union {Root}, isActive : BOOLEAN],
           leaf' = [leaf EXCEPT ![p] = d],
           strayed \subseteq strayed',
           d.isActive => \/ d.category \in strayed'
                         \/ /\ d.category \in Tree!Rows => branch[d.category].isActive
                            /\ \A w \in Hands : treeCall[w].op = "delete" => treeCall[w].of # d.category,
           UNCHANGED <<branch, treeCall, misplaced>>
    PROVE  TreeInductive'
<1>1. leaf'[p] = d /\ \A q \in Leaves \ {p} : leaf'[q] = leaf[q]
  BY DEF TreeInductive, TreeTypes
<1>2. /\ Tree!Rows' = Tree!Rows
      /\ \A k : Tree!Siblings(k)' = Tree!Siblings(k)
  BY DEF Tree!Rows, Tree!Siblings
<1>3. TreeTypes' /\ PlacesKept' /\ SlugsKept' /\ LevelsKept'
  BY <1>2 DEF TreeInductive, TreeTypes, PlacesKept, SlugsKept, LevelsKept, Creating, Tree!PlacesOwn
<1>4. ASSUME NEW k, Tree!ActiveIn(k) = {}, k = d.category => ~d.isActive
      PROVE  Tree!ActiveIn(k)' = {}
  <2>1. \A q \in Leaves : ~(leaf'[q].isActive /\ leaf'[q].category = k)
    BY <1>1, <1>4 DEF Tree!ActiveIn
  <2>. QED BY <2>1 DEF Tree!ActiveIn
<1>5. ASSUME NEW k \in Tree!Rows, ~branch[k].isActive, k \notin strayed'
      PROVE  Tree!ActiveIn(k)' = {}
  <2>1. Tree!ActiveIn(k) = {} BY <1>5 DEF TreeInductive, DeletedKept
  <2>2. k = d.category => ~d.isActive BY <1>5
  <2>. QED BY <1>4, <2>1, <2>2
<1>6. ASSUME NEW w \in Hands, treeCall[w].op = "delete", treeCall[w].of \notin strayed'
      PROVE  Tree!ActiveIn(treeCall[w].of)' = {}
  <2> DEFINE k == treeCall[w].of
  <2>1. Tree!ActiveIn(k) = {} BY <1>6 DEF TreeInductive, DeletedKept
  <2>2. k = d.category => ~d.isActive BY <1>6
  <2>3. Tree!ActiveIn(k)' = {}
    <3>. HIDE DEF k
    <3>1. \A q \in Leaves : ~(leaf'[q].isActive /\ leaf'[q].category = k)
      BY <1>1, <2>1, <2>2 DEF Tree!ActiveIn
    <3>2. k' = k BY DEF k
    <3>. QED BY <3>1, <3>2 DEF Tree!ActiveIn
  <2>. QED BY <2>3
<1>7. DeletedKept' BY <1>2, <1>5, <1>6 DEF DeletedKept
<1>. QED BY <1>3, <1>7 DEF TreeInductive

LEMMA ProductStep ==
    ASSUME TreeInductive, NEW p \in Leaves,
           \/ \E k \in Cards : Tree!createProduct(p, k) \/ Tree!bulkUpdate(p, k)
           \/ Tree!softDelete(p)
    PROVE  TreeInductive'
<1>1. ASSUME NEW k \in Cards, Tree!PutIn(p, k) PROVE TreeInductive'
  <2> DEFINE d == [category |-> k, isActive |-> TRUE]
  <2>1. leaf' = [leaf EXCEPT ![p] = d] /\ UNCHANGED <<branch, treeCall, misplaced>>
    BY <1>1 DEF Tree!PutIn
  <2>2. strayed \subseteq strayed' /\ (Tree!Closing(k) => k \in strayed')
    BY <1>1 DEF Tree!PutIn
  <2>3. ~Tree!Closing(k) =>
            /\ branch[k].isActive
            /\ \A w \in Hands : treeCall[w].op = "delete" => treeCall[w].of # k
    BY DEF Tree!Closing
  <2>4. d \in [category : Cards \union {Root}, isActive : BOOLEAN] /\ d.category = k OBVIOUS
  <2>5. \/ d.category \in strayed'
        \/ /\ d.category \in Tree!Rows => branch[d.category].isActive
           /\ \A w \in Hands : treeCall[w].op = "delete" => treeCall[w].of # d.category
    BY <2>2, <2>3, <2>4
  <2>. HIDE DEF d
  <2>. QED BY <2>1, <2>2, <2>4, <2>5, ProductsTouched
<1>2. ASSUME Tree!softDelete(p) PROVE TreeInductive'
  <2> DEFINE d == [leaf[p] EXCEPT !.isActive = FALSE]
  <2>1. leaf' = [leaf EXCEPT ![p] = d] /\ UNCHANGED <<branch, treeCall, misplaced, strayed>>
    BY <1>2 DEF Tree!softDelete
  <2>2. d \in [category : Cards \union {Root}, isActive : BOOLEAN] /\ ~d.isActive
    BY DEF TreeInductive, TreeTypes
  <2>. HIDE DEF d
  <2>. QED BY <2>1, <2>2, ProductsTouched
<1>. QED BY <1>1, <1>2 DEF Tree!createProduct, Tree!bulkUpdate

LEMMA TreeStep == TreeInductive /\ [Tree!CatalogueNext]_treeVars => TreeInductive'
<1>. SUFFICES ASSUME TreeInductive, [Tree!CatalogueNext]_treeVars PROVE TreeInductive' OBVIOUS
<1>1. ASSUME UNCHANGED treeVars PROVE TreeInductive'
  BY <1>1 DEF treeVars, TreeInductive, TreeTypes, PlacesKept, SlugsKept, LevelsKept, DeletedKept,
              Creating, Tree!Rows, Tree!Siblings, Tree!PlacesOwn, Tree!ActiveIn
<1>2. ASSUME NEW w \in Hands,
             \/ \E name \in Names, parent \in Cards \union {Root} : Tree!createCategory(w, name, parent)
             \/ \E k \in Cards, name \in Names : Tree!updateCategory(w, k, name)
             \/ Tree!NextSlug(w) \/ Tree!SlugFound(w)
      PROVE  TreeInductive'
  BY <1>2, SlugStep
<1>3. ASSUME NEW w \in Hands,
             \/ Tree!InsertCategory(w) \/ Tree!WriteCategory(w) \/ Tree!DeactivateCategory(w)
             \/ \E k \in Cards : Tree!deleteCategory(w, k)
             \/ \E ks \in SUBSET Tree!Rows \ {{}} :
                    \E places \in [ks -> Tree!Places] : Tree!reorder(w, places)
      PROVE  TreeInductive'
  BY <1>3, RowStep
<1>4. ASSUME NEW p \in Leaves,
             \/ \E k \in Cards : Tree!createProduct(p, k) \/ Tree!bulkUpdate(p, k)
             \/ Tree!softDelete(p)
      PROVE  TreeInductive'
  BY <1>4, ProductStep
<1>. QED BY <1>1, <1>2, <1>3, <1>4 DEF Tree!CatalogueNext

-----------------------------------------------------------------------------
\* Once a change has been answered no reader is given a menu without it, and no
\* product is left without its category (menu cache and menu service); siblings
\* keep places of their own, slugs follow names, and a deleted category has no
\* active product but those added behind its back (CategoryService); each toggle
\* of a favourite that was answered turns it over (FavoriteService).
THEOREM MenuStaysSound == Spec => []MenuSound
<1> DEFINE Ind == /\ focus = "menu" => MenuInductive
                  /\ focus = "catalogue" => TreeInductive
                  /\ focus = "favourites" => FavouriteInductive
<1>1. Init => Ind BY MenuInit, TreeInit, FavouriteInit DEF Init, Tree!Init
<1>2. Ind /\ [Next]_everyVar => Ind'
  <2>. SUFFICES ASSUME Ind, [Next]_everyVar PROVE Ind' OBVIOUS
  <2>1. CASE focus = "menu" BY <2>1, MenuStepOfEach, MenuStep
  <2>2. CASE focus = "catalogue" BY <2>2, MenuStepOfEach, TreeStep
  <2>3. CASE focus = "favourites" BY <2>3, MenuStepOfEach, FavouriteStep
  <2>. QED BY <2>1, <2>2, <2>3, MenuStepOfEach
<1>3. Ind => MenuSound
  <2>1. MenuInductive => Shown!MenuSound
    BY DEF MenuInductive, RowsKept, Shown!MenuSound
  <2>2. TreeInductive => Tree!CatalogueSound
    BY DEF TreeInductive, PlacesKept, SlugsKept, LevelsKept, DeletedKept, Tree!CatalogueSound
  <2>3. FavouriteInductive => Tree!FavouriteTurned BY DEF FavouriteInductive
  <2>. QED BY <2>1, <2>2, <2>3 DEF MenuSound
<1>. QED BY <1>1, <1>2, <1>3, PTL DEF Spec

-----------------------------------------------------------------------------
(* The hours of a week.                                                    *)

WeekRows == [day : 0 .. Weekdays - 1, isClosed : BOOLEAN, is24Hours : BOOLEAN, window : Seq(Nat)]

HoursTypes ==
    /\ hours \in [0 .. Weekdays - 1 -> WeekRows \union {None}]
    /\ update \in [Hands -> Seq(WeekRows)]
    /\ settled \in [whole : Seq(WeekRows), kept : BOOLEAN]

\* Of the first n rows of the schedule, those that no later one of them sets
\* again are in force.
Written(n) ==
    \A i \in 1 .. n :
        (\A j \in i + 1 .. n : settled.whole[j].day # settled.whole[i].day) =>
            hours[settled.whole[i].day] = settled.whole[i]

\* The rest of the schedule is what request m has yet to write.
Remains(m) ==
    /\ Len(update[m]) <= Len(settled.whole)
    /\ \A k \in 1 .. Len(update[m]) :
           update[m][k] = settled.whole[Len(settled.whole) - Len(update[m]) + k]

ScheduleKept ==
    settled.kept =>
        \/ Opening!Underway = {} /\ Written(Len(settled.whole))
        \/ \E m \in Hands : /\ Opening!Underway = {m} /\ Remains(m)
                            /\ Written(Len(settled.whole) - Len(update[m]))

HoursInductive == HoursTypes /\ ScheduleKept

LEMMA HoursInit == Opening!OpeningInit => HoursInductive
<1> SUFFICES ASSUME Opening!OpeningInit PROVE HoursInductive
  OBVIOUS
<1> USE DEF Opening!OpeningInit, Opening!HoursInit
<1>1. <<>> \in Seq(WeekRows) OBVIOUS
<1>2. HoursTypes BY <1>1 DEF HoursTypes
<1>3. ~settled.kept OBVIOUS
<1>. QED BY <1>2, <1>3 DEF HoursInductive, ScheduleKept

LEMMA HoursStep == HoursInductive /\ [Opening!HoursNext]_openingVars => HoursInductive'
<1> SUFFICES ASSUME HoursInductive, [Opening!HoursNext]_openingVars PROVE HoursInductive'
  OBVIOUS
<1> USE DEF HoursInductive
<1>1. ASSUME UNCHANGED openingVars PROVE HoursInductive'
  <2>1. hours' = hours /\ update' = update /\ settled' = settled
    BY <1>1 DEF openingVars, Opening!hoursVars
  <2>2. HoursTypes' BY <2>1 DEF HoursTypes
  <2>3. Opening!Underway' = Opening!Underway /\ \A m \in Hands : Remains(m) => Remains(m)'
    BY <2>1 DEF Opening!Underway, Remains
  <2>4. ScheduleKept'
    <3>. SUFFICES ASSUME settled.kept PROVE ScheduleKept'
      BY <2>1 DEF ScheduleKept
    <3>1. CASE Opening!Underway = {} /\ Written(Len(settled.whole))
      BY <2>1, <3>1 DEF ScheduleKept, Written, Opening!Underway
    <3>2. ASSUME NEW m \in Hands, Opening!Underway = {m}, Remains(m),
                 Written(Len(settled.whole) - Len(update[m]))
          PROVE  ScheduleKept'
      <4>1. Written(Len(settled.whole) - Len(update[m]))'
        BY <2>1, <3>2 DEF Written
      <4>. QED BY <2>3, <3>2, <4>1 DEF ScheduleKept
    <3>. QED BY <3>1, <3>2 DEF ScheduleKept
  <2>. QED BY <2>2, <2>4
<1>2. ASSUME NEW m \in Hands, NEW s \in Schedules, Opening!setBulkHours(m, s) PROVE HoursInductive'
  <2>1. /\ update[m] = <<>> /\ update' = [update EXCEPT ![m] = s]
        /\ settled' = [whole |-> s, kept |-> Opening!Underway = {}]
        /\ hours' = hours
    BY <1>2 DEF Opening!setBulkHours
  <2>2. s \in Seq(WeekRows)
    BY BackOfficeAssumption DEF Opening!HoursAssumption, WeekRows
  <2>3. HoursTypes' BY <2>1, <2>2 DEF HoursTypes
  <2>4. update'[m] = s /\ \A x \in Hands \ {m} : update'[x] = update[x]
    BY <2>1 DEF HoursTypes
  <2>5. settled'.whole = s /\ Len(s) \in Nat BY <2>1, <2>2
  <2>6. Written(0)' /\ Remains(m)' BY <2>4, <2>5 DEF Written, Remains
  <2>7. ASSUME settled'.kept
        PROVE  \/ Opening!Underway' = {} /\ Len(s) = 0
               \/ Opening!Underway' = {m}
    <3>1. \A x \in Hands : update[x] = <<>> BY <2>1, <2>7 DEF Opening!Underway
    <3>2. \A x \in Hands : update'[x] # <<>> <=> x = m /\ s # <<>> BY <2>4, <3>1
    <3>3. s = <<>> => Len(s) = 0 OBVIOUS
    <3>. QED BY <3>2, <3>3 DEF Opening!Underway
  <2>8. ScheduleKept'
    <3>1. Len(settled'.whole) = Len(s) /\ Len(update'[m]) = Len(s) BY <2>4, <2>5
    <3>2. Len(settled'.whole) - Len(update'[m]) = 0 BY <2>5, <3>1
    <3>. QED BY <2>6, <2>7, <3>1, <3>2 DEF ScheduleKept
  <2>. QED BY <2>3, <2>8
<1>3. ASSUME NEW m \in Hands, Opening!NextDay(m) PROVE HoursInductive'
  <2> DEFINE row == Head(update[m])
  <2>1. /\ update[m] # <<>> /\ hours' = [hours EXCEPT ![row.day] = row]
        /\ update' = [update EXCEPT ![m] = Tail(update[m])] /\ settled' = settled
    BY <1>3 DEF Opening!NextDay, Opening!setHours
  <2>2. update[m] \in Seq(WeekRows) /\ settled.whole \in Seq(WeekRows)
    BY DEF HoursTypes
  <2>3. /\ row \in WeekRows /\ row.day \in 0 .. Weekdays - 1
        /\ Tail(update[m]) \in Seq(WeekRows)
        /\ Len(update[m]) \in Nat \ {0} /\ Len(Tail(update[m])) = Len(update[m]) - 1
        /\ row = update[m][1]
        /\ \A k \in 1 .. Len(update[m]) - 1 : Tail(update[m])[k] = update[m][k + 1]
    <3>1. Len(update[m]) \in Nat \ {0} BY <2>1, <2>2
    <3>2. row = update[m][1] /\ row \in WeekRows BY <2>2, <3>1
    <3>3. /\ Tail(update[m]) \in Seq(WeekRows) /\ Len(Tail(update[m])) = Len(update[m]) - 1
          /\ \A k \in 1 .. Len(update[m]) - 1 : Tail(update[m])[k] = update[m][k + 1]
      BY <2>1, <2>2, <3>1
    <3>4. row.day \in 0 .. Weekdays - 1 BY <3>2 DEF WeekRows
    <3>. QED BY <3>1, <3>2, <3>3, <3>4
  <2>. HIDE DEF row
  <2>4. HoursTypes' BY <2>1, <2>3 DEF HoursTypes
  <2>5. update'[m] = Tail(update[m]) /\ \A x \in Hands \ {m} : update'[x] = update[x]
    BY <2>1 DEF HoursTypes
  <2>6. ScheduleKept'
    <3>. SUFFICES ASSUME settled.kept PROVE ScheduleKept'
      BY <2>1 DEF ScheduleKept
    <3>1. m \in Opening!Underway BY <2>1 DEF Opening!Underway
    <3>2. Opening!Underway = {m} /\ Remains(m) /\ Written(Len(settled.whole) - Len(update[m]))
      BY <3>1 DEF ScheduleKept
    <3>3. Opening!Underway' \subseteq {m} BY <2>5, <3>2 DEF Opening!Underway
    <3>40. PICK u \in Nat \ {0}, w \in Nat : u = Len(update[m]) /\ w = Len(settled.whole)
      BY <2>2, <2>3
    <3>41. u <= w /\ \A k \in 1 .. u : update[m][k] = settled.whole[w - u + k]
      BY <3>2, <3>40 DEF Remains
    <3>42. u <= w /\ w - u \in Nat /\ u \in Nat \ {0} /\ w \in Nat
      BY <3>40, <3>41
    <3>4. PICK n \in Nat : n = w - u BY <3>42
    <3>5. n + 1 <= w /\ settled.whole[n + 1] = row
      <4>1. 1 \in 1 .. u /\ w - u + 1 = n + 1 /\ n + 1 <= w BY <3>40, <3>41, <3>4
      <4>. QED BY <2>3, <3>41, <4>1
    <3>50. Written(n) BY <3>2, <3>4, <3>40
    <3>6. Written(n + 1)'
      <4>. SUFFICES ASSUME NEW i \in 1 .. n + 1,
                           \A j \in i + 1 .. n + 1 : settled.whole[j].day # settled.whole[i].day
                    PROVE  hours'[settled.whole[i].day] = settled.whole[i]
        BY <2>1 DEF Written
      <4>1. \A j \in 1 .. n + 1 : settled.whole[j].day \in 0 .. Weekdays - 1
        <5>1. \A j \in 1 .. n + 1 : settled.whole[j] \in WeekRows
          BY <2>2, <3>4, <3>40, <3>5
        <5>. QED BY <5>1 DEF WeekRows
      <4>2. CASE i = n + 1 BY <2>1, <2>3, <3>5, <4>2 DEF HoursTypes
      <4>3. CASE i # n + 1
        <5>1. i \in 1 .. n /\ settled.whole[i].day # row.day
          <6>1. i \in 1 .. n /\ n + 1 \in i + 1 .. n + 1 BY <3>4, <4>3
          <6>. QED BY <3>5, <6>1
        <5>2. hours[settled.whole[i].day] = settled.whole[i]
          <6>1. \A j \in i + 1 .. n : j \in i + 1 .. n + 1 BY <3>4
          <6>. QED BY <3>50, <5>1, <6>1 DEF Written
        <5>. QED BY <2>1, <4>1, <5>1, <5>2 DEF HoursTypes
      <4>. QED BY <4>2, <4>3
    <3>7. Remains(m)' /\ Len(settled'.whole) - Len(update'[m]) = n + 1
      <4>1. Len(update'[m]) = u - 1 /\ settled' = settled
        BY <2>1, <2>3, <2>5, <3>40
      <4>2. ASSUME NEW k \in 1 .. u - 1
            PROVE  update'[m][k] = settled.whole[w - (u - 1) + k]
        <5>1. k + 1 \in 1 .. u /\ w - u + (k + 1) = w - (u - 1) + k BY <3>42
        <5>2. k \in 1 .. Len(update[m]) - 1 BY <3>40
        <5>3. update'[m][k] = update[m][k + 1] BY <2>3, <2>5, <5>2
        <5>4. update[m][k + 1] = settled.whole[w - u + (k + 1)] BY <3>41, <5>1
        <5>. QED BY <5>1, <5>3, <5>4
      <4>3. u - 1 <= w /\ w - (u - 1) = n + 1 BY <3>40, <3>41, <3>4
      <4>. QED BY <3>40, <4>1, <4>2, <4>3 DEF Remains
    <3>8. CASE Opening!Underway' = {m} BY <3>6, <3>7, <3>8 DEF ScheduleKept
    <3>9. CASE Opening!Underway' = {}
      <4>1. update'[m] = <<>> BY <3>9 DEF Opening!Underway
      <4>3. Len(update'[m]) = 0 BY <4>1
      <4>2. Len(settled'.whole) = n + 1
        <5>1. Len(settled'.whole) \in Nat BY <2>1, <2>2
        <5>. QED BY <3>7, <4>3, <5>1
      <4>. QED BY <3>6, <3>9, <4>2 DEF ScheduleKept
    <3>. QED BY <3>3, <3>8, <3>9
  <2>. QED BY <2>4, <2>6
<1>4. ASSUME NEW m \in Hands, Opening!NextDayFails(m) PROVE HoursInductive'
  <2>1. /\ update' = [update EXCEPT ![m] = <<>>] /\ settled' = [settled EXCEPT !.kept = FALSE]
        /\ hours' = hours
    BY <1>4 DEF Opening!NextDayFails
  <2>2. HoursTypes'
    <3>1. <<>> \in Seq(WeekRows) OBVIOUS
    <3>2. update' \in [Hands -> Seq(WeekRows)] BY <2>1, <3>1 DEF HoursTypes
    <3>3. settled' \in [whole : Seq(WeekRows), kept : BOOLEAN]
      BY <2>1 DEF HoursTypes
    <3>. QED BY <2>1, <3>2, <3>3 DEF HoursTypes
  <2>3. ~settled'.kept BY <2>1 DEF HoursTypes
  <2>. QED BY <2>2, <2>3 DEF ScheduleKept
<1>. QED BY <1>1, <1>2, <1>3, <1>4 DEF Opening!HoursNext

LEMMA HoursAreSettled == HoursInductive => Opening!HoursSettled
<1> SUFFICES ASSUME HoursInductive PROVE Opening!HoursSettled
  OBVIOUS
<1>1. ASSUME settled.kept, Opening!Underway = {} PROVE Written(Len(settled.whole))
  BY <1>1 DEF HoursInductive, ScheduleKept
<1>2. ASSUME NEW date \in 0 .. LastDate, NEW t \in Times
      PROVE  LET shown == Opening!getHours[Opening!Weekday(date)]
             IN  Opening!isStoreOpen(date, t) <=>
                     ~shown.isClosed /\ (shown.is24Hours \/ Opening!Within(t, shown.window))
  <2>1. Opening!Weekday(date) \in 0 .. Weekdays - 1
    BY BackOfficeAssumption DEF Opening!HoursAssumption, Opening!Weekday
  <2>2. CASE hours[Opening!Weekday(date)] = None
    BY <2>1, <2>2 DEF Opening!getHours, Opening!isStoreOpen, Opening!RowOpen
  <2>3. CASE hours[Opening!Weekday(date)] # None
    BY <2>1, <2>3 DEF Opening!getHours, Opening!isStoreOpen, Opening!RowOpen
  <2>. QED BY <2>2, <2>3
<1>. QED BY <1>1, <1>2 DEF Opening!HoursSettled, Written

-----------------------------------------------------------------------------
(* What a customer is told.                                                *)

LEMMA FiniteInChecks == \A S : Checks!IsFiniteSet(S) <=> IsFiniteSet(S)
  BY DEF Checks!IsFiniteSet, IsFiniteSet

LEMMA SumsOfChecks == \A f : Checks!SumFunction(f) = SumFunctionOnSet(f, DOMAIN f)
  BY DEF Checks!SumFunction, Checks!SumFunctionOnSet, Checks!FoldFunctionOnSet,
         Checks!MapThenFoldSet, SumFunctionOnSet, FoldFunctionOnSet, MapThenFoldSet

\* The sum over the positions of a choice is the one over the options named,
\* unless one with a cost is named twice.
LEMMA NamedTwice ==
    ASSUME NEW T, IsFiniteSet(T), NEW I, IsFiniteSet(I),
           NEW names, \A i \in I : names[i] \in T, \A o \in T : \E i \in I : names[i] = o,
           NEW cost, \A o \in T : cost[o] \in Nat,
           NEW f, \A i \in I : f[i] = cost[names[i]]
    PROVE  LET told == SumFunctionOnSet(cost, T)
               paid == SumFunctionOnSet(f, I)
               twice == \E i, j \in I : i # j /\ names[i] = names[j] /\ cost[names[i]] > 0
           IN  told \in Nat /\ paid \in Nat /\ IF twice THEN paid > told ELSE paid = told
<1> DEFINE At(o) == {i \in I : names[i] = o}
           g == [o \in T |-> SumFunctionOnSet(f, At(o))]
           twice == \E i, j \in I : i # j /\ names[i] = names[j] /\ cost[names[i]] > 0
<1>1. \A i \in I : f[i] \in Nat OBVIOUS
<1>2. \A o \in T : IsFiniteSet(At(o)) /\ At(o) \subseteq I BY FS_Subset
<1>3. ASSUME NEW o \in T PROVE g[o] \in Nat /\ cost[o] <= g[o]
  <2>1. PICK i \in At(o) : TRUE OBVIOUS
  <2>2. f[i] = cost[o] /\ \A x \in At(o) : f[x] \in Nat OBVIOUS
  <2> HIDE DEF At
  <2>3. SumFunctionOnSet(f, At(o)) \in Nat /\ f[i] <= SumFunctionOnSet(f, At(o))
    BY <1>2, <2>2, SumNat
  <2>. QED BY <2>2, <2>3
<1>4. ASSUME NEW i \in I, NEW j \in I, i # j, names[i] = names[j], cost[names[i]] > 0
      PROVE  cost[names[i]] < g[names[i]]
  <2> DEFINE o == names[i]
             A == At(o)
             R == A \ {i}
  <2>1. IsFiniteSet(A) /\ IsFiniteSet(R) /\ i \in A /\ j \in R
    BY <1>2, <1>4, FS_RemoveElement
  <2>2. /\ \A x \in A : f[x] \in Nat /\ f[x] \in Int
        /\ \A x \in R : f[x] \in Nat
        /\ f[i] = cost[o] /\ f[j] = cost[o] /\ cost[o] \in Nat /\ cost[o] > 0
    BY <1>4
  <2>3. g[o] = SumFunctionOnSet(f, A) OBVIOUS
  <2> HIDE DEF A, R, o
  <2>4. SumFunctionOnSet(f, A) = f[i] + SumFunctionOnSet(f, A \ {i})
    BY <2>1, <2>2, SumRemove
  <2>5. SumFunctionOnSet(f, R) \in Nat /\ f[j] <= SumFunctionOnSet(f, R)
    BY <2>1, <2>2, SumNat
  <2>6. g[o] = f[i] + SumFunctionOnSet(f, R) BY <2>3, <2>4 DEF R
  <2>7. cost[o] < g[o] BY <2>2, <2>5, <2>6
  <2>. QED BY <2>7 DEF o
<1>5. ASSUME NEW o \in T, ~twice PROVE g[o] = cost[o]
  <2>1. PICK i \in At(o) : TRUE OBVIOUS
  <2>2. CASE At(o) = {i}
    <3>1. f[i] = cost[o] /\ f[i] \in Int BY <2>1
    <3>2. SumFunctionOnSet(f, {i}) = f[i] BY <3>1, SumOne
    <3>. QED BY <2>2, <3>1, <3>2
  <2>3. CASE At(o) # {i}
    <3>1. PICK j \in At(o) : j # i BY <2>3
    <3>2. cost[o] = 0 BY <1>5, <3>1
    <3>3. \A x \in At(o) : f[x] = 0 BY <3>2
    <3> HIDE DEF At
    <3>4. SumFunctionOnSet(f, At(o)) = 0 BY <1>2, <3>3, SumZeros
    <3>. QED BY <3>2, <3>4
  <2>. QED BY <2>2, <2>3
<1>6. SumFunctionOnSet(f, I) = SumFunctionOnSet(g, T)
  <2>1. \A i \in I : f[i] \in Int OBVIOUS
  <2>2. SumFunctionOnSet(f, I) =
            SumFunctionOnSet([o \in T |-> SumFunctionOnSet(f, {x \in I : names[x] = o})], T)
    BY <2>1, SumGroups
  <2>. QED BY <2>2
<1>7. /\ \A o \in T : cost[o] \in Nat /\ g[o] \in Nat
      /\ \A o \in T : cost[o] \in Int /\ g[o] \in Int /\ cost[o] <= g[o]
  BY <1>3
<1>8. SumFunctionOnSet(cost, T) \in Nat /\ SumFunctionOnSet(g, T) \in Nat
  <2> HIDE DEF g
  <2>. QED BY <1>7, SumNat
<1>9. ASSUME twice PROVE SumFunctionOnSet(cost, T) < SumFunctionOnSet(g, T)
  <2>1. PICK i \in I, j \in I : i # j /\ names[i] = names[j] /\ cost[names[i]] > 0
    BY <1>9
  <2>2. names[i] \in T /\ cost[names[i]] < g[names[i]] BY <1>4, <2>1
  <2> HIDE DEF g
  <2>. QED BY <1>7, <2>2, SumLess
<1>10. ASSUME ~twice PROVE SumFunctionOnSet(cost, T) = SumFunctionOnSet(g, T)
  <2>1. \A o \in T : cost[o] \in Int /\ cost[o] = g[o] BY <1>5, <1>7, <1>10
  <2> HIDE DEF g
  <2>. QED BY <2>1, SumSame
<1> HIDE DEF g
<1>. QED BY <1>6, <1>8, <1>9, <1>10

\* The option of a group that has a name.
Named(group, name) == CHOOSE o \in Checks!OptionsOf(group) : o.name = name

\* The options of a group that a choice names, and their cost.
Taken(group, picks) == {o \in Checks!OptionsOf(group) : o.name \in Checks!ToSet(picks)}
ToldFor(group, picks) ==
    SumFunctionOnSet([o \in Taken(group, picks) |-> o.cost], Taken(group, picks))

\* The options of all groups, and what the positions of a choice cost by name.
OptionsIn(groups) ==
    UNION {Checks!OptionsOf(groups[g]) : g \in {h \in DOMAIN groups : groups[h].isActive}}
CostOf(groups, name) == (CHOOSE o \in OptionsIn(groups) : o.name = name).cost
PaidFor(groups, picks) ==
    SumFunctionOnSet([i \in DOMAIN picks |-> CostOf(groups, picks[i])], DOMAIN picks)

NamesTwice(group, picks) ==
    \E i, j \in DOMAIN picks :
        /\ i # j /\ picks[i] = picks[j]
        /\ \E o \in Checks!OptionsOf(group) : o.name = picks[i] /\ o.cost > 0

\* Of one group.
LEMMA GroupAgrees ==
    ASSUME NEW groups \in OptionGroups, NEW g \in DOMAIN groups, NEW chosen \in Choices,
           \A h \in DOMAIN groups : groups[h].isActive,
           \A i \in DOMAIN chosen[g] : \E o \in Checks!OptionsOf(groups[g]) : o.name = chosen[g][i]
    PROVE  LET told == ToldFor(groups[g], chosen[g])
               paid == PaidFor(groups, chosen[g])
           IN  told \in Nat /\ paid \in Nat
               /\ IF NamesTwice(groups[g], chosen[g]) THEN paid > told ELSE paid = told
<1> DEFINE picks == chosen[g]
           T == Taken(groups[g], picks)
           I == DOMAIN picks
           names == [i \in I |-> Named(groups[g], picks[i])]
           cost == [o \in T |-> o.cost]
<1>1. /\ IsFiniteSet(I) /\ IsFiniteSet(groups[g].options)
      /\ \A o \in groups[g].options : o.cost \in Nat
      /\ \A h \in DOMAIN groups : \A o \in groups[g].options, q \in groups[h].options :
             o.name = q.name => o = q
  BY BackOfficeAssumption, FiniteInChecks DEF Checks!ChecksAssumption
<1>2. T \subseteq groups[g].options /\ IsFiniteSet(T)
  BY <1>1, FS_Subset DEF Taken, Checks!OptionsOf
<1>3. \A o \in T : cost[o] \in Nat BY <1>1, <1>2
<1>4. \A i \in I : names[i] \in Checks!OptionsOf(groups[g]) /\ names[i].name = picks[i]
  BY DEF Named
<1>5. \A i \in I : names[i] \in T BY <1>4 DEF Taken, Checks!ToSet
<1>6. \A o \in T : \E i \in I : names[i] = o
  <2> SUFFICES ASSUME NEW o \in T PROVE \E i \in I : names[i] = o
    OBVIOUS
  <2>1. PICK i \in I : picks[i] = o.name BY DEF Taken, Checks!ToSet
  <2>2. names[i] \in groups[g].options /\ names[i].name = o.name /\ o \in groups[g].options
    BY <1>2, <1>4, <2>1 DEF Checks!OptionsOf
  <2>. QED BY <1>1, <2>2
<1>7. \A i \in I : CostOf(groups, picks[i]) = cost[names[i]]
  <2> SUFFICES ASSUME NEW i \in I PROVE CostOf(groups, picks[i]) = cost[names[i]]
    OBVIOUS
  <2>1. names[i] \in OptionsIn(groups) /\ names[i].name = picks[i] /\ names[i] \in groups[g].options
    BY <1>4 DEF OptionsIn, Checks!OptionsOf
  <2> DEFINE q == CHOOSE o \in OptionsIn(groups) : o.name = picks[i]
  <2>2. q \in OptionsIn(groups) /\ q.name = picks[i] BY <2>1
  <2>3. PICK h \in DOMAIN groups : q \in groups[h].options
    BY <2>2 DEF OptionsIn, Checks!OptionsOf
  <2>4. names[i] = q BY <1>1, <2>1, <2>2, <2>3
  <2>5. CostOf(groups, picks[i]) = q.cost BY DEF CostOf
  <2>6. cost[names[i]] = names[i].cost BY <1>5
  <2>. QED BY <2>4, <2>5, <2>6
<1>8. NamesTwice(groups[g], picks) <=>
          \E i, j \in I : i # j /\ names[i] = names[j] /\ cost[names[i]] > 0
  <2>0. ASSUME NEW i \in I, NEW j \in I, picks[i] = picks[j] PROVE names[i] = names[j]
    BY <2>0
  <2> HIDE DEF names
  <2>1. \A i, j \in I : picks[i] = picks[j] <=> names[i] = names[j] BY <1>4, <2>0
  <2>2. \A i \in I : (\E o \in Checks!OptionsOf(groups[g]) : o.name = picks[i] /\ o.cost > 0)
                        <=> cost[names[i]] > 0
    <3> SUFFICES ASSUME NEW i \in I
                 PROVE  (\E o \in Checks!OptionsOf(groups[g]) : o.name = picks[i] /\ o.cost > 0)
                        <=> cost[names[i]] > 0
      OBVIOUS
    <3>1. \A o \in Checks!OptionsOf(groups[g]) : o.name = picks[i] => o = names[i]
      <4>1. names[i] \in groups[g].options BY <1>4 DEF Checks!OptionsOf
      <4>2. \A o \in Checks!OptionsOf(groups[g]) : o \in groups[g].options
        BY DEF Checks!OptionsOf
      <4>. QED BY <1>1, <1>4, <4>1, <4>2
    <3>2. cost[names[i]] = names[i].cost BY <1>5
    <3>. QED BY <1>4, <3>1, <3>2
  <2>3. ASSUME NamesTwice(groups[g], picks)
        PROVE  \E i, j \in I : i # j /\ names[i] = names[j] /\ cost[names[i]] > 0
    <3>1. PICK i \in I, j \in I :
              /\ i # j /\ picks[i] = picks[j]
              /\ \E o \in Checks!OptionsOf(groups[g]) : o.name = picks[i] /\ o.cost > 0
      BY <2>3 DEF NamesTwice
    <3>2. names[i] = names[j] /\ cost[names[i]] > 0 BY <2>1, <2>2, <3>1
    <3>. QED BY <3>1, <3>2
  <2>4. ASSUME NEW i \in I, NEW j \in I, i # j, names[i] = names[j], cost[names[i]] > 0
        PROVE  NamesTwice(groups[g], picks)
    <3>1. /\ picks[i] = picks[j]
          /\ \E o \in Checks!OptionsOf(groups[g]) : o.name = picks[i] /\ o.cost > 0
      BY <2>1, <2>2, <2>4
    <3>. QED BY <2>4, <3>1 DEF NamesTwice
  <2>. QED BY <2>3, <2>4
<1> DEFINE f == [i \in I |-> CostOf(groups, picks[i])]
<1>9. PaidFor(groups, picks) = SumFunctionOnSet(f, I) /\ \A i \in I : f[i] = cost[names[i]]
  BY <1>7 DEF PaidFor
<1>10. ToldFor(groups[g], picks) = SumFunctionOnSet(cost, T) BY DEF ToldFor
<1> HIDE DEF f, T, I, names, cost, picks
<1>11. LET told == SumFunctionOnSet(cost, T)
           paid == SumFunctionOnSet(f, I)
           twice == \E i, j \in I : i # j /\ names[i] = names[j] /\ cost[names[i]] > 0
       IN  told \in Nat /\ paid \in Nat /\ IF twice THEN paid > told ELSE paid = told
  BY <1>1, <1>2, <1>3, <1>5, <1>6, <1>9, NamedTwice
<1>12. ToldFor(groups[g], picks) \in Nat /\ PaidFor(groups, picks) \in Nat
  BY <1>9, <1>10, <1>11
<1>13. IF NamesTwice(groups[g], picks) THEN PaidFor(groups, picks) > ToldFor(groups[g], picks)
       ELSE PaidFor(groups, picks) = ToldFor(groups[g], picks)
  BY <1>8, <1>9, <1>10, <1>11
<1>. QED BY <1>12, <1>13 DEF picks

LEMMA OptionsAreAgreed ==
    asked \in [groups : OptionGroups, chosen : Choices] => Checks!OptionsAgree
<1> SUFFICES ASSUME NEW groups \in OptionGroups, NEW chosen \in Choices,
                    groups = asked.groups, chosen = asked.chosen,
                    Checks!validateOptions(groups, chosen).valid,
                    \A g \in DOMAIN groups : groups[g].isActive
             PROVE  LET told == Checks!validateOptions(groups, chosen)
                        paid == Checks!resolveOptions(groups, chosen)
                    IN  /\ paid.valid
                        /\ IF \E g \in DOMAIN groups : NamesTwice(groups[g], chosen[g])
                           THEN paid.cost > told.cost ELSE paid.cost = told.cost
  BY DEF Checks!OptionsAgree, NamesTwice
<1> DEFINE G == DOMAIN groups
           told == [g \in G |-> ToldFor(groups[g], chosen[g])]
           paid == [g \in G |-> PaidFor(groups, chosen[g])]
<1>1. \A g \in G : ~Checks!GroupErrors(groups[g], chosen[g])
  BY DEF Checks!validateOptions
<1>2. \A g \in G : \A i \in DOMAIN chosen[g] :
          \E o \in Checks!OptionsOf(groups[g]) : o.name = chosen[g][i]
  <2> SUFFICES ASSUME NEW g \in G, NEW i \in DOMAIN chosen[g]
               PROVE  \E o \in Checks!OptionsOf(groups[g]) : o.name = chosen[g][i]
    OBVIOUS
  <2>1. Checks!ToSet(chosen[g]) \subseteq {o.name : o \in Checks!OptionsOf(groups[g])}
    BY <1>1 DEF Checks!GroupErrors
  <2>2. chosen[g][i] \in Checks!ToSet(chosen[g]) BY DEF Checks!ToSet
  <2>. QED BY <2>1, <2>2
<1>3. Checks!validateOptions(groups, chosen).cost = SumFunctionOnSet(told, G)
  <2>1. Checks!validateOptions(groups, chosen).cost =
            Checks!SumFunction([g \in G |->
                Checks!SumFunction([o \in Taken(groups[g], chosen[g]) |-> o.cost])])
    BY <1>1 DEF Checks!validateOptions, Checks!Sum, Taken
  <2>2. \A g \in G : Checks!SumFunction([o \in Taken(groups[g], chosen[g]) |-> o.cost]) =
                        ToldFor(groups[g], chosen[g])
    BY SumsOfChecks DEF ToldFor
  <2>3. [g \in G |-> Checks!SumFunction([o \in Taken(groups[g], chosen[g]) |-> o.cost])] = told
    BY <2>2
  <2>. QED BY <2>1, <2>3, SumsOfChecks
<1>4. {h \in G : groups[h].isActive} = G OBVIOUS
<1>5. UNION {Checks!ToSet(chosen[g]) : g \in G} \subseteq {o.name : o \in OptionsIn(groups)}
  BY <1>2, <1>4 DEF OptionsIn, Checks!ToSet
<1>6. /\ Checks!resolveOptions(groups, chosen).valid
      /\ Checks!resolveOptions(groups, chosen).cost =
             Checks!SumFunction([g \in G |->
                 Checks!SumFunction([i \in DOMAIN chosen[g] |-> CostOf(groups, chosen[g][i])])])
  BY <1>5 DEF Checks!resolveOptions, Checks!Sum, OptionsIn, CostOf
<1>7. Checks!resolveOptions(groups, chosen).cost = SumFunctionOnSet(paid, G)
  <2>1. \A g \in G :
            Checks!SumFunction([i \in DOMAIN chosen[g] |-> CostOf(groups, chosen[g][i])]) =
                PaidFor(groups, chosen[g])
    BY SumsOfChecks DEF PaidFor
  <2>2. [g \in G |-> Checks!SumFunction([i \in DOMAIN chosen[g] |->
                                             CostOf(groups, chosen[g][i])])] = paid
    BY <2>1
  <2>. QED BY <1>6, <2>2, SumsOfChecks
<1>8. \A g \in G :
          /\ told[g] \in Nat /\ paid[g] \in Nat
          /\ IF NamesTwice(groups[g], chosen[g]) THEN paid[g] > told[g] ELSE paid[g] = told[g]
  BY <1>2, GroupAgrees
<1>9. IsFiniteSet(G)
  <2>1. CASE G = {} BY <2>1, FS_EmptySet
  <2>2. ASSUME NEW g \in G PROVE IsFiniteSet(G)
    BY BackOfficeAssumption, FiniteInChecks DEF Checks!ChecksAssumption
  <2>. QED BY <2>1, <2>2
<1> HIDE DEF told, paid
<1>10. \A g \in G : told[g] \in Int /\ paid[g] \in Int /\ told[g] <= paid[g]
  BY <1>8
<1>11. ASSUME NEW g \in G, NamesTwice(groups[g], chosen[g])
       PROVE  SumFunctionOnSet(told, G) < SumFunctionOnSet(paid, G)
  <2>1. told[g] < paid[g] BY <1>8, <1>11
  <2> HIDE DEF G
  <2>. QED BY <1>9, <1>10, <2>1, SumLess
<1>12. ASSUME \A g \in G : ~NamesTwice(groups[g], chosen[g])
       PROVE  SumFunctionOnSet(told, G) = SumFunctionOnSet(paid, G)
  <2>1. \A g \in G : told[g] \in Int /\ told[g] = paid[g] BY <1>8, <1>12
  <2> HIDE DEF G
  <2>. QED BY <1>9, <2>1, SumSame
<1>13. SumFunctionOnSet(told, G) \in Int /\ SumFunctionOnSet(paid, G) \in Int
  <2> HIDE DEF G
  <2>. QED BY <1>9, <1>10, SumInt
<1>. QED BY <1>3, <1>6, <1>7, <1>11, <1>12, <1>13

LEMMA ReadersAgreeAlways == Checks!ReadersAgree
<1>1. \A p \in Products : offered[p] = "offered" => offered[p] \in {"offered", "unavailable"}
  OBVIOUS
<1>. QED
  BY <1>1 DEF Checks!ReadersAgree, Checks!Menu, Checks!searchMenu, Checks!getProduct,
              Checks!Active

-----------------------------------------------------------------------------
(* The limit of a day.                                                     *)

OrderRows == [status : {"PENDING", "COMPLETED", "CANCELLED"}, basket : OrderBaskets, at : Nat]
CheckCalls ==
    [op : {"check", "create"}, basket : OrderBaskets, next : Nat, errors : BOOLEAN, since : Nat,
     lapped : BOOLEAN]
NoOrder == [status |-> "none"]

OrdersTypes ==
    /\ hour \in Nat
    /\ placed \in [Cards -> OrderRows \union {NoOrder}]
    /\ orderCall \in [Hands -> CheckCalls \union {Checks!Idle}]

\* What each order adds to the sales of a product on a day, of the orders that
\* were checked while no other was open.
Units(p, day) ==
    [o \in Cards |->
        IF o \notin checkLapped /\ placed[o].status = "COMPLETED" /\ placed[o].at = day
        THEN Checks!Quantity(placed[o].basket, p) ELSE 0]
Tally(p, day) == SumFunctionOnSet(Units(p, day), Cards)

\* A request that read the limit of a product while nothing else was open, and
\* an order that came of one and is not settled.
LiveCall(c, p) ==
    /\ orderCall[c].op # "idle" /\ ~orderCall[c].lapped
    /\ \E i \in 1 .. orderCall[c].next - 1 :
           i <= Len(orderCall[c].basket) /\ orderCall[c].basket[i].product = p
LiveOrder(o, p) ==
    /\ o \notin checkLapped /\ placed[o].status = "PENDING"
    /\ Checks!Quantity(placed[o].basket, p) > 0

\* There is one of them at a time.
OneLive ==
    \A p \in Products :
        /\ \A c, d \in Hands : LiveCall(c, p) /\ LiveCall(d, p) => c = d
        /\ \A c \in Hands, o \in Cards : ~(LiveCall(c, p) /\ LiveOrder(o, p))
        /\ \A o, x \in Cards : LiveOrder(o, p) /\ LiveOrder(x, p) => o = x

\* How far a request has come, and that what it read leaves room for it.
CallFits(c) ==
    orderCall[c].op # "idle" =>
        /\ orderCall[c].since <= hour /\ orderCall[c].next <= Len(orderCall[c].basket) + 1
        /\ orderCall[c].op = "create" =>
               /\ orderCall[c].next = Len(orderCall[c].basket) + 1
               /\ ~orderCall[c].errors /\ ~Checks!Duplicates(orderCall[c].basket)
        /\ ~orderCall[c].errors /\ ~orderCall[c].lapped /\ orderCall[c].since = hour =>
               \A i \in 1 .. Len(orderCall[c].basket) :
                   LET p == orderCall[c].basket[i].product
                   IN  i < orderCall[c].next /\ Limits[p].daily > 0 =>
                           Tally(p, hour) + orderCall[c].basket[i].quantity <= Limits[p].daily

\* There is room for an order that is not settled.
OrderFits(o) ==
    \A p \in Products :
        LiveOrder(o, p) /\ Limits[p].daily > 0 =>
            Tally(p, placed[o].at) + Checks!Quantity(placed[o].basket, p) <= Limits[p].daily

WithinLimit ==
    \A p \in Products, day \in Nat : Limits[p].daily > 0 => Tally(p, day) <= Limits[p].daily

OrdersInductive ==
    /\ OrdersTypes /\ OneLive
    /\ \A c \in Hands : CallFits(c)
    /\ \A o \in Cards : OrderFits(o)
    /\ WithinLimit

BasketRows == [product : Products, quantity : Nat]

LEMMA OrdersAssumption ==
    /\ IsFiniteSet(Cards) /\ LastTime \in Nat
    /\ OrderBaskets \subseteq Seq(BasketRows)
    /\ \A p \in Products : Limits[p].daily \in Nat
<1>1. Checks!ChecksAssumption BY BackOfficeAssumption
<1>. QED BY <1>1, FiniteInChecks DEF Checks!ChecksAssumption, BasketRows

\* A day has one hour here.
LEMMA HourIsDate == \A t \in Int : Checks!Date(t) = t
<1>1. Cardinality(0 .. 0) = 1
  <2>1. 0 .. 0 = {0} OBVIOUS
  <2>. QED BY <2>1, FS_Singleton
<1>2. Checks!Cardinality(0 .. 0) = Cardinality(0 .. 0)
  BY DEF Checks!Cardinality, Cardinality, Checks!IsFiniteSet, IsFiniteSet
<1>. QED BY <1>1, <1>2 DEF Checks!Date, Checks!Hours

\* How much of a product a basket asks for.
LEMMA QuantityOf ==
    ASSUME NEW basket \in OrderBaskets, NEW p \in Products
    PROVE  /\ Checks!Quantity(basket, p) \in Nat
           /\ Checks!Quantity(basket, p) > 0 =>
                  \E i \in 1 .. Len(basket) : basket[i].product = p
           /\ \A i \in 1 .. Len(basket) :
                  basket[i].product = p /\ ~Checks!Duplicates(basket) =>
                      Checks!Quantity(basket, p) = basket[i].quantity
<1> DEFINE I == {i \in DOMAIN basket : basket[i].product = p}
           f == [i \in I |-> basket[i].quantity]
<1>1. basket \in Seq(BasketRows) BY OrdersAssumption
<1>2. Len(basket) \in Nat /\ DOMAIN basket = 1 .. Len(basket) BY <1>1
<1>3. IsFiniteSet(I)
  <2>1. IsFiniteSet(1 .. Len(basket)) BY <1>2, FS_Interval
  <2>2. I \subseteq 1 .. Len(basket) BY <1>2
  <2>. QED BY <2>1, <2>2, FS_Subset
<1>4. \A i \in I : f[i] \in Nat /\ f[i] \in Int
  <2>1. \A i \in 1 .. Len(basket) : basket[i] \in BasketRows BY <1>1
  <2>2. \A i \in DOMAIN basket : basket[i].quantity \in Nat
    BY <1>2, <2>1 DEF BasketRows
  <2>. QED BY <2>2
<1>5. Checks!Quantity(basket, p) = SumFunctionOnSet(f, I)
  BY SumsOfChecks DEF Checks!Quantity, Checks!Sum
<1>6. ASSUME NEW i \in 1 .. Len(basket), basket[i].product = p, ~Checks!Duplicates(basket)
      PROVE  I = {i} /\ f[i] = basket[i].quantity /\ f[i] \in Int
  BY <1>2, <1>4, <1>6 DEF Checks!Duplicates
<1>7. I = {} \/ \E i \in 1 .. Len(basket) : basket[i].product = p BY <1>2
<1> HIDE DEF I, f
<1>8. SumFunctionOnSet(f, I) \in Nat BY <1>3, <1>4, SumNat
<1>9. I = {} => SumFunctionOnSet(f, I) = 0 BY SumEmpty
<1>10. \A i \in 1 .. Len(basket) :
          basket[i].product = p /\ ~Checks!Duplicates(basket) =>
              SumFunctionOnSet(f, I) = basket[i].quantity
  <2> SUFFICES ASSUME NEW i \in 1 .. Len(basket), basket[i].product = p,
                      ~Checks!Duplicates(basket)
               PROVE  SumFunctionOnSet(f, I) = basket[i].quantity
    OBVIOUS
  <2>1. I = {i} /\ f[i] = basket[i].quantity /\ f[i] \in Int BY <1>6
  <2>2. SumFunctionOnSet(f, {i}) = f[i] BY <2>1, SumOne
  <2>. QED BY <2>1, <2>2
<1>. QED BY <1>5, <1>7, <1>8, <1>9, <1>10

LEMMA UnitsOf ==
    ASSUME OrdersTypes, NEW p \in Products, NEW day \in Nat
    PROVE  \A o \in Cards : Units(p, day)[o] \in Nat /\ Units(p, day)[o] \in Int
<1>1. \A o \in Cards : placed[o].status = "COMPLETED" => placed[o].basket \in OrderBaskets
  BY DEF OrdersTypes, OrderRows, NoOrder
<1>. QED BY <1>1, QuantityOf DEF Units

LEMMA TallyOf ==
    ASSUME OrdersTypes, NEW p \in Products, NEW day \in Nat
    PROVE  Tally(p, day) \in Nat
<1>1. \A o \in Cards : Units(p, day)[o] \in Nat BY UnitsOf
<1>. QED BY <1>1, OrdersAssumption, SumNat DEF Tally

\* The sales are those of the orders that count.
LEMMA TallyOver ==
    ASSUME OrdersTypes, NEW p \in Products, NEW day \in Nat, NEW A \in SUBSET Cards,
           \A o \in Cards \ A : Units(p, day)[o] = 0
    PROVE  IsFiniteSet(A) /\ Tally(p, day) = SumFunctionOnSet(Units(p, day), A)
<1> DEFINE u == Units(p, day)
           R == Cards \ A
<1>1. IsFiniteSet(Cards) /\ IsFiniteSet(R) /\ IsFiniteSet(A)
  BY OrdersAssumption, FS_Subset
<1>2. (\A o \in Cards : u[o] \in Int) /\ \A o \in R : u[o] = 0 BY UnitsOf
<1>3. Tally(p, day) = SumFunctionOnSet(u, Cards) BY DEF Tally
<1>30. (\A o \in A : u[o] \in Int) /\ R = Cards \ A BY <1>2
<1> HIDE DEF u, R
<1>4. SumFunctionOnSet(u, Cards) = SumFunctionOnSet(u, A) + SumFunctionOnSet(u, R)
  BY <1>1, <1>2, <1>30, SumParts
<1>5. SumFunctionOnSet(u, R) = 0 BY <1>1, <1>2, SumZeros
<1>6. SumFunctionOnSet(u, A) \in Int BY <1>1, <1>30, SumInt
<1>7. Tally(p, day) = SumFunctionOnSet(u, A) BY <1>3, <1>4, <1>5, <1>6
<1>. QED BY <1>1, <1>7 DEF u

\* What a check adds up is no less.
LEMMA SoldCounts ==
    ASSUME OrdersTypes, NEW p \in Products
    PROVE  Checks!SoldToday(p) \in Nat /\ Tally(p, hour) <= Checks!SoldToday(p)
<1> DEFINE A == {o \in Checks!Containing(p) :
                     placed[o].status = "COMPLETED" /\ Checks!Date(placed[o].at) = Checks!Date(hour)}
           f == [o \in A |-> Checks!Quantity(placed[o].basket, p)]
           u == Units(p, hour)
<1>1. \A o \in Cards : placed[o].status = "COMPLETED" =>
                             placed[o].basket \in OrderBaskets /\ placed[o].at \in Nat
  BY DEF OrdersTypes, OrderRows, NoOrder
<1>2. hour \in Nat BY DEF OrdersTypes
<1>3. A \subseteq Cards /\ \A o \in A : f[o] \in Nat
  BY <1>1, QuantityOf DEF Checks!Containing
<1>4. \A o \in Cards \ A : u[o] = 0
  <2> SUFFICES ASSUME NEW o \in Cards \ A, o \notin checkLapped, placed[o].status = "COMPLETED",
                      placed[o].at = hour
               PROVE  Checks!Quantity(placed[o].basket, p) = 0
    BY DEF Units
  <2>1. ~(Checks!Quantity(placed[o].basket, p) > 0) BY DEF Checks!Containing
  <2>. QED BY <1>1, <2>1, QuantityOf
<1>5. \A o \in A : u[o] <= f[o] /\ u[o] \in Int /\ f[o] \in Int
  BY <1>2, <1>3, UnitsOf DEF Units
<1>6. Checks!SoldToday(p) = SumFunctionOnSet(f, A)
  BY SumsOfChecks DEF Checks!SoldToday, Checks!Sum
<1> HIDE DEF A, f
<1>7. IsFiniteSet(A) /\ Tally(p, hour) = SumFunctionOnSet(u, A)
  BY <1>2, <1>3, <1>4, TallyOver
<1> HIDE DEF u
<1>8. SumFunctionOnSet(f, A) \in Nat BY <1>3, <1>7, SumNat
<1>9. SumFunctionOnSet(u, A) <= SumFunctionOnSet(f, A) BY <1>5, <1>7, SumAtMost
<1>. QED BY <1>6, <1>7, <1>8, <1>9

LEMMA LimitIsKept == OrdersInductive => Checks!LimitKept
<1> SUFFICES ASSUME OrdersInductive, NEW p \in Products, Limits[p].daily > 0,
                    NEW day \in 0 .. Checks!Date(LastTime)
             PROVE  Checks!Sum({o \in Checks!Containing(p) \ checkLapped :
                                   /\ placed[o].status = "COMPLETED"
                                   /\ Checks!Date(placed[o].at) = day},
                               LAMBDA o : Checks!Quantity(placed[o].basket, p)) <= Limits[p].daily
  BY DEF Checks!LimitKept
<1> DEFINE A == {o \in Checks!Containing(p) \ checkLapped :
                     placed[o].status = "COMPLETED" /\ Checks!Date(placed[o].at) = day}
           f == [o \in A |-> Checks!Quantity(placed[o].basket, p)]
           u == Units(p, day)
<1>0. day \in Nat /\ OrdersTypes BY OrdersAssumption DEF OrdersInductive
<1>1. \A o \in Cards : placed[o].status = "COMPLETED" =>
          placed[o].basket \in OrderBaskets /\ Checks!Date(placed[o].at) = placed[o].at
  BY <1>0, HourIsDate DEF OrdersTypes, OrderRows, NoOrder
<1>2. A \subseteq Cards BY DEF Checks!Containing
<1>3. \A o \in Cards \ A : u[o] = 0
  <2> SUFFICES ASSUME NEW o \in Cards \ A, o \notin checkLapped, placed[o].status = "COMPLETED",
                      placed[o].at = day
               PROVE  Checks!Quantity(placed[o].basket, p) = 0
    BY DEF Units
  <2>1. ~(Checks!Quantity(placed[o].basket, p) > 0) BY <1>1 DEF Checks!Containing
  <2>. QED BY <1>1, <2>1, QuantityOf
<1>4. \A o \in A : u[o] = f[o] /\ u[o] \in Int
  BY <1>0, <1>1, <1>2, UnitsOf DEF Units
<1>5. Checks!Sum(A, LAMBDA o : Checks!Quantity(placed[o].basket, p)) = SumFunctionOnSet(f, A)
  BY SumsOfChecks DEF Checks!Sum
<1>6. IsFiniteSet(A) /\ Tally(p, day) = SumFunctionOnSet(u, A)
  <2> HIDE DEF A
  <2>. QED BY <1>0, <1>2, <1>3, TallyOver
<1>7. Tally(p, day) <= Limits[p].daily BY <1>0 DEF OrdersInductive, WithinLimit
<1>8. SumFunctionOnSet(u, A) = SumFunctionOnSet(f, A)
  <2> HIDE DEF A, f, u
  <2>. QED BY <1>4, <1>6, SumSame
<1>. QED BY <1>5, <1>6, <1>7, <1>8

LEMMA OrdersInit == Checks!ChecksInit => OrdersInductive
<1> SUFFICES ASSUME Checks!ChecksInit PROVE OrdersInductive
  OBVIOUS
<1>1. /\ hour = 0 /\ placed = [o \in Cards |-> NoOrder]
      /\ orderCall = [c \in Hands |-> Checks!Idle] /\ checkLapped = {}
  BY DEF Checks!ChecksInit, NoOrder
<1>2. OrdersTypes BY <1>1 DEF OrdersTypes
<1>3. \A c \in Hands : orderCall[c].op = "idle" BY <1>1 DEF Checks!Idle
<1>4. \A o \in Cards : placed[o].status = "none" BY <1>1 DEF NoOrder
<1>5. OneLive BY <1>3, <1>4 DEF OneLive, LiveCall, LiveOrder
<1>6. (\A c \in Hands : CallFits(c)) /\ \A o \in Cards : OrderFits(o)
  BY <1>3, <1>4 DEF CallFits, OrderFits, LiveOrder
<1>7. \A p \in Products, day \in Nat : Tally(p, day) = 0
  <2> SUFFICES ASSUME NEW p \in Products, NEW day \in Nat PROVE Tally(p, day) = 0
    OBVIOUS
  <2>1. \A o \in Cards : Units(p, day)[o] = 0 BY <1>4 DEF Units
  <2>. QED BY <2>1, OrdersAssumption, SumZeros DEF Tally
<1>. QED BY <1>2, <1>5, <1>6, <1>7, OrdersAssumption DEF OrdersInductive, WithinLimit

LEMMA CallRows ==
    ASSUME OrdersTypes, NEW c \in Hands
    PROVE  /\ orderCall[c].op # "idle" =>
                  /\ orderCall[c] \in CheckCalls
                  /\ Len(orderCall[c].basket) \in Nat
                  /\ \A i \in 1 .. Len(orderCall[c].basket) :
                         /\ orderCall[c].basket[i].product \in Products
                         /\ orderCall[c].basket[i].quantity \in Nat
           /\ orderCall[c].op = "idle" => orderCall[c] = Checks!Idle
<1>1. orderCall[c] \in CheckCalls \union {Checks!Idle} BY DEF OrdersTypes
<1>2. CASE orderCall[c] \in CheckCalls
  <2>1. orderCall[c].basket \in OrderBaskets /\ orderCall[c].op # "idle"
    BY <1>2 DEF CheckCalls
  <2>2. PICK basket \in OrderBaskets : basket = orderCall[c].basket BY <2>1
  <2>3. basket \in Seq(BasketRows) BY OrdersAssumption
  <2>4. /\ Len(basket) \in Nat
        /\ \A i \in 1 .. Len(basket) : basket[i] \in BasketRows
    BY <2>3
  <2>5. \A i \in 1 .. Len(basket) : basket[i].product \in Products /\ basket[i].quantity \in Nat
    BY <2>4 DEF BasketRows
  <2>. QED BY <1>2, <2>1, <2>2, <2>4, <2>5
<1>3. CASE orderCall[c] = Checks!Idle BY <1>3 DEF Checks!Idle
<1>. QED BY <1>1, <1>2, <1>3

\* A step of one request.
LEMMA CallStep ==
    ASSUME OrdersInductive, hour' = hour, placed' = placed, checkLapped' = checkLapped,
           NEW c \in Hands, orderCall' \in [Hands -> CheckCalls \union {Checks!Idle}],
           \A d \in Hands \ {c} : orderCall'[d] = orderCall[d],
           \A p \in Products : LiveCall(c, p)' =>
               \/ LiveCall(c, p)
               \/ /\ \A d \in Hands \ {c} : ~LiveCall(d, p)
                  /\ \A o \in Cards : ~LiveOrder(o, p),
           CallFits(c)'
    PROVE  OrdersInductive'
<1> USE DEF OrdersInductive
<1>1. OrdersTypes' BY DEF OrdersTypes
<1>2. \A p \in Products : \A o \in Cards : LiveOrder(o, p)' <=> LiveOrder(o, p)
  BY DEF LiveOrder
<1>3. \A p \in Products : \A d \in Hands \ {c} : LiveCall(d, p)' <=> LiveCall(d, p)
  BY DEF LiveCall
<1>4. \A p \in Products, day \in Nat : Tally(p, day)' = Tally(p, day)
  BY DEF Tally, Units
<1>5. OneLive' BY <1>2, <1>3 DEF OneLive
<1>6. ASSUME NEW d \in Hands, d # c PROVE CallFits(d)'
  <2>1. orderCall'[d] = orderCall[d] /\ CallFits(d) /\ hour \in Nat
    BY <1>6 DEF OrdersTypes
  <2>2. orderCall[d].op # "idle" =>
            \A i \in 1 .. Len(orderCall[d].basket) : orderCall[d].basket[i].product \in Products
    BY CallRows
  <2>. QED BY <1>4, <2>1, <2>2 DEF CallFits
<1>7. ASSUME NEW o \in Cards PROVE OrderFits(o)'
  <2>1. OrderFits(o) OBVIOUS
  <2>2. placed[o].status = "PENDING" => placed[o].at \in Nat
    BY DEF OrdersTypes, OrderRows, NoOrder
  <2>. QED BY <1>2, <1>4, <2>1, <2>2 DEF OrderFits, LiveOrder
<1>8. WithinLimit' BY <1>4 DEF WithinLimit
<1>. QED BY <1>1, <1>5, <1>6, <1>7, <1>8

LEMMA create_Orders ==
    ASSUME OrdersInductive, NEW c \in Hands, NEW basket \in OrderBaskets, Checks!create(c, basket)
    PROVE  OrdersInductive'
<1>0. PICK shut \in BOOLEAN : shut = ~Checks!OpenNow OBVIOUS
<1> DEFINE v == [op |-> "check", basket |-> basket, next |-> 1, errors |-> shut,
                 since |-> hour, lapped |-> FALSE]
<1>1. /\ orderCall' = [orderCall EXCEPT ![c] = v]
      /\ hour' = hour /\ placed' = placed /\ checkLapped' = checkLapped
  BY <1>0 DEF Checks!create, Checks!Set
<1>2. OrdersTypes /\ hour \in Nat /\ orderCall \in [Hands -> CheckCalls \union {Checks!Idle}]
  BY DEF OrdersInductive, OrdersTypes
<1>3. v \in CheckCalls BY <1>0, <1>2 DEF CheckCalls
<1>4. /\ orderCall'[c] = v /\ \A d \in Hands \ {c} : orderCall'[d] = orderCall[d]
      /\ orderCall' \in [Hands -> CheckCalls \union {Checks!Idle}]
  BY <1>1, <1>2, <1>3
<1>5. /\ v.op = "check" /\ v.basket = basket /\ v.next = 1 /\ v.since = hour OBVIOUS
<1>6. Len(basket) \in Nat BY OrdersAssumption
<1> HIDE DEF v
<1>7. \A p \in Products : ~LiveCall(c, p)' BY <1>4, <1>5 DEF LiveCall
<1>8. CallFits(c)' BY <1>1, <1>2, <1>4, <1>5, <1>6 DEF CallFits
<1>. QED BY <1>1, <1>4, <1>7, <1>8, CallStep

LEMMA CheckItem_Orders ==
    ASSUME OrdersInductive, NEW c \in Hands, Checks!CheckItem(c)
    PROVE  OrdersInductive'
<1>0. orderCall[c].op = "check" /\ OrdersTypes /\ CallFits(c) /\ hour \in Nat
  BY DEF Checks!CheckItem, OrdersInductive, OrdersTypes
<1>1. PICK k \in CheckCalls : k = orderCall[c] BY <1>0, CallRows
<1>2. /\ k.basket \in OrderBaskets /\ k.next \in Nat /\ k.errors \in BOOLEAN
      /\ k.lapped \in BOOLEAN /\ k.since \in Nat /\ k.op = "check"
  BY <1>0, <1>1 DEF CheckCalls
<1>3. PICK item : item = k.basket[k.next] OBVIOUS
<1>30. PICK e \in BOOLEAN, l \in BOOLEAN :
           /\ e = (k.errors \/ Checks!ItemErrors(item))
           /\ l = (k.lapped \/ Checks!OpenFor(item.product, c))
  OBVIOUS
<1> DEFINE v == [k EXCEPT !.next = k.next + 1, !.errors = e, !.lapped = l]
<1>4. /\ orderCall' = [orderCall EXCEPT ![c] = v]
      /\ hour' = hour /\ placed' = placed /\ checkLapped' = checkLapped
      /\ k.next <= Len(k.basket)
  BY <1>1, <1>3, <1>30 DEF Checks!CheckItem, Checks!Set
<1>5. /\ v \in CheckCalls
      /\ v.op = "check" /\ v.basket = k.basket /\ v.next = k.next + 1 /\ v.since = k.since
      /\ v.errors = (k.errors \/ Checks!ItemErrors(item))
      /\ v.lapped = (k.lapped \/ Checks!OpenFor(item.product, c))
  <2>1. /\ v \in CheckCalls
        /\ v.op = "check" /\ v.basket = k.basket /\ v.next = k.next + 1 /\ v.since = k.since
        /\ v.errors = e /\ v.lapped = l
    <3>1. e \in BOOLEAN /\ l \in BOOLEAN BY <1>30
    <3>2. /\ v.op = k.op /\ v.basket = k.basket /\ v.next = k.next + 1 /\ v.since = k.since
          /\ v.errors = e /\ v.lapped = l
      BY DEF CheckCalls
    <3>3. PICK n \in Nat : n = k.next + 1 BY <1>2
    <3>4. [k EXCEPT !.next = n, !.errors = e, !.lapped = l] \in CheckCalls
      BY <1>1, <3>1 DEF CheckCalls
    <3>5. v \in CheckCalls BY <3>3, <3>4
    <3>. QED BY <1>2, <3>2, <3>5
  <2> HIDE DEF v
  <2>. QED BY <1>30, <2>1
<1> HIDE DEF v
<1>6. /\ orderCall'[c] = v /\ \A d \in Hands \ {c} : orderCall'[d] = orderCall[d]
      /\ orderCall' \in [Hands -> CheckCalls \union {Checks!Idle}]
  BY <1>0, <1>4, <1>5 DEF OrdersTypes
<1>7. /\ Len(k.basket) \in Nat
      /\ \A i \in 1 .. Len(k.basket) :
             k.basket[i].product \in Products /\ k.basket[i].quantity \in Nat
  BY <1>0, <1>1, CallRows
<1>8. k.next \in 1 .. Len(k.basket) \/ k.next = 0 BY <1>2, <1>4, <1>7
<1>9. ASSUME NEW p \in Products, LiveCall(c, p)'
      PROVE  \/ LiveCall(c, p)
             \/ /\ \A d \in Hands \ {c} : ~LiveCall(d, p)
                /\ \A o \in Cards : ~LiveOrder(o, p)
  <2>1. ~k.lapped /\ ~Checks!OpenFor(item.product, c)
    BY <1>5, <1>6, <1>9 DEF LiveCall
  <2>2. PICK i \in 1 .. k.next : i <= Len(k.basket) /\ k.basket[i].product = p
    BY <1>2, <1>5, <1>6, <1>9 DEF LiveCall
  <2>3. CASE i # k.next BY <1>1, <1>2, <2>1, <2>2, <2>3 DEF LiveCall
  <2>4. CASE i = k.next
    <3>1. item.product = p BY <1>3, <2>2, <2>4
    <3>2. \A o \in Cards : ~LiveOrder(o, p)
      BY <2>1, <3>1 DEF Checks!OpenFor, Checks!Containing, LiveOrder
    <3>3. \A d \in Hands \ {c} : ~LiveCall(d, p)
      BY <2>1, <3>1 DEF Checks!OpenFor, LiveCall
    <3>. QED BY <3>2, <3>3
  <2>. QED BY <2>3, <2>4
<1>10. CallFits(c)'
  <2>1. k.since <= hour /\ k.next + 1 <= Len(k.basket) + 1
    BY <1>0, <1>1, <1>2, <1>4, <1>7 DEF CallFits
  <2>2. ASSUME ~v.errors, ~v.lapped, k.since = hour, NEW i \in 1 .. Len(k.basket),
               i < k.next + 1, NEW p \in Products, p = k.basket[i].product, Limits[p].daily > 0
        PROVE  Tally(p, hour) + k.basket[i].quantity <= Limits[p].daily
    <3>1. ~k.errors /\ ~k.lapped /\ ~Checks!ItemErrors(item) BY <1>5, <2>2
    <3>2. CASE i < k.next BY <1>0, <1>1, <2>2, <3>1, <3>2 DEF CallFits
    <3>3. CASE i = k.next
      <4>1. item.product = p /\ item.quantity = k.basket[i].quantity /\ item.quantity \in Nat
        BY <1>3, <1>7, <2>2, <3>3
      <4>2. ~(item.quantity > Limits[p].daily - Checks!SoldToday(p))
        BY <2>2, <3>1, <4>1 DEF Checks!ItemErrors, Checks!Remaining
      <4>3. Checks!SoldToday(p) \in Nat /\ Tally(p, hour) <= Checks!SoldToday(p)
        BY <1>0, SoldCounts
      <4>4. Tally(p, hour) \in Nat /\ Limits[p].daily \in Nat
        BY <1>0, TallyOf, OrdersAssumption
      <4>. QED BY <4>1, <4>2, <4>3, <4>4
    <3>. QED BY <1>2, <2>2, <3>2, <3>3
  <2>3. \A p \in Products : Tally(p, hour)' = Tally(p, hour)
    BY <1>4 DEF Tally, Units
  <2>. QED BY <1>4, <1>5, <1>6, <1>7, <2>1, <2>2, <2>3 DEF CallFits
<1>. QED BY <1>4, <1>6, <1>9, <1>10, CallStep

LEMMA Checked_Orders ==
    ASSUME OrdersInductive, NEW c \in Hands, Checks!Checked(c)
    PROVE  OrdersInductive'
<1>0. orderCall[c].op = "check" /\ OrdersTypes /\ CallFits(c) /\ hour \in Nat
  BY DEF Checks!Checked, OrdersInductive, OrdersTypes
<1>1. PICK k \in CheckCalls : k = orderCall[c] BY <1>0, CallRows
<1>2. /\ hour' = hour /\ placed' = placed /\ checkLapped' = checkLapped
      /\ k.next > Len(k.basket)
  BY <1>1 DEF Checks!Checked
<1>3. /\ Len(k.basket) \in Nat /\ k.next \in Nat
      /\ \A i \in 1 .. Len(k.basket) : k.basket[i].product \in Products
  BY <1>0, <1>1, CallRows DEF CheckCalls
<1>4. CASE orderCall' = [orderCall EXCEPT ![c] = Checks!Idle]
  <2>1. /\ orderCall'[c] = Checks!Idle /\ \A d \in Hands \ {c} : orderCall'[d] = orderCall[d]
        /\ orderCall' \in [Hands -> CheckCalls \union {Checks!Idle}]
    BY <1>0, <1>4 DEF OrdersTypes
  <2>2. CallFits(c)' /\ \A p \in Products : ~LiveCall(c, p)'
    BY <2>1 DEF CallFits, LiveCall, Checks!Idle
  <2>. QED BY <1>2, <2>1, <2>2, CallStep
<1>5. CASE /\ ~k.errors /\ ~Checks!Duplicates(k.basket)
           /\ orderCall' = [orderCall EXCEPT ![c] = [k EXCEPT !.op = "create"]]
  <2> DEFINE v == [k EXCEPT !.op = "create"]
  <2>1. /\ v \in CheckCalls /\ v.op = "create" /\ v.basket = k.basket /\ v.next = k.next
        /\ v.since = k.since /\ v.errors = k.errors /\ v.lapped = k.lapped
    BY DEF CheckCalls
  <2>2. orderCall' = [orderCall EXCEPT ![c] = v] BY <1>5
  <2> HIDE DEF v
  <2>3. /\ orderCall'[c] = v /\ \A d \in Hands \ {c} : orderCall'[d] = orderCall[d]
        /\ orderCall' \in [Hands -> CheckCalls \union {Checks!Idle}]
    BY <1>0, <2>1, <2>2 DEF OrdersTypes
  <2>4. \A p \in Products : LiveCall(c, p)' => LiveCall(c, p)
    BY <1>0, <1>1, <2>1, <2>3 DEF LiveCall
  <2>5. \A p \in Products : Tally(p, hour)' = Tally(p, hour)
    BY <1>2 DEF Tally, Units
  <2>6. k.next = Len(k.basket) + 1 BY <1>0, <1>1, <1>2, <1>3 DEF CallFits
  <2>7. CallFits(c)'
    BY <1>0, <1>1, <1>2, <1>3, <1>5, <2>1, <2>3, <2>5, <2>6 DEF CallFits
  <2>. QED BY <1>2, <2>3, <2>4, <2>7, CallStep
<1>. QED BY <1>1, <1>4, <1>5 DEF Checks!Checked, Checks!Set

LEMMA CreateOrder_Orders ==
    ASSUME OrdersInductive, NEW c \in Hands, Checks!CreateOrder(c)
    PROVE  OrdersInductive'
<1>0. /\ orderCall[c].op = "create" /\ OrdersTypes /\ CallFits(c) /\ hour \in Nat
      /\ orderCall' = [orderCall EXCEPT ![c] = Checks!Idle] /\ hour' = hour
  BY DEF Checks!CreateOrder, Checks!Set, OrdersInductive, OrdersTypes
<1>1. PICK k \in CheckCalls : k = orderCall[c] BY <1>0, CallRows
<1>2. /\ orderCall'[c] = Checks!Idle /\ \A d \in Hands \ {c} : orderCall'[d] = orderCall[d]
      /\ orderCall' \in [Hands -> CheckCalls \union {Checks!Idle}]
  BY <1>0 DEF OrdersTypes
<1>3. CallFits(c)' /\ \A p \in Products : ~LiveCall(c, p)'
  BY <1>2 DEF CallFits, LiveCall, Checks!Idle
<1>4. CASE placed' = placed /\ checkLapped' = checkLapped
  BY <1>0, <1>2, <1>3, <1>4, CallStep
<1>5. ASSUME NEW o \in Cards, placed[o].status = "none",
             placed' = [placed EXCEPT ![o] = [status |-> "PENDING", basket |-> k.basket, at |-> hour]],
             checkLapped' = IF k.lapped \/ Checks!Date(k.since) # Checks!Date(hour)
                            THEN checkLapped \union {o} ELSE checkLapped
      PROVE  OrdersInductive'
  <2> DEFINE row == [status |-> "PENDING", basket |-> k.basket, at |-> hour]
  <2>1. /\ k.basket \in OrderBaskets /\ k.next = Len(k.basket) + 1 /\ k.since \in Nat
        /\ Len(k.basket) \in Nat /\ ~k.errors /\ ~Checks!Duplicates(k.basket)
        /\ k.op = "create" /\ k.lapped \in BOOLEAN
        /\ \A i \in 1 .. Len(k.basket) : k.basket[i].product \in Products
    BY <1>0, <1>1, CallRows DEF CallFits, CheckCalls
  <2>2. row \in OrderRows BY <1>0, <2>1 DEF OrderRows
  <2>3. row.status = "PENDING" /\ row.basket = k.basket /\ row.at = hour OBVIOUS
  <2>4. placed' = [placed EXCEPT ![o] = row] BY <1>5
  <2> HIDE DEF row
  <2>5. /\ placed'[o] = row /\ \A x \in Cards \ {o} : placed'[x] = placed[x]
        /\ placed' \in [Cards -> OrderRows \union {NoOrder}]
    BY <1>0, <2>2, <2>4 DEF OrdersTypes
  <2>6. /\ \A x \in Cards \ {o} : x \in checkLapped' <=> x \in checkLapped
        /\ o \notin checkLapped' => ~k.lapped /\ k.since = hour
    BY <1>0, <1>5, <2>1, HourIsDate
  <2>7. OrdersTypes' BY <1>0, <1>2, <2>5 DEF OrdersTypes
  <2>8. \A p \in Products, day \in Nat : Tally(p, day)' = Tally(p, day)
    <3> SUFFICES ASSUME NEW p \in Products, NEW day \in Nat PROVE Tally(p, day)' = Tally(p, day)
      OBVIOUS
    <3>1. \A x \in Cards : Units(p, day)'[x] = Units(p, day)[x]
      BY <1>5, <2>3, <2>5, <2>6 DEF Units
    <3>2. Units(p, day)' = Units(p, day) BY <3>1 DEF Units
    <3>. QED BY <3>2 DEF Tally
  <2>9. \A p \in Products : \A x \in Cards \ {o} : LiveOrder(x, p)' <=> LiveOrder(x, p)
    BY <2>5, <2>6 DEF LiveOrder
  <2>10. ASSUME NEW p \in Products, NEW x \in Cards, x = o, LiveOrder(x, p)'
         PROVE  /\ ~k.lapped /\ k.since = hour /\ LiveCall(c, p)
                /\ \E i \in 1 .. Len(k.basket) : k.basket[i].product = p
    <3>1. ~k.lapped /\ k.since = hour /\ Checks!Quantity(k.basket, p) > 0
      BY <2>3, <2>5, <2>6, <2>10 DEF LiveOrder
    <3>2. PICK i \in 1 .. Len(k.basket) : k.basket[i].product = p
      BY <2>1, <3>1, QuantityOf
    <3>3. LiveCall(c, p) BY <1>1, <2>1, <3>1, <3>2 DEF LiveCall
    <3>. QED BY <3>1, <3>2, <3>3
  <2>11. \A p \in Products : \A d \in Hands : LiveCall(d, p)' => d # c /\ LiveCall(d, p)
    BY <1>2, <1>3 DEF LiveCall
  <2>12. OneLive'
    <3>1. OneLive BY DEF OrdersInductive
    <3> SUFFICES ASSUME NEW p \in Products
                 PROVE  /\ \A d, e \in Hands : LiveCall(d, p)' /\ LiveCall(e, p)' => d = e
                        /\ \A d \in Hands, x \in Cards : ~(LiveCall(d, p)' /\ LiveOrder(x, p)')
                        /\ \A x, y \in Cards : LiveOrder(x, p)' /\ LiveOrder(y, p)' => x = y
      BY DEF OneLive
    <3>2. /\ \A d, e \in Hands : LiveCall(d, p) /\ LiveCall(e, p) => d = e
          /\ \A d \in Hands, x \in Cards : ~(LiveCall(d, p) /\ LiveOrder(x, p))
          /\ \A x, y \in Cards : LiveOrder(x, p) /\ LiveOrder(y, p) => x = y
      BY <3>1 DEF OneLive
    <3>3. \A x \in Cards : LiveOrder(x, p)' =>
                  (LiveCall(c, p) /\ x = o) \/ (LiveOrder(x, p) /\ x # o)
      <4> SUFFICES ASSUME NEW x \in Cards, LiveOrder(x, p)'
                   PROVE  (LiveCall(c, p) /\ x = o) \/ (LiveOrder(x, p) /\ x # o)
        OBVIOUS
      <4>1. CASE x = o BY <2>10, <4>1
      <4>2. CASE x # o BY <2>9, <4>2
      <4>. QED BY <4>1, <4>2
    <3>4. \A d \in Hands : LiveCall(d, p)' => d # c /\ LiveCall(d, p) BY <2>11
    <3>. QED BY <3>2, <3>3, <3>4
  <2>13. ASSUME NEW d \in Hands PROVE CallFits(d)'
    <3>1. CASE d = c BY <1>3, <3>1
    <3>2. CASE d # c
      <4>1. orderCall'[d] = orderCall[d] /\ CallFits(d)
        BY <1>2, <3>2 DEF OrdersInductive
      <4>2. orderCall[d].op # "idle" =>
                \A i \in 1 .. Len(orderCall[d].basket) : orderCall[d].basket[i].product \in Products
        BY <1>0, CallRows
      <4>. QED BY <1>0, <2>8, <4>1, <4>2 DEF CallFits
    <3>. QED BY <3>1, <3>2
  <2>14. ASSUME NEW x \in Cards PROVE OrderFits(x)'
    <3>1. CASE x = o
      <4> SUFFICES ASSUME NEW p \in Products, LiveOrder(x, p)', Limits[p].daily > 0
                   PROVE  Tally(p, hour) + Checks!Quantity(k.basket, p) <= Limits[p].daily
        BY <1>0, <2>3, <2>5, <2>8, <3>1 DEF OrderFits
      <4>1. /\ ~k.lapped /\ k.since = hour
            /\ \E i \in 1 .. Len(k.basket) : k.basket[i].product = p
        BY <2>10, <3>1
      <4>2. PICK i \in 1 .. Len(k.basket) : k.basket[i].product = p BY <4>1
      <4>3. Tally(p, hour) + k.basket[i].quantity <= Limits[p].daily
        BY <1>0, <1>1, <2>1, <4>1, <4>2 DEF CallFits
      <4>4. Checks!Quantity(k.basket, p) = k.basket[i].quantity
        BY <2>1, <4>2, QuantityOf
      <4>. QED BY <4>3, <4>4
    <3>2. CASE x # o
      <4>1. placed'[x] = placed[x] /\ OrderFits(x)
        BY <2>5, <3>2 DEF OrdersInductive
      <4>2. placed[x].status = "PENDING" => placed[x].at \in Nat
        BY <1>0 DEF OrdersTypes, OrderRows, NoOrder
      <4>3. \A p \in Products : LiveOrder(x, p)' => LiveOrder(x, p) /\ placed[x].at \in Nat
        BY <2>9, <3>2, <4>2 DEF LiveOrder
      <4>. QED BY <2>8, <4>1, <4>3 DEF OrderFits
    <3>. QED BY <3>1, <3>2
  <2>15. WithinLimit' BY <2>8 DEF WithinLimit, OrdersInductive
  <2>. QED BY <2>7, <2>12, <2>13, <2>14, <2>15 DEF OrdersInductive
<1>. QED BY <1>1, <1>4, <1>5 DEF Checks!CreateOrder

LEMMA Settle_Orders ==
    ASSUME OrdersInductive, NEW o \in Cards, NEW status \in {"COMPLETED", "CANCELLED"},
           Checks!Settle(o, status)
    PROVE  OrdersInductive'
<1>0. /\ placed[o].status = "PENDING" /\ placed' = [placed EXCEPT ![o].status = status]
      /\ hour' = hour /\ orderCall' = orderCall /\ checkLapped' = checkLapped
      /\ OrdersTypes /\ OneLive /\ WithinLimit
  BY DEF Checks!Settle, OrdersInductive
<1>1. PICK k \in OrderRows : k = placed[o] BY <1>0 DEF OrdersTypes, NoOrder
<1>2. k.basket \in OrderBaskets /\ k.at \in Nat /\ k.status = "PENDING"
  BY <1>0, <1>1 DEF OrderRows
<1> DEFINE row == [k EXCEPT !.status = status]
<1>3. row \in OrderRows /\ row.status = status /\ row.basket = k.basket /\ row.at = k.at
  BY DEF OrderRows
<1>4. placed' = [placed EXCEPT ![o] = row] BY <1>0, <1>1
<1> HIDE DEF row
<1>5. /\ placed'[o] = row /\ \A x \in Cards \ {o} : placed'[x] = placed[x]
      /\ placed' \in [Cards -> OrderRows \union {NoOrder}]
  BY <1>0, <1>3, <1>4 DEF OrdersTypes
<1>6. OrdersTypes' BY <1>0, <1>5 DEF OrdersTypes
<1>7. \A p \in Products : \A x \in Cards : LiveOrder(x, p)' => x # o /\ LiveOrder(x, p)
  BY <1>0, <1>3, <1>5 DEF LiveOrder
<1>8. \A p \in Products : \A c \in Hands : LiveCall(c, p)' <=> LiveCall(c, p)
  BY <1>0 DEF LiveCall
<1>9. \A p \in Products, day \in Nat :
          \/ Tally(p, day)' = Tally(p, day)
          \/ /\ LiveOrder(o, p) /\ day = k.at
             /\ Tally(p, day)' = Tally(p, day) + Checks!Quantity(k.basket, p)
  <2> SUFFICES ASSUME NEW p \in Products, NEW day \in Nat
               PROVE  \/ Tally(p, day)' = Tally(p, day)
                      \/ /\ LiveOrder(o, p) /\ day = k.at
                         /\ Tally(p, day)' = Tally(p, day) + Checks!Quantity(k.basket, p)
    OBVIOUS
  <2>1. PICK q \in Nat : q = Checks!Quantity(k.basket, p) BY <1>2, QuantityOf
  <2>2. PICK u, w : u = Units(p, day) /\ w = Units(p, day)' OBVIOUS
  <2>3. \A x \in Cards : u[x] \in Int BY <1>0, <2>2, UnitsOf
  <2>4. \A x \in Cards \ {o} : w[x] = u[x] BY <1>0, <1>5, <2>2 DEF Units
  <2>5. u[o] = 0 BY <1>0, <2>2 DEF Units
  <2>6. \/ w[o] = 0
        \/ o \notin checkLapped /\ day = k.at /\ w[o] = q
    BY <1>0, <1>3, <1>5, <2>1, <2>2 DEF Units
  <2>7. w[o] \in Int /\ \A x \in Cards : w[x] \in Int BY <2>1, <2>3, <2>4, <2>6
  <2>8. /\ SumFunctionOnSet(w, Cards) = SumFunctionOnSet(u, Cards) - u[o] + w[o]
        /\ SumFunctionOnSet(u, Cards) \in Int
    <3>1. IsFiniteSet(Cards) BY OrdersAssumption
    <3>2. (\A x \in Cards : u[x] \in Int) /\ \A x \in Cards : w[x] \in Int
      BY <2>3, <2>7
    <3>3. \A x \in Cards : x # o => u[x] = w[x] BY <2>4
    <3>4. SumFunctionOnSet(u, Cards) \in Int BY <3>1, <3>2, SumInt
    <3>5. SumFunctionOnSet(w, Cards) = SumFunctionOnSet(u, Cards) - u[o] + w[o]
      BY <3>1, <3>2, <3>3, SumChange
    <3>. QED BY <3>4, <3>5
  <2>9. Tally(p, day) = SumFunctionOnSet(u, Cards) /\ Tally(p, day)' = SumFunctionOnSet(w, Cards)
    BY <2>2 DEF Tally
  <2>10. CASE w[o] = 0 BY <2>5, <2>8, <2>9, <2>10
  <2>11. CASE w[o] # 0
    <3>1. o \notin checkLapped /\ day = k.at /\ w[o] = q /\ q > 0
      BY <2>1, <2>6, <2>11
    <3>2. LiveOrder(o, p) BY <1>0, <1>1, <2>1, <3>1 DEF LiveOrder
    <3>. QED BY <2>1, <2>5, <2>8, <2>9, <3>1, <3>2
  <2>. QED BY <2>10, <2>11
<1>10. OneLive' BY <1>0, <1>7, <1>8 DEF OneLive
<1>11. ASSUME NEW c \in Hands PROVE CallFits(c)'
  <2>1. CallFits(c) /\ hour \in Nat BY <1>0 DEF OrdersInductive, OrdersTypes
  <2>2. orderCall[c].op # "idle" =>
            /\ \A i \in 1 .. Len(orderCall[c].basket) : orderCall[c].basket[i].product \in Products
            /\ orderCall[c].next \in Nat /\ Len(orderCall[c].basket) \in Nat
    BY <1>0, CallRows DEF CheckCalls
  <2>3. ASSUME orderCall[c].op # "idle", ~orderCall[c].lapped,
               NEW i \in 1 .. Len(orderCall[c].basket), i < orderCall[c].next
        PROVE  Tally(orderCall[c].basket[i].product, hour)' = Tally(orderCall[c].basket[i].product, hour)
    <3>1. PICK p \in Products : p = orderCall[c].basket[i].product BY <2>2, <2>3
    <3>2. LiveCall(c, p) BY <2>2, <2>3, <3>1 DEF LiveCall
    <3>3. ~LiveOrder(o, p) BY <1>0, <3>2 DEF OneLive
    <3>4. Tally(p, hour)' = Tally(p, hour) BY <1>0, <1>9, <2>1, <3>3
    <3>. QED BY <1>0, <3>1, <3>4
  <2>. QED BY <1>0, <2>1, <2>2, <2>3 DEF CallFits
<1>12. ASSUME NEW x \in Cards PROVE OrderFits(x)'
  <2> SUFFICES ASSUME NEW p \in Products, LiveOrder(x, p)', Limits[p].daily > 0
               PROVE  Tally(p, placed[x].at)' + Checks!Quantity(placed[x].basket, p)' <= Limits[p].daily
    BY DEF OrderFits
  <2>1. x # o /\ LiveOrder(x, p) /\ OrderFits(x) BY <1>7 DEF OrdersInductive
  <2>2. ~LiveOrder(o, p) BY <1>0, <2>1 DEF OneLive
  <2>3. placed'[x] = placed[x] BY <1>5, <2>1
  <2>4. PICK day \in Nat : day = placed[x].at
    BY <1>0, <2>1 DEF LiveOrder, OrdersTypes, OrderRows, NoOrder
  <2>5. Tally(p, day)' = Tally(p, day) BY <1>9, <2>2
  <2>6. Tally(p, day) + Checks!Quantity(placed[x].basket, p) <= Limits[p].daily
    BY <2>1, <2>4 DEF OrderFits
  <2>. QED BY <2>3, <2>4, <2>5, <2>6
<1>13. WithinLimit'
  <2> SUFFICES ASSUME NEW p \in Products, NEW day \in Nat, Limits[p].daily > 0
               PROVE  Tally(p, day)' <= Limits[p].daily
    BY DEF WithinLimit
  <2>1. Tally(p, day) <= Limits[p].daily BY <1>0 DEF WithinLimit
  <2>2. LiveOrder(o, p) /\ day = k.at =>
            Tally(p, day) + Checks!Quantity(k.basket, p) <= Limits[p].daily
    BY <1>1 DEF OrdersInductive, OrderFits
  <2>. QED BY <1>9, <2>1, <2>2
<1>. QED BY <1>6, <1>10, <1>11, <1>12, <1>13 DEF OrdersInductive

\* Steps that leave the orders alone, and time that passes.
LEMMA Rest_Orders ==
    ASSUME OrdersInductive, hour' \in Nat, hour' = hour \/ hour' > hour,
           placed' = placed, orderCall' = orderCall, checkLapped' = checkLapped
    PROVE  OrdersInductive'
<1>0. OrdersTypes /\ OneLive /\ WithinLimit /\ hour \in Nat
  BY DEF OrdersInductive, OrdersTypes
<1>1. OrdersTypes' BY <1>0 DEF OrdersTypes
<1>2. \A p \in Products : \A o \in Cards : LiveOrder(o, p)' <=> LiveOrder(o, p)
  BY DEF LiveOrder
<1>3. \A p \in Products : \A c \in Hands : LiveCall(c, p)' <=> LiveCall(c, p)
  BY DEF LiveCall
<1>4. \A p \in Products, day \in Nat : Tally(p, day)' = Tally(p, day)
  BY DEF Tally, Units
<1>5. OneLive' BY <1>0, <1>2, <1>3 DEF OneLive
<1>6. ASSUME NEW c \in Hands PROVE CallFits(c)'
  <2>1. CallFits(c) BY DEF OrdersInductive
  <2>2. orderCall[c].op # "idle" =>
            /\ \A i \in 1 .. Len(orderCall[c].basket) : orderCall[c].basket[i].product \in Products
            /\ orderCall[c].since \in Nat
    BY <1>0, CallRows DEF CheckCalls
  <2>3. CASE hour' = hour BY <1>0, <1>4, <2>1, <2>2, <2>3 DEF CallFits
  <2>4. CASE hour' > hour
    <3>1. orderCall[c].op # "idle" => orderCall[c].since < hour'
      BY <1>0, <2>1, <2>2, <2>4 DEF CallFits
    <3>2. orderCall[c].op # "idle" => orderCall[c].since <= hour' /\ orderCall[c].since # hour'
      BY <2>2, <3>1
    <3>. QED BY <2>1, <3>2 DEF CallFits
  <2>. QED BY <2>3, <2>4
<1>7. ASSUME NEW o \in Cards PROVE OrderFits(o)'
  <2>1. OrderFits(o) BY DEF OrdersInductive
  <2>2. placed[o].status = "PENDING" => placed[o].at \in Nat
    BY <1>0 DEF OrdersTypes, OrderRows, NoOrder
  <2>. QED BY <1>2, <1>4, <2>1, <2>2 DEF OrderFits, LiveOrder
<1>8. WithinLimit' BY <1>0, <1>4 DEF WithinLimit
<1>. QED BY <1>1, <1>5, <1>6, <1>7, <1>8 DEF OrdersInductive

LEMMA OrdersStep ==
    OrdersInductive /\ (Checks!ChecksNext \/ UNCHANGED checksVars) => OrdersInductive'
<1> SUFFICES ASSUME OrdersInductive, Checks!ChecksNext \/ UNCHANGED checksVars
             PROVE  OrdersInductive'
  OBVIOUS
<1>0. hour \in Nat BY DEF OrdersInductive, OrdersTypes
<1>1. CASE UNCHANGED checksVars BY <1>0, <1>1, Rest_Orders DEF checksVars
<1>2. ASSUME NEW c \in Hands, NEW basket \in OrderBaskets, Checks!create(c, basket)
      PROVE  OrdersInductive'
  BY <1>2, create_Orders
<1>3. ASSUME NEW c \in Hands,
             Checks!CheckItem(c) \/ Checks!Checked(c) \/ Checks!CreateOrder(c)
      PROVE  OrdersInductive'
  BY <1>3, CheckItem_Orders, Checked_Orders, CreateOrder_Orders
<1>4. ASSUME NEW o \in Cards, NEW status \in {"COMPLETED", "CANCELLED"}, Checks!Settle(o, status)
      PROVE  OrdersInductive'
  BY <1>4, Settle_Orders
<1>5. ASSUME NEW p \in Products, NEW value \in {"unavailable", "deleted"},
             Checks!ChangeProduct(p, value)
      PROVE  OrdersInductive'
  BY <1>0, <1>5, Rest_Orders DEF Checks!ChangeProduct
<1>6. ASSUME Checks!Tick PROVE OrdersInductive'
  BY <1>0, <1>6, Rest_Orders DEF Checks!Tick
<1>. QED BY <1>1, <1>2, <1>3, <1>4, <1>5, <1>6 DEF Checks!ChecksNext

ChecksInductive ==
    /\ focus = "orders" => OrdersInductive
    /\ focus = "options" => asked \in [groups : OptionGroups, chosen : Choices]
    /\ focus = "hours" => HoursInductive

LEMMA ChecksStart == Init => ChecksInductive
<1>1. ASSUME focus = "orders", Init PROVE OrdersInductive
  BY <1>1, OrdersInit DEF Init
<1>2. ASSUME focus = "options", Init PROVE asked \in [groups : OptionGroups, chosen : Choices]
  BY <1>2 DEF Init, Checks!ChecksInit
<1>3. ASSUME focus = "hours", Init PROVE HoursInductive
  BY <1>3, HoursInit DEF Init
<1>. QED BY <1>1, <1>2, <1>3 DEF ChecksInductive

LEMMA ChecksStepOfEach == ChecksInductive /\ [Next]_everyVar => ChecksInductive'
<1> SUFFICES ASSUME ChecksInductive, [Next]_everyVar PROVE ChecksInductive'
  OBVIOUS
<1>0. focus' = focus BY DEF Next, everyVar
<1>1. ASSUME focus = "orders" PROVE OrdersInductive'
  <2>1. Checks!ChecksNext \/ UNCHANGED checksVars BY <1>1 DEF Next, everyVar
  <2>. QED BY <1>1, <2>1, OrdersStep DEF ChecksInductive
<1>2. ASSUME focus = "options" PROVE asked' \in [groups : OptionGroups, chosen : Choices]
  <2>1. asked \in [groups : OptionGroups, chosen : Choices]
    BY <1>2 DEF ChecksInductive
  <2>2. Checks!Ask \/ asked' = asked BY <1>2 DEF Next, everyVar, checksVars
  <2>3. ASSUME Checks!Ask PROVE asked' \in [groups : OptionGroups, chosen : Choices]
    BY <2>1, <2>3 DEF Checks!Ask
  <2>. QED BY <2>1, <2>2, <2>3
<1>3. ASSUME focus = "hours" PROVE HoursInductive'
  <2>1. [Opening!HoursNext]_openingVars BY <1>3 DEF Next, everyVar
  <2>. QED BY <1>3, <2>1, HoursStep DEF ChecksInductive
<1>. QED BY <1>0, <1>1, <1>2, <1>3 DEF ChecksInductive

\* No more of a product is completed on a day than its limit, of the orders that
\* were checked while no other was open; a customer is told beforehand what the
\* order will say and cost; and a schedule whose request ran alone is in force.
THEOREM ChecksAreSound == Spec => []ChecksSound
<1>1. ChecksInductive => ChecksSound
  BY LimitIsKept, OptionsAreAgreed, ReadersAgreeAlways, HoursAreSettled
     DEF ChecksInductive, ChecksSound, Checks!CustomersTold
<1>. QED BY ChecksStart, ChecksStepOfEach, <1>1, PTL DEF Spec

-----------------------------------------------------------------------------
(* Orders and their items.                                                 *)

Fields == {"items", "subtotal", "tax", "total", "quoted", "changed", "paymentStatus", "charged"}

RowWhole(o) ==
    LET row == order[o]
    IN  /\ DOMAIN row = Fields /\ row.subtotal \in Int
        /\ row.paymentStatus \in {"PENDING", "PAID"}
        /\ IsFiniteSet(DOMAIN row.items)
        /\ \A i \in DOMAIN row.items : row.items[i] \in Items!Lines

RowAddsUp(o) ==
    LET row == order[o]
    IN  /\ DOMAIN row.items # {}
        /\ row.subtotal = Items!SumOf(row.items)
        /\ IF row.changed THEN row.total = row.subtotal + Items!Percent(10, row.subtotal)
                          ELSE row.total = row.quoted
        /\ row.paymentStatus = "PAID" => row.charged = row.total

\* A request that changes an order.
ChangesOrder(r, o) == request[r].op = "change" /\ request[r].of = o

RequestWhole(r) ==
    LET c == request[r]
    IN  /\ c.op \in {"idle", "create", "store", "change"}
        /\ c.op = "idle" => c = Items!NoRequest
        /\ c.op = "change" => /\ c.of \in Items!Created /\ c.quantity \in {0, 1}
                              /\ c.saw \in Items!Lines /\ c.subtotal \in Int

\* What it read is still so, and it is the only one.
ChangeFits(r) ==
    LET c == request[r]
        row == order[c.of]
    IN  /\ row.paymentStatus = "PENDING" /\ row.subtotal = c.subtotal
        /\ c.item \in DOMAIN row.items /\ row.items[c.item] = c.saw
        /\ c.quantity = 0 => \E j \in DOMAIN row.items : j # c.item
        /\ \A q \in Hands \ {r} : ~ChangesOrder(q, c.of)

Makes(r) == request[r].op \in {"create", "store"}

KeyFits ==
    /\ \A q, r \in Hands : Makes(q) /\ Makes(r) => q = r
    /\ \A r \in Hands : request[r].op = "create" => key = "none" /\ Items!Created = {}
    /\ \A r \in Hands : request[r].op = "store" => key = "none" /\ Items!Created = {request[r].made}
    /\ key # "none" => Items!Created = {key}
    /\ key = "none" /\ (\A r \in Hands : request[r].op # "store") => Items!Created = {}

RowsTyped ==
    /\ DOMAIN order = Cards /\ DOMAIN request = Hands /\ repeated \in BOOLEAN /\ lapped \subseteq Cards
    /\ \A o \in Items!Created : RowWhole(o)
    /\ \A r \in Hands : RequestWhole(r)

ItemsInductive ==
    /\ RowsTyped
    /\ \A r \in Hands : request[r].op = "change" /\ request[r].of \notin lapped => ChangeFits(r)
    /\ ~repeated => KeyFits
    /\ \A o \in Items!Created \ lapped : RowAddsUp(o)

LEMMA FiniteInItems == \A S : (Items!IsFiniteSet(S) <=> IsFiniteSet(S)) /\ Items!Cardinality(S) = Cardinality(S)
  BY DEF Items!IsFiniteSet, Items!Cardinality, IsFiniteSet, Cardinality

LEMMA SumsOfItems ==
    \A f : Items!Total(f) = SumFunctionOnSet(f, DOMAIN f)
  BY DEF Items!Total, Items!SumFunction, Items!SumFunctionOnSet, Items!FoldFunctionOnSet,
         Items!MapThenFoldSet, SumFunctionOnSet, FoldFunctionOnSet, MapThenFoldSet

LEMMA ItemsFacts ==
    /\ IsFiniteSet(Cards) /\ "none" \notin Cards
    /\ ItemBaskets \subseteq Seq(Items!Lines) \ {<<>>}
    /\ TaxRate \in Nat /\ ServiceRate \in Nat
  BY BackOfficeAssumption, FiniteInItems DEF Items!ItemsAssumption

LEMMA CreatedIs == Items!Created = {o \in Cards : order[o] # Items!NoOrder}
  BY DEF Items!Created

LEMMA KeyImpliesOnce ==
    ASSUME ItemsInductive
    PROVE  Items!KeyedOnce
<1> SUFFICES ASSUME ~repeated PROVE ~(Cardinality(Items!Created) > 1)
  BY FiniteInItems DEF Items!KeyedOnce, ItemsInductive, RowsTyped
<1>1. Items!Created = {} \/ \E o : Items!Created = {o}
  BY DEF ItemsInductive, KeyFits
<1>2. CASE Items!Created = {}
  <2>1. Cardinality(Items!Created) = 0 BY <1>2, FS_EmptySet
  <2>. QED BY <2>1
<1>3. CASE \E o : Items!Created = {o}
  <2>1. PICK o : Items!Created = {o} BY <1>3
  <2>2. Cardinality({o}) = 1 BY FS_Singleton
  <2>. QED BY <2>1, <2>2
<1>. QED BY <1>1, <1>2, <1>3

LEMMA ItemsSound ==
    ASSUME ItemsInductive
    PROVE  Items!OrdersSound
<1>1. Items!OrderAddsUp BY DEF Items!OrderAddsUp, ItemsInductive, RowAddsUp
<1>. QED BY <1>1, KeyImpliesOnce DEF Items!OrdersSound

LEMMA ItemsInitInductive ==
    ASSUME Items!Init
    PROVE  ItemsInductive
<1>1. /\ order = [o \in Cards |-> Items!NoOrder] /\ request = [r \in Hands |-> Items!NoRequest]
      /\ key = "none" /\ lapped = {} /\ repeated = FALSE
  BY DEF Items!Init
<1>2. Items!Created = {} BY <1>1, CreatedIs
<1>3. \A r \in Hands : request[r] = Items!NoRequest /\ request[r].op = "idle"
  BY <1>1 DEF Items!NoRequest
<1>4. RowsTyped BY <1>1, <1>2, <1>3 DEF RowsTyped, RequestWhole
<1>5. KeyFits BY <1>1, <1>2, <1>3 DEF KeyFits, Makes
<1>. QED BY <1>1, <1>2, <1>3, <1>4, <1>5 DEF ItemsInductive

LEMMA CreatedStays ==
    ASSUME order' = order
    PROVE  /\ Items!Created' = Items!Created
           /\ \A o : RowWhole(o)' <=> RowWhole(o)
           /\ \A o : RowAddsUp(o)' <=> RowAddsUp(o)
  BY DEF Items!Created, RowWhole, RowAddsUp

\* A request that begins or ends without a change to an order.
LEMMA OrderRequestMoves ==
    ASSUME ItemsInductive, NEW r \in Hands, NEW c, order' = order, lapped' = lapped,
           c.op \in {"idle", "create", "store"}, c.op = "idle" => c = Items!NoRequest,
           request' = [request EXCEPT ![r] = c], repeated' \in BOOLEAN
    PROVE  /\ RowsTyped'
           /\ \A q \in Hands : request'[q].op = "change" /\ request'[q].of \notin lapped' => ChangeFits(q)'
           /\ \A o \in Items!Created' \ lapped' : RowAddsUp(o)'
           /\ \A q \in Hands : request'[q] = IF q = r THEN c ELSE request[q]
<1>1. \A q \in Hands : request'[q] = IF q = r THEN c ELSE request[q]
  BY DEF ItemsInductive, RowsTyped
<1>2. DOMAIN request' = Hands BY DEF ItemsInductive, RowsTyped
<1>3. ASSUME NEW q \in Hands PROVE RequestWhole(q)'
  BY <1>1, CreatedStays DEF ItemsInductive, RowsTyped, RequestWhole
<1>4. RowsTyped' BY <1>2, <1>3, CreatedStays DEF ItemsInductive, RowsTyped
<1>5. \A q \in Hands : \A o : ChangesOrder(q, o)' => ChangesOrder(q, o)
  BY <1>1 DEF ChangesOrder
<1>6. ASSUME NEW q \in Hands, request'[q].op = "change", request'[q].of \notin lapped'
      PROVE  ChangeFits(q)'
  <2>1. request'[q] = request[q] /\ ChangeFits(q)
    BY <1>1, <1>6 DEF ItemsInductive
  <2>. QED BY <1>5, <2>1 DEF ChangeFits
<1>. QED BY <1>1, <1>4, <1>6, CreatedStays DEF ItemsInductive

LEMMA CheckKeyInductive ==
    ASSUME ItemsInductive, NEW r \in Hands, Items!CheckKey(r)
    PROVE  ItemsInductive'
<1>1. /\ key = "none" /\ request[r] = Items!NoRequest
      /\ request' = [request EXCEPT ![r] = [op |-> "create"]]
      /\ repeated' = (repeated \/ \E q \in Hands : Makes(q))
      /\ order' = order /\ key' = key /\ lapped' = lapped
  BY DEF Items!CheckKey, Items!Begin, Makes
<1>2. repeated' \in BOOLEAN
  <2>1. PICK b \in BOOLEAN : b = (\E q \in Hands : Makes(q)) OBVIOUS
  <2>. QED BY <1>1, <2>1 DEF ItemsInductive, RowsTyped
<1>3. /\ RowsTyped'
      /\ \A q \in Hands : request'[q].op = "change" /\ request'[q].of \notin lapped' => ChangeFits(q)'
      /\ \A o \in Items!Created' \ lapped' : RowAddsUp(o)'
      /\ \A q \in Hands : request'[q] = IF q = r THEN [op |-> "create"] ELSE request[q]
  BY <1>1, <1>2, OrderRequestMoves
<1>4. ASSUME ~repeated' PROVE KeyFits'
  <2>1. KeyFits /\ \A q \in Hands : ~Makes(q) BY <1>1, <1>4 DEF ItemsInductive
  <2>2. \A q \in Hands : request[q].op \notin {"create", "store"}
    BY <2>1 DEF Makes
  <2>3. Items!Created = {} BY <1>1, <2>1, <2>2 DEF KeyFits
  <2>4. Items!Created' = {} BY <1>1, <2>3, CreatedStays
  <2>. QED BY <1>1, <1>3, <2>2, <2>4 DEF KeyFits, Makes
<1>. QED BY <1>3, <1>4 DEF ItemsInductive

LEMMA StoreKeyInductive ==
    ASSUME ItemsInductive, NEW r \in Hands, Items!StoreKey(r)
    PROVE  ItemsInductive'
<1>1. /\ request[r].op = "store" /\ key' = IF key = "none" THEN request[r].made ELSE key
      /\ request' = [request EXCEPT ![r] = Items!NoRequest]
      /\ order' = order /\ repeated' = repeated /\ lapped' = lapped
  BY DEF Items!StoreKey, Items!Done
<1>2. repeated' \in BOOLEAN BY <1>1 DEF ItemsInductive, RowsTyped
<1>3. /\ RowsTyped'
      /\ \A q \in Hands : request'[q].op = "change" /\ request'[q].of \notin lapped' => ChangeFits(q)'
      /\ \A o \in Items!Created' \ lapped' : RowAddsUp(o)'
      /\ \A q \in Hands : request'[q] = IF q = r THEN Items!NoRequest ELSE request[q]
  BY <1>1, <1>2, OrderRequestMoves DEF Items!NoRequest
<1>4. ASSUME ~repeated' PROVE KeyFits'
  <2>1. KeyFits /\ key = "none" /\ Items!Created = {request[r].made}
    BY <1>1, <1>4 DEF ItemsInductive, KeyFits
  <2>2. Items!Created' = {key'} /\ key' # "none"
    BY <1>1, <2>1, CreatedStays, CreatedIs, ItemsFacts
  <2>3. \A q \in Hands : request'[q].op \notin {"create", "store"}
    BY <1>1, <1>3, <2>1 DEF KeyFits, Makes, Items!NoRequest
  <2>. QED BY <2>2, <2>3 DEF KeyFits, Makes
<1>. QED BY <1>3, <1>4 DEF ItemsInductive

LEMMA FailInductive ==
    ASSUME ItemsInductive, NEW r \in Hands, Items!Fail(r)
    PROVE  ItemsInductive'
<1>1. /\ request' = [request EXCEPT ![r] = Items!NoRequest]
      /\ repeated' = (repeated \/ request[r].op = "store")
      /\ order' = order /\ key' = key /\ lapped' = lapped
  BY DEF Items!Fail, Items!Done
<1>2. repeated' \in BOOLEAN BY <1>1 DEF ItemsInductive, RowsTyped
<1>3. /\ RowsTyped'
      /\ \A q \in Hands : request'[q].op = "change" /\ request'[q].of \notin lapped' => ChangeFits(q)'
      /\ \A o \in Items!Created' \ lapped' : RowAddsUp(o)'
      /\ \A q \in Hands : request'[q] = IF q = r THEN Items!NoRequest ELSE request[q]
  BY <1>1, <1>2, OrderRequestMoves DEF Items!NoRequest
<1>4. ASSUME ~repeated' PROVE KeyFits'
  <2>1. KeyFits /\ request[r].op # "store" BY <1>1, <1>4 DEF ItemsInductive
  <2>2. \A q \in Hands : request'[q].op \in {"create", "store"} => q # r /\ request'[q] = request[q]
    BY <1>3 DEF Items!NoRequest
  <2>3. Items!Created' = Items!Created BY <1>1, CreatedStays
  <2>4. (\A q \in Hands : request'[q].op # "store") => \A q \in Hands : request[q].op # "store"
    BY <1>3, <2>1
  <2>. QED BY <1>1, <2>1, <2>2, <2>3, <2>4 DEF KeyFits, Makes
<1>. QED BY <1>3, <1>4 DEF ItemsInductive

LEMMA KeyExpiresInductive ==
    ASSUME ItemsInductive, Items!KeyExpires
    PROVE  ItemsInductive'
<1>1. repeated' = TRUE /\ order' = order /\ request' = request /\ lapped' = lapped
  BY DEF Items!KeyExpires
<1>2. RowsTyped'
  BY <1>1, CreatedStays DEF ItemsInductive, RowsTyped, RequestWhole
<1>3. \A q \in Hands : request'[q].op = "change" /\ request'[q].of \notin lapped' => ChangeFits(q)'
  BY <1>1 DEF ItemsInductive, ChangeFits, ChangesOrder
<1>4. \A o \in Items!Created' \ lapped' : RowAddsUp(o)'
  BY <1>1, CreatedStays DEF ItemsInductive
<1>. QED BY <1>1, <1>2, <1>3, <1>4 DEF ItemsInductive

LEMMA ChangeReadInductive ==
    ASSUME ItemsInductive, NEW r \in Hands, NEW o \in Items!Created,
           NEW i \in DOMAIN order[o].items, NEW n \in {0, 1}, Items!ChangeRead(r, o, i, n)
    PROVE  ItemsInductive'
<1> DEFINE c == [op |-> "change", of |-> o, item |-> i, saw |-> order[o].items[i],
                 subtotal |-> order[o].subtotal, quantity |-> n]
<1>1. /\ order[o].paymentStatus = "PENDING"
      /\ n = 0 => Cardinality(DOMAIN order[o].items) > 1
      /\ request[r] = Items!NoRequest /\ request' = [request EXCEPT ![r] = c]
      /\ lapped' = IF Items!Changing(o) THEN lapped \union {o} ELSE lapped
      /\ order' = order /\ key' = key /\ repeated' = repeated
  BY FiniteInItems DEF Items!ChangeRead, Items!Begin
<1>2. /\ c.op = "change" /\ c.of = o /\ c.item = i /\ c.saw = order[o].items[i]
      /\ c.subtotal = order[o].subtotal /\ c.quantity = n
  OBVIOUS
<1> HIDE DEF c
<1>3. DOMAIN request' = Hands /\ \A q \in Hands : request'[q] = IF q = r THEN c ELSE request[q]
  BY <1>1 DEF ItemsInductive, RowsTyped
<1>4. RowWhole(o) /\ o \in Cards BY CreatedIs DEF ItemsInductive, RowsTyped
<1>5. RowsTyped'
  <2>1. lapped' \subseteq Cards BY <1>1, <1>4 DEF ItemsInductive, RowsTyped
  <2>2. ASSUME NEW q \in Hands PROVE RequestWhole(q)'
    <3>1. CASE q = r
      <4>1. c.saw \in Items!Lines /\ c.subtotal \in Int
        BY <1>2, <1>4 DEF RowWhole
      <4>. QED BY <1>1, <1>2, <1>3, <3>1, <4>1, CreatedStays DEF RequestWhole
    <3>2. CASE q # r
      BY <1>1, <1>3, <3>2, CreatedStays DEF ItemsInductive, RowsTyped, RequestWhole
    <3>. QED BY <3>1, <3>2
  <2>. QED BY <1>1, <1>3, <2>1, <2>2, CreatedStays DEF ItemsInductive, RowsTyped
<1>6. \A q \in Hands, p \in Cards : ChangesOrder(q, p)' <=> (q = r /\ p = o) \/ (q # r /\ ChangesOrder(q, p))
  BY <1>2, <1>3 DEF ChangesOrder
<1>7. ASSUME NEW q \in Hands, request'[q].op = "change", request'[q].of \notin lapped'
      PROVE  ChangeFits(q)'
  <2>1. CASE q = r
    <3>1. request'[q] = c BY <1>3, <2>1
    <3>2. ~Items!Changing(o) BY <1>1, <1>2, <1>7, <3>1
    <3>3. \A h \in Hands : ~ChangesOrder(h, o)
      BY <3>2 DEF Items!Changing, ChangesOrder
    <3>4. \A h \in Hands \ {r} : ~ChangesOrder(h, o)' BY <1>4, <1>6, <3>3
    <3>5. ASSUME n = 0 PROVE \E j \in DOMAIN order[o].items : j # i
      <4>1. SUFFICES ASSUME DOMAIN order[o].items = {i} PROVE FALSE OBVIOUS
      <4>2. Cardinality({i}) = 1 BY FS_Singleton
      <4>. QED BY <1>1, <3>5, <4>1, <4>2
    <3>. QED BY <1>1, <1>2, <2>1, <3>1, <3>4, <3>5 DEF ChangeFits
  <2>2. CASE q # r
    <3>1. request'[q] = request[q] /\ ChangeFits(q) /\ request[q].of \in Cards
      BY <1>1, <1>3, <1>7, <2>2, CreatedIs DEF ItemsInductive, RowsTyped, RequestWhole
    <3>2. request[q].of # o
      <4>1. SUFFICES ASSUME request[q].of = o PROVE FALSE OBVIOUS
      <4>2. Items!Changing(o) BY <1>7, <3>1, <4>1 DEF Items!Changing
      <4>. QED BY <1>1, <1>7, <3>1, <4>1, <4>2
    <3>. QED BY <1>1, <1>6, <3>1, <3>2 DEF ChangeFits
  <2>. QED BY <2>1, <2>2
<1>8. ~repeated' => KeyFits'
  <2>1. SUFFICES ASSUME ~repeated PROVE KeyFits' BY <1>1
  <2>2. KeyFits BY <2>1 DEF ItemsInductive
  <2>3. \A q \in Hands : request'[q].op \in {"create", "store"} => q # r /\ request'[q] = request[q]
    BY <1>2, <1>3
  <2>4. (\A q \in Hands : request'[q].op # "store") => \A q \in Hands : request[q].op # "store"
    BY <1>1, <1>3 DEF Items!NoRequest
  <2>5. Items!Created' = Items!Created BY <1>1, CreatedStays
  <2>. QED BY <1>1, <2>2, <2>3, <2>4, <2>5 DEF KeyFits, Makes
<1>9. \A p \in Items!Created' \ lapped' : RowAddsUp(p)'
  BY <1>1, CreatedStays DEF ItemsInductive
<1>. QED BY <1>5, <1>7, <1>8, <1>9 DEF ItemsInductive

LEMMA PayInductive ==
    ASSUME ItemsInductive, NEW o \in Cards, Items!Pay(o)
    PROVE  ItemsInductive'
<1> DEFINE row == [order[o] EXCEPT !.paymentStatus = "PAID", !.charged = order[o].total]
<1>1. /\ o \in Items!Created /\ order[o].paymentStatus = "PENDING"
      /\ order' = [order EXCEPT ![o] = row]
      /\ lapped' = IF Items!Changing(o) THEN lapped \union {o} ELSE lapped
      /\ request' = request /\ key' = key /\ repeated' = repeated
  BY DEF Items!Pay
<1>2. RowWhole(o) BY <1>1 DEF ItemsInductive, RowsTyped
<1>3. /\ DOMAIN row = Fields /\ row.paymentStatus = "PAID" /\ row.charged = order[o].total
      /\ row.items = order[o].items /\ row.subtotal = order[o].subtotal
      /\ row.total = order[o].total /\ row.changed = order[o].changed /\ row.quoted = order[o].quoted
  BY <1>2 DEF RowWhole, Fields
<1> HIDE DEF row
<1>4. DOMAIN order' = Cards /\ \A p \in Cards : order'[p] = IF p = o THEN row ELSE order[p]
  BY <1>1 DEF ItemsInductive, RowsTyped
<1>5. Items!Created' = Items!Created
  <2>1. row # Items!NoOrder BY <1>3 DEF Items!NoOrder
  <2>. QED BY <1>1, <1>4, <2>1 DEF Items!Created
<1>6. ASSUME NEW p \in Items!Created PROVE RowWhole(p)' /\ p \in Cards
  <2>1. RowWhole(p) /\ p \in Cards BY CreatedIs DEF ItemsInductive, RowsTyped
  <2>2. CASE p = o BY <1>2, <1>3, <1>4, <2>1, <2>2 DEF RowWhole
  <2>3. CASE p # o BY <1>4, <2>1, <2>3 DEF RowWhole
  <2>. QED BY <2>1, <2>2, <2>3
<1>7. RowsTyped'
  BY <1>1, <1>4, <1>5, <1>6 DEF ItemsInductive, RowsTyped, RequestWhole
<1>8. ASSUME NEW q \in Hands, request[q].op = "change", request[q].of \notin lapped'
      PROVE  ChangeFits(q)'
  <2>1. ChangeFits(q) /\ request[q].of \in Cards
    BY <1>1, <1>8, CreatedIs DEF ItemsInductive, RowsTyped, RequestWhole
  <2>2. request[q].of # o BY <1>1, <1>8 DEF Items!Changing
  <2>3. order'[request[q].of] = order[request[q].of] BY <1>4, <2>1, <2>2
  <2>. QED BY <1>1, <2>1, <2>3 DEF ChangeFits, ChangesOrder
<1>9. ASSUME NEW p \in Items!Created \ lapped' PROVE RowAddsUp(p)'
  <2>1. RowAddsUp(p) /\ p \in Cards BY <1>1, <1>6 DEF ItemsInductive
  <2>2. CASE p = o BY <1>3, <1>4, <2>1, <2>2 DEF RowAddsUp
  <2>3. CASE p # o BY <1>4, <2>1, <2>3 DEF RowAddsUp
  <2>. QED BY <2>2, <2>3
<1>10. ~repeated' => KeyFits' BY <1>1, <1>5 DEF ItemsInductive, KeyFits, Makes
<1>. QED BY <1>1, <1>5, <1>7, <1>8, <1>9, <1>10 DEF ItemsInductive

\* An order is made or changed: the others, and their requests, are as they were.
LEMMA OneOrderChanges ==
    ASSUME ItemsInductive, NEW o \in Cards, NEW row, row # Items!NoOrder,
           order' = [order EXCEPT ![o] = row],
           DOMAIN row = Fields, row.subtotal \in Int, row.paymentStatus \in {"PENDING", "PAID"},
           IsFiniteSet(DOMAIN row.items), \A i \in DOMAIN row.items : row.items[i] \in Items!Lines
    PROVE  /\ DOMAIN order' = Cards /\ order'[o] = row
           /\ \A p \in Cards \ {o} : order'[p] = order[p]
           /\ Items!Created' = Items!Created \union {o} /\ Items!Created \subseteq Cards
           /\ \A p \in Items!Created' : RowWhole(p)'
           /\ \A p \in Items!Created \ ({o} \union lapped) : RowAddsUp(p)'
           /\ \A q \in Hands : request[q].op = "change" /\ request[q].of \notin {o} \union lapped
                  => ChangeFits(q) /\ order'[request[q].of] = order[request[q].of]
<1>1. DOMAIN order' = Cards /\ order'[o] = row /\ \A p \in Cards \ {o} : order'[p] = order[p]
  BY DEF ItemsInductive, RowsTyped
<1>2. Items!Created' = Items!Created \union {o} /\ Items!Created \subseteq Cards
  BY <1>1 DEF Items!Created
<1>3. ASSUME NEW p \in Items!Created' PROVE RowWhole(p)'
  <2>1. CASE p = o BY <1>1, <2>1 DEF RowWhole
  <2>2. CASE p # o
    BY <1>1, <1>2, <1>3, <2>2 DEF ItemsInductive, RowsTyped, RowWhole
  <2>. QED BY <2>1, <2>2
<1>4. \A p \in Items!Created \ ({o} \union lapped) : RowAddsUp(p)'
  BY <1>1, <1>2 DEF ItemsInductive, RowAddsUp
<1>5. ASSUME NEW q \in Hands, request[q].op = "change", request[q].of \notin {o} \union lapped
      PROVE  ChangeFits(q) /\ order'[request[q].of] = order[request[q].of]
  BY <1>1, <1>2, <1>5 DEF ItemsInductive, RowsTyped, RequestWhole
<1>. QED BY <1>1, <1>2, <1>3, <1>4, <1>5

LEMMA SumOfIs ==
    ASSUME NEW items
    PROVE  /\ Items!SumOf(items) = SumFunctionOnSet(Items!Subtotals(items), DOMAIN items)
           /\ \A i \in DOMAIN items : Items!Subtotals(items)[i] = items[i].unitPrice * items[i].quantity
  BY SumsOfItems DEF Items!SumOf, Items!Subtotals

LEMMA SubtotalInt ==
    ASSUME NEW line \in Items!Lines
    PROVE  line.unitPrice \in Nat /\ line.quantity \in Nat /\ line.unitPrice * line.quantity \in Int
<1>1. line.unitPrice \in Nat /\ line.quantity \in Nat BY DEF Items!Lines
<1>. QED BY <1>1

LEMMA CreateOrderInductive ==
    ASSUME ItemsInductive, NEW r \in Hands, Items!CreateOrder(r)
    PROVE  ItemsInductive'
<1>1. PICK o \in Cards \ Items!Created, basket \in ItemBaskets, coupon \in ItemCoupons :
          LET q == Items!Quote(basket, coupon, TaxRate, ServiceRate)
          IN  /\ order' = [order EXCEPT ![o] =
                   [items |-> [i \in DOMAIN basket |-> basket[i]], subtotal |-> q.subtotal,
                    tax |-> q.tax, total |-> q.total, quoted |-> q.total,
                    changed |-> FALSE, paymentStatus |-> "PENDING", charged |-> 0]]
              /\ request' = [request EXCEPT ![r] = [op |-> "store", made |-> o]]
  BY DEF Items!CreateOrder
<1>2. request[r].op = "create" /\ key' = key /\ lapped' = lapped /\ repeated' = repeated
  BY DEF Items!CreateOrder
<1> DEFINE quotation == Items!Quote(basket, coupon, TaxRate, ServiceRate)
           items == [i \in DOMAIN basket |-> basket[i]]
           row == [items |-> items, subtotal |-> quotation.subtotal,
                   tax |-> quotation.tax, total |-> quotation.total, quoted |-> quotation.total,
                   changed |-> FALSE, paymentStatus |-> "PENDING", charged |-> 0]
           c == [op |-> "store", made |-> o]
<1>3. quotation.subtotal = Items!Total(Items!Subtotals(basket))
  BY DEF Items!Quote
<1>4. /\ DOMAIN items = DOMAIN basket /\ DOMAIN items # {} /\ IsFiniteSet(DOMAIN items)
      /\ \A i \in DOMAIN items : items[i] = basket[i] /\ items[i] \in Items!Lines
  <2>1. basket \in Seq(Items!Lines) /\ basket # <<>> BY ItemsFacts
  <2>2. DOMAIN basket = 1 .. Len(basket) /\ Len(basket) \in Nat \ {0} BY <2>1
  <2> DEFINE n == Len(basket)
  <2>3. \A i \in DOMAIN basket : basket[i] \in Items!Lines BY <2>1, <2>2
  <2> HIDE DEF n
  <2>4. n \in Nat BY <2>2 DEF n
  <2>5. IsFiniteSet(1 .. n) BY <2>4, FS_Interval
  <2>. QED BY <2>2, <2>3, <2>5 DEF n
<1>5. Items!SumOf(items) = quotation.subtotal /\ quotation.subtotal \in Int
  <2>1. Items!Subtotals(items) = Items!Subtotals(basket)
    BY <1>4 DEF Items!Subtotals
  <2>2. Items!SumOf(items) = quotation.subtotal BY <1>3, <2>1 DEF Items!SumOf
  <2> HIDE DEF items, quotation
  <2>3. \A i \in DOMAIN items : Items!Subtotals(items)[i] \in Int
    BY <1>4, SumOfIs, SubtotalInt
  <2>4. Items!SumOf(items) \in Int BY <1>4, <2>3, SumOfIs, SumInt
  <2>. QED BY <2>2, <2>4
<1> HIDE DEF items, quotation
<1>6. /\ DOMAIN row = Fields /\ row.items = items /\ row.subtotal = quotation.subtotal
      /\ row.total = row.quoted /\ row.changed = FALSE /\ row.paymentStatus = "PENDING"
  BY DEF Fields
<1>7. row # Items!NoOrder BY <1>6 DEF Items!NoOrder
<1>8. c.op = "store" /\ c.made = o OBVIOUS
<1>9. order' = [order EXCEPT ![o] = row] /\ request' = [request EXCEPT ![r] = c]
  BY <1>1 DEF items, quotation
<1> HIDE DEF row, c
<1>10. DOMAIN request' = Hands /\ \A q \in Hands : request'[q] = IF q = r THEN c ELSE request[q]
  BY <1>9 DEF ItemsInductive, RowsTyped
<1>11. /\ DOMAIN order' = Cards /\ order'[o] = row
       /\ \A p \in Cards \ {o} : order'[p] = order[p]
       /\ Items!Created' = Items!Created \union {o} /\ Items!Created \subseteq Cards
       /\ \A p \in Items!Created' : RowWhole(p)'
       /\ \A p \in Items!Created \ ({o} \union lapped) : RowAddsUp(p)'
       /\ \A q \in Hands : request[q].op = "change" /\ request[q].of \notin {o} \union lapped
              => ChangeFits(q) /\ order'[request[q].of] = order[request[q].of]
  BY <1>4, <1>5, <1>6, <1>7, <1>9, OneOrderChanges
<1>12. RowsTyped'
  <2>1. ASSUME NEW q \in Hands PROVE RequestWhole(q)'
    BY <1>8, <1>10, <1>11 DEF ItemsInductive, RowsTyped, RequestWhole
  <2>. QED BY <1>2, <1>10, <1>11, <2>1 DEF ItemsInductive, RowsTyped
<1>13. ASSUME NEW q \in Hands, request'[q].op = "change", request'[q].of \notin lapped'
       PROVE  ChangeFits(q)'
  <2>1. request'[q] = request[q] BY <1>8, <1>10, <1>13
  <2>2. request[q].of \in Items!Created
    BY <1>13, <2>1 DEF ItemsInductive, RowsTyped, RequestWhole
  <2>3. ChangeFits(q) /\ order'[request[q].of] = order[request[q].of]
    BY <1>1, <1>2, <1>11, <1>13, <2>1, <2>2
  <2>4. \A h \in Hands : \A p : ChangesOrder(h, p)' => ChangesOrder(h, p)
    BY <1>8, <1>10 DEF ChangesOrder
  <2>. QED BY <2>1, <2>3, <2>4 DEF ChangeFits
<1>14. RowAddsUp(o)' BY <1>4, <1>5, <1>6, <1>11 DEF RowAddsUp
<1>15. ~repeated' => KeyFits'
  <2>1. SUFFICES ASSUME ~repeated PROVE KeyFits' BY <1>2
  <2>2. KeyFits BY <2>1 DEF ItemsInductive
  <2>3. key = "none" /\ Items!Created = {} /\ \A q \in Hands : Makes(q) => q = r
    BY <1>2, <2>2 DEF KeyFits, Makes
  <2>4. \A q \in Hands : request'[q].op \in {"create", "store"} => q = r /\ request'[q] = c
    BY <1>10, <2>3 DEF Makes
  <2>5. Items!Created' = {o} BY <1>11, <2>3
  <2>. QED BY <1>2, <1>8, <1>10, <2>3, <2>4, <2>5 DEF KeyFits, Makes
<1>. QED BY <1>2, <1>11, <1>12, <1>13, <1>14, <1>15 DEF ItemsInductive

LEMMA ChangeWriteInductive ==
    ASSUME ItemsInductive, NEW r \in Hands, Items!ChangeWrite(r)
    PROVE  ItemsInductive'
<1>1. PICK o, i, n, saw, seen :
          /\ o = request[r].of /\ i = request[r].item /\ n = request[r].quantity
          /\ saw = request[r].saw /\ seen = request[r].subtotal
  OBVIOUS
<1> DEFINE held == order[o].items
           subtotal == seen - (saw.quantity - n) * saw.unitPrice
           kept == IF n = 0 THEN DOMAIN held \ {i} ELSE DOMAIN held
           items == [j \in kept |-> IF j = i THEN [held[j] EXCEPT !.quantity = n] ELSE held[j]]
           tax == Items!Percent(10, subtotal)
           row == [order[o] EXCEPT !.items = items, !.subtotal = subtotal, !.tax = tax,
                                   !.total = subtotal + tax, !.changed = TRUE]
<1>2. /\ request[r].op = "change" /\ i \in DOMAIN held
      /\ order' = [order EXCEPT ![o] = row]
      /\ request' = [request EXCEPT ![r] = Items!NoRequest]
      /\ key' = key /\ lapped' = lapped /\ repeated' = repeated
  BY <1>1 DEF Items!ChangeWrite, Items!NewSubtotal, Items!Done
<1>3. /\ o \in Items!Created /\ o \in Cards /\ RowWhole(o)
      /\ n \in {0, 1} /\ saw \in Items!Lines /\ seen \in Int
  BY <1>1, <1>2, CreatedIs DEF ItemsInductive, RowsTyped, RequestWhole
<1>4. subtotal \in Int
  <2>1. saw.unitPrice \in Nat /\ saw.quantity \in Nat BY <1>3, SubtotalInt
  <2>2. PICK k \in Int : k = saw.quantity - n BY <1>3, <2>1
  <2>3. k * saw.unitPrice \in Int BY <2>1, <2>2
  <2>. QED BY <1>3, <2>2, <2>3
<1>5. /\ DOMAIN items = kept /\ kept \subseteq DOMAIN held /\ IsFiniteSet(kept)
      /\ \A j \in kept : items[j] = IF j = i THEN [held[j] EXCEPT !.quantity = n] ELSE held[j]
  <2>1. kept \subseteq DOMAIN held /\ IsFiniteSet(DOMAIN held)
    BY <1>3 DEF RowWhole
  <2>2. IsFiniteSet(kept) BY <2>1, FS_Subset
  <2>. QED BY <2>1, <2>2
<1>6. /\ \A j \in DOMAIN held : held[j] \in Items!Lines
      /\ \A j \in kept : items[j] \in Items!Lines
      /\ i \in kept => items[i].unitPrice = held[i].unitPrice /\ items[i].quantity = n
  <2>1. \A j \in DOMAIN held : held[j] \in Items!Lines BY <1>3 DEF RowWhole
  <2>2. [held[i] EXCEPT !.quantity = n] \in Items!Lines
        /\ [held[i] EXCEPT !.quantity = n].unitPrice = held[i].unitPrice
        /\ [held[i] EXCEPT !.quantity = n].quantity = n
    BY <1>2, <1>3, <2>1 DEF Items!Lines
  <2>. QED BY <1>5, <2>1, <2>2
<1>7. /\ DOMAIN row = Fields /\ row.items = items /\ row.subtotal = subtotal
      /\ row.total = subtotal + tax /\ row.changed = TRUE
      /\ row.paymentStatus = order[o].paymentStatus /\ row.paymentStatus \in {"PENDING", "PAID"}
  <2>1. DOMAIN order[o] = Fields /\ order[o].paymentStatus \in {"PENDING", "PAID"}
    BY <1>3 DEF RowWhole
  <2> HIDE DEF items, subtotal, tax
  <2>. QED BY <2>1 DEF Fields
<1>8. row # Items!NoOrder BY <1>7 DEF Items!NoOrder
<1> HIDE DEF items, row, subtotal, tax, kept
<1>8a. /\ IsFiniteSet(DOMAIN row.items) /\ \A j \in DOMAIN row.items : row.items[j] \in Items!Lines
       /\ row.subtotal \in Int
  BY <1>4, <1>5, <1>6, <1>7
<1>9. /\ DOMAIN order' = Cards /\ order'[o] = row
      /\ \A p \in Cards \ {o} : order'[p] = order[p]
      /\ Items!Created' = Items!Created \union {o} /\ Items!Created \subseteq Cards
      /\ \A p \in Items!Created' : RowWhole(p)'
      /\ \A p \in Items!Created \ ({o} \union lapped) : RowAddsUp(p)'
      /\ \A q \in Hands : request[q].op = "change" /\ request[q].of \notin {o} \union lapped
             => ChangeFits(q) /\ order'[request[q].of] = order[request[q].of]
  BY <1>2, <1>3, <1>7, <1>8, <1>8a, OneOrderChanges
<1>10. Items!Created' = Items!Created BY <1>3, <1>9
<1>11. DOMAIN request' = Hands /\ \A q \in Hands : request'[q] = IF q = r THEN Items!NoRequest ELSE request[q]
  BY <1>2 DEF ItemsInductive, RowsTyped
<1>12. RowsTyped'
  <2>1. ASSUME NEW q \in Hands PROVE RequestWhole(q)'
    BY <1>10, <1>11 DEF ItemsInductive, RowsTyped, RequestWhole, Items!NoRequest
  <2>. QED BY <1>2, <1>9, <1>11, <2>1 DEF ItemsInductive, RowsTyped
<1>13. ASSUME o \notin lapped
       PROVE  /\ ChangeFits(r) /\ RowAddsUp(o) /\ \A q \in Hands \ {r} : ~ChangesOrder(q, o)
  BY <1>1, <1>2, <1>3, <1>13 DEF ItemsInductive, ChangeFits
<1>14. ASSUME NEW q \in Hands, request'[q].op = "change", request'[q].of \notin lapped'
       PROVE  ChangeFits(q)'
  <2>1. request'[q] = request[q] /\ q # r BY <1>11, <1>14 DEF Items!NoRequest
  <2>2. request[q].of # o BY <1>2, <1>13, <1>14, <2>1 DEF ChangesOrder
  <2>3. ChangeFits(q) /\ order'[request[q].of] = order[request[q].of]
    BY <1>2, <1>9, <1>14, <2>1, <2>2
  <2>4. \A h \in Hands : \A p : ChangesOrder(h, p)' => ChangesOrder(h, p)
    BY <1>11 DEF ChangesOrder, Items!NoRequest
  <2>. QED BY <2>1, <2>3, <2>4 DEF ChangeFits
<1>15. ASSUME o \notin lapped PROVE RowAddsUp(o)'
  <2>1. /\ order[o].paymentStatus = "PENDING" /\ order[o].subtotal = seen
        /\ held[i] = saw
        /\ n = 0 => \E j \in DOMAIN held : j # i
    BY <1>1, <1>13, <1>15 DEF ChangeFits
  <2> DEFINE D == DOMAIN held
             olds == Items!Subtotals(held)
             news == Items!Subtotals(items)
  <2>2. /\ IsFiniteSet(D) /\ \A j \in D : olds[j] \in Int
        /\ olds[i] = saw.unitPrice * saw.quantity
    <3>1. \A j \in D : olds[j] = held[j].unitPrice * held[j].quantity BY SumOfIs
    <3>2. \A j \in D : held[j].unitPrice * held[j].quantity \in Int
      BY <1>6, SubtotalInt
    <3>3. IsFiniteSet(D) BY <1>3 DEF RowWhole
    <3>4. olds[i] = held[i].unitPrice * held[i].quantity BY <1>2, <3>1
    <3>5. held[i].unitPrice = saw.unitPrice /\ held[i].quantity = saw.quantity
      BY <2>1
    <3>6. olds[i] = saw.unitPrice * saw.quantity BY <3>4, <3>5
    <3>7. \A j \in D : olds[j] \in Int BY <3>1, <3>2
    <3>. QED BY <3>3, <3>6, <3>7
  <2>3. /\ \A j \in kept : news[j] \in Int /\ (j # i => news[j] = olds[j])
        /\ i \in kept => news[i] = saw.unitPrice * n
    <3>1. \A j \in kept : news[j] = items[j].unitPrice * items[j].quantity
      BY <1>5, SumOfIs
    <3>2. \A j \in kept : olds[j] = held[j].unitPrice * held[j].quantity
      BY <1>5, SumOfIs
    <3>3. \A j \in kept : j # i => items[j] = held[j] BY <1>5
    <3>4. \A j \in kept : news[j] \in Int BY <1>6, <3>1, SubtotalInt
    <3>5. \A j \in kept : j # i => news[j] = olds[j] BY <3>1, <3>2, <3>3
    <3>6. i \in kept => news[i] = saw.unitPrice * n
      <4>1. SUFFICES ASSUME i \in kept PROVE news[i] = saw.unitPrice * n OBVIOUS
      <4>2. news[i] = items[i].unitPrice * items[i].quantity BY <3>1, <4>1
      <4>3. items[i].unitPrice = saw.unitPrice /\ items[i].quantity = n
        BY <1>6, <2>1, <4>1
      <4>. QED BY <4>2, <4>3
    <3>. QED BY <3>4, <3>5, <3>6
  <2>4. /\ SumFunctionOnSet(olds, D) = seen
        /\ Items!SumOf(items) = SumFunctionOnSet(news, kept)
    BY <1>5, <1>13, <1>15, <2>1, SumOfIs DEF RowAddsUp
  <2> HIDE DEF D, olds, news
  <2>5. i \in D BY <1>2 DEF D
  <2>6. PICK u \in Nat, m \in Nat, t \in Int : u = saw.unitPrice /\ m = saw.quantity /\ t = u * m
    BY <1>3, SubtotalInt
  <2>7. ASSUME n = 0 PROVE subtotal = Items!SumOf(items) /\ kept # {}
    <3>1. kept = D \ {i} /\ i \notin kept BY <2>7 DEF D, kept
    <3>2. \A j \in kept : news[j] \in Int /\ news[j] = olds[j] BY <2>3, <3>1
    <3>3. SumFunctionOnSet(news, kept) = SumFunctionOnSet(olds, kept) /\ SumFunctionOnSet(news, kept) \in Int
      <4> HIDE DEF kept
      <4>. QED BY <1>5, <3>2, SumSame, SumInt
    <3>4. SumFunctionOnSet(olds, D) = olds[i] + SumFunctionOnSet(olds, D \ {i})
      BY <2>2, <2>5, SumRemove
    <3>5. seen = t + SumFunctionOnSet(news, kept)
      BY <2>2, <2>4, <2>6, <3>1, <3>3, <3>4
    <3>6. subtotal = seen - (m - 0) * u BY <2>6, <2>7 DEF subtotal
    <3>7. (m - 0) * u = t BY <2>6
    <3>8. subtotal = seen - t BY <3>6, <3>7
    <3>9. kept # {}
      <4>1. PICK j \in DOMAIN held : j # i BY <2>1, <2>7
      <4>. QED BY <3>1, <4>1 DEF D
    <3>10. subtotal = SumFunctionOnSet(news, kept)
      BY <1>3, <2>6, <3>3, <3>5, <3>8
    <3>. QED BY <2>4, <3>9, <3>10
  <2>8. ASSUME n = 1 PROVE subtotal = Items!SumOf(items) /\ kept # {}
    <3>1. kept = D BY <2>8 DEF D, kept
    <3>2. \A j \in D : news[j] \in Int BY <2>3, <3>1
    <3>3. \A j \in D : j # i => olds[j] = news[j] BY <2>3, <3>1
    <3>4. \A j \in D : olds[j] \in Int BY <2>2
    <3>5. SumFunctionOnSet(news, D) = SumFunctionOnSet(olds, D) - olds[i] + news[i]
      BY <2>2, <2>5, <3>2, <3>3, <3>4, SumChange
    <3>6. news[i] = u * 1 BY <2>3, <2>5, <2>6, <2>8, <3>1
    <3>7. subtotal = seen - (m - 1) * u BY <2>6, <2>8 DEF subtotal
    <3>8. (m - 1) * u = t - u BY <2>6
    <3>9. u * 1 = u OBVIOUS
    <3>10. subtotal = seen - (t - u) BY <3>7, <3>8
    <3>11. olds[i] = t /\ news[i] = u BY <2>2, <2>6, <3>6, <3>9
    <3>12. SumFunctionOnSet(news, D) = seen - t + u BY <2>4, <3>5, <3>11
    <3>. QED BY <1>3, <2>4, <2>5, <2>6, <3>1, <3>10, <3>12
  <2>9. subtotal = Items!SumOf(items) /\ kept # {} BY <1>3, <2>7, <2>8
  <2>. QED BY <1>5, <1>7, <1>9, <2>1, <2>9 DEF RowAddsUp, tax
<1>16. ~repeated' => KeyFits'
  <2>1. SUFFICES ASSUME ~repeated PROVE KeyFits' BY <1>2
  <2>2. KeyFits BY <2>1 DEF ItemsInductive
  <2>3. \A q \in Hands : request'[q].op \in {"create", "store"} => request'[q] = request[q]
    BY <1>11 DEF Items!NoRequest
  <2>4. (\A q \in Hands : request'[q].op # "store") => \A q \in Hands : request[q].op # "store"
    BY <1>2, <1>11
  <2>. QED BY <1>2, <1>10, <2>2, <2>3, <2>4 DEF KeyFits, Makes
<1>. QED BY <1>2, <1>10, <1>9, <1>12, <1>14, <1>15, <1>16 DEF ItemsInductive

LEMMA ItemsStep ==
    ASSUME ItemsInductive, Items!Next
    PROVE  ItemsInductive'
<1>1. ASSUME NEW r \in Hands,
             \/ Items!CheckKey(r) \/ Items!CreateOrder(r) \/ Items!StoreKey(r)
             \/ Items!ChangeWrite(r) \/ Items!Fail(r)
      PROVE  ItemsInductive'
  BY <1>1, CheckKeyInductive, CreateOrderInductive, StoreKeyInductive, ChangeWriteInductive,
     FailInductive
<1>2. ASSUME NEW r \in Hands, NEW o \in Items!Created, NEW i \in DOMAIN order[o].items,
             NEW n \in {0, 1}, Items!ChangeRead(r, o, i, n)
      PROVE  ItemsInductive'
  BY <1>2, ChangeReadInductive
<1>3. ASSUME NEW o \in Cards, Items!Pay(o) PROVE ItemsInductive'
  BY <1>3, PayInductive
<1>. QED BY <1>1, <1>2, <1>3, KeyExpiresInductive DEF Items!Next

-----------------------------------------------------------------------------
(* What an order costs.                                                    *)

LEMMA Division ==
    ASSUME NEW x \in Int, NEW e \in Nat \ {0}
    PROVE  x \div e \in Int /\ e * (x \div e) <= x /\ x < e * (x \div e) + e
  OBVIOUS

\* Rounding is off by no more than half.
LEMMA RoundNear ==
    ASSUME NEW n \in Int, NEW d \in Int, d # 0
    PROVE  /\ Prices!Round(n, d) \in Int
           /\ d > 0 => 2 * n - d <= 2 * (d * Prices!Round(n, d)) /\ 2 * (d * Prices!Round(n, d)) <= 2 * n + d
           /\ d < 0 => 2 * n + d <= 2 * (d * Prices!Round(n, d)) /\ 2 * (d * Prices!Round(n, d)) <= 2 * n - d
<1>1. CASE d > 0
  <2>1. PICK x \in Int, e \in Nat \ {0} : x = 2 * n + d /\ e = 2 * d BY <1>1
  <2>2. PICK q \in Int : q = x \div e /\ e * q <= x /\ x < e * q + e
    BY <2>1, Division
  <2>3. Prices!Round(n, d) = q BY <1>1, <2>1, <2>2 DEF Prices!Round
  <2>4. 2 * d * q <= 2 * n + d /\ 2 * n + d < 2 * d * q + 2 * d BY <2>1, <2>2
  <2>5. 2 * (d * q) = 2 * d * q /\ d * q \in Int OBVIOUS
  <2>. QED BY <1>1, <2>3, <2>4, <2>5
<1>2. CASE d < 0
  <2>1. PICK x \in Int, e \in Nat \ {0} : x = 2 * (-n) + (-d) /\ e = 2 * (-d)
    BY <1>2
  <2>2. PICK q \in Int : q = x \div e /\ e * q <= x /\ x < e * q + e
    BY <2>1, Division
  <2>3. Prices!Round(n, d) = q BY <1>2, <2>1, <2>2 DEF Prices!Round
  <2>4. 2 * (-d) * q <= 2 * (-n) + (-d) /\ 2 * (-n) + (-d) < 2 * (-d) * q + 2 * (-d)
    BY <2>1, <2>2
  <2>5. 2 * (-d) * q = -(2 * (d * q)) /\ d * q \in Int OBVIOUS
  <2>. QED BY <1>2, <2>3, <2>4, <2>5
<1>. QED BY <1>1, <1>2

LEMMA Cancel ==
    ASSUME NEW d \in Nat \ {0}, NEW x \in Int, NEW y \in Int, d * x <= d * y
    PROVE  x <= y
  OBVIOUS

LEMMA RoundPart ==
    ASSUME NEW a \in Nat, NEW p \in Nat, NEW d \in Nat \ {0}
    PROVE  Prices!Round(a * p, d) \in Nat /\ (a <= d => Prices!Round(a * p, d) <= p)
<1>1. PICK n \in Nat : n = a * p OBVIOUS
<1>2. PICK q \in Int : /\ q = Prices!Round(n, d) /\ 2 * n - d <= 2 * (d * q) /\ 2 * (d * q) <= 2 * n + d
  <2>1. /\ Prices!Round(n, d) \in Int /\ 2 * n - d <= 2 * (d * Prices!Round(n, d))
        /\ 2 * (d * Prices!Round(n, d)) <= 2 * n + d
    BY RoundNear
  <2>. QED BY <2>1
<1>3. q >= 0
  <2>1. CASE q < 0
    <3>1. d * q <= -d BY <2>1
    <3>2. d * q \in Int OBVIOUS
    <3>. QED BY <1>2, <3>1, <3>2
  <2>. QED BY <2>1
<1>4. ASSUME a <= d PROVE q <= p
  <2>1. n <= d * p /\ d * p \in Int BY <1>1, <1>4
  <2>2. CASE q > p
    <3>1. d * q >= d * p + d /\ d * q \in Int BY <2>2
    <3>. QED BY <1>2, <2>1, <3>1
  <2>. QED BY <2>2
<1>. QED BY <1>1, <1>2, <1>3, <1>4

LEMMA SumsOfPrices == \A f : Prices!Total(f) = SumFunctionOnSet(f, DOMAIN f)
  BY DEF Prices!Total, Prices!SumFunction, Prices!SumFunctionOnSet, Prices!FoldFunctionOnSet,
         Prices!MapThenFoldSet, SumFunctionOnSet, FoldFunctionOnSet, MapThenFoldSet

\* What the lines get of an amount is off by no more than half a cent each.
LEMMA SharesAddUp ==
    ASSUME NEW parts, NEW amount \in Int, IsFiniteSet(DOMAIN parts),
           \A i \in DOMAIN parts : parts[i] \in Int, Prices!Total(parts) # 0
    PROVE  LET total == Prices!Total(Prices!Shares(amount, parts))
               n == Cardinality(DOMAIN parts)
           IN  /\ \A i \in DOMAIN parts : Prices!Shares(amount, parts)[i] \in Int
               /\ total \in Int /\ -n <= 2 * (total - amount) /\ 2 * (total - amount) <= n
<1> DEFINE I == DOMAIN parts
           shares == Prices!Shares(amount, parts)
<1>1. PICK d \in Int : d = Prices!Total(parts) /\ d = SumFunctionOnSet(parts, I) /\ d # 0
  BY SumsOfPrices, SumInt
<1>2. PICK e \in Nat \ {0} : e = IF d > 0 THEN d ELSE -d BY <1>1
<1>3. DOMAIN shares = I /\ \A i \in I :
          shares[i] = IF amount = 0 THEN 0 ELSE Prices!Round(amount * parts[i], d)
  BY <1>1 DEF Prices!Shares
<1> DEFINE near == [i \in I |-> (2 * d) * shares[i] + (-(2 * amount)) * parts[i]]
<1>4. ASSUME NEW i \in I
      PROVE  shares[i] \in Int /\ near[i] \in Int /\ -e <= near[i] /\ near[i] <= e
  <2>1. PICK p \in Int, n \in Int : p = parts[i] /\ n = amount * p OBVIOUS
  <2>2. CASE amount = 0
    <3>1. shares[i] = 0 BY <1>3, <2>2
    <3>2. near[i] = (2 * d) * 0 + (-(2 * 0)) * p BY <2>1, <2>2, <3>1
    <3>3. (2 * d) * 0 = 0 /\ (-(2 * 0)) * p = 0 OBVIOUS
    <3>4. near[i] = 0 BY <3>2, <3>3
    <3>. HIDE DEF near, shares, I
    <3>5. -e <= 0 /\ 0 <= e OBVIOUS
    <3>. QED BY <3>1, <3>4, <3>5
  <2>3. CASE amount # 0
    <3>1. shares[i] = Prices!Round(n, d) BY <1>3, <2>1, <2>3
    <3>2. /\ Prices!Round(n, d) \in Int
          /\ d > 0 => 2 * n - d <= 2 * (d * Prices!Round(n, d)) /\ 2 * (d * Prices!Round(n, d)) <= 2 * n + d
          /\ d < 0 => 2 * n + d <= 2 * (d * Prices!Round(n, d)) /\ 2 * (d * Prices!Round(n, d)) <= 2 * n - d
      BY <1>1, RoundNear
    <3>3. PICK s \in Int, m \in Int : s = shares[i] /\ m = d * s BY <3>1, <3>2
    <3>4. 2 * n - e <= 2 * m /\ 2 * m <= 2 * n + e
      BY <1>1, <1>2, <3>1, <3>2, <3>3
    <3>5. near[i] = (2 * d) * s + (-(2 * amount)) * p BY <2>1, <3>3
    <3>6. (2 * d) * s + (-(2 * amount)) * p = 2 * m - 2 * n BY <2>1, <3>3
    <3>. QED BY <3>3, <3>4, <3>5, <3>6
  <2>. QED BY <2>2, <2>3
<1> HIDE DEF I, shares, near
<1>5. /\ SumFunctionOnSet(near, I) \in Int
      /\ -(e * Cardinality(I)) <= SumFunctionOnSet(near, I)
      /\ SumFunctionOnSet(near, I) <= e * Cardinality(I)
  BY <1>4, SumWithin DEF I
<1>6. PICK t \in Int : t = SumFunctionOnSet(shares, I) BY <1>4, SumInt DEF I
<1>7. SumFunctionOnSet(near, I) = (2 * d) * t + (-(2 * amount)) * d
  <2>1. PICK b \in Int, c \in Int : b = 2 * d /\ c = -(2 * amount) OBVIOUS
  <2>2. \A i \in I : near[i] = b * shares[i] + c * parts[i] BY <2>1 DEF near
  <2>3. \A i \in I : shares[i] \in Int BY <1>4
  <2>4. \A i \in I : parts[i] \in Int BY DEF I
  <2>5. IsFiniteSet(I) BY DEF I
  <2>6. SumFunctionOnSet(near, I) = b * SumFunctionOnSet(shares, I) + c * SumFunctionOnSet(parts, I)
    BY <2>2, <2>3, <2>4, <2>5, SumCombine
  <2>. QED BY <1>1, <1>6, <2>1, <2>6
<1>8. PICK n \in Nat : n = Cardinality(I) BY FS_CardinalityType DEF I
<1>9. PICK x \in Int : x = 2 * (t - amount) OBVIOUS
<1>10. (2 * d) * t + (-(2 * amount)) * d = d * x BY <1>9
<1>11. -(e * n) <= d * x /\ d * x <= e * n BY <1>5, <1>7, <1>8, <1>10
<1>12. -n <= x /\ x <= n
  <2>1. CASE d > 0
    <3>1. e * (-n) <= e * x /\ e * x <= e * n BY <1>2, <1>11, <2>1
    <3>. QED BY <3>1, Cancel
  <2>2. CASE d < 0
    <3>1. d * x = -(e * x) /\ e * x \in Int /\ e * n \in Int BY <1>2, <2>2
    <3>2. e * (-n) <= e * x /\ e * x <= e * n BY <1>11, <3>1
    <3>. QED BY <3>2, Cancel
  <2>. QED BY <1>1, <2>1, <2>2
<1>13. Prices!Total(shares) = t BY <1>3, <1>6, SumsOfPrices
<1>. QED BY <1>4, <1>8, <1>9, <1>12, <1>13 DEF I, shares

\* What a line gets of the tax, or of a discount within the subtotal, is not
\* negative, and its discount is within its price.
LEMMA SharesOfNats ==
    ASSUME NEW parts, NEW amount \in Nat, IsFiniteSet(DOMAIN parts),
           \A i \in DOMAIN parts : parts[i] \in Nat, Prices!Total(parts) # 0
    PROVE  /\ Prices!Total(parts) \in Nat
           /\ \A i \in DOMAIN parts :
                  /\ Prices!Shares(amount, parts)[i] \in Nat
                  /\ amount <= Prices!Total(parts) => Prices!Shares(amount, parts)[i] <= parts[i]
<1>1. PICK d \in Nat \ {0} : d = Prices!Total(parts) BY SumsOfPrices, SumNat
<1>2. ASSUME NEW i \in DOMAIN parts
      PROVE  /\ Prices!Shares(amount, parts)[i] \in Nat
             /\ amount <= d => Prices!Shares(amount, parts)[i] <= parts[i]
  <2>1. Prices!Shares(amount, parts)[i] =
            IF amount = 0 THEN 0 ELSE Prices!Round(amount * parts[i], d)
    BY <1>1 DEF Prices!Shares
  <2>2. PICK p \in Nat : p = parts[i] OBVIOUS
  <2>3. Prices!Round(amount * p, d) \in Nat /\ (amount <= d => Prices!Round(amount * p, d) <= p)
    BY RoundPart
  <2>. QED BY <2>1, <2>2, <2>3
<1>. QED BY <1>1, <1>2

LEMMA PercentIsNat ==
    ASSUME NEW rate \in Nat, NEW n \in Nat
    PROVE  Prices!Percent(rate, n) \in Nat
<1>1. 100 \in Nat \ {0} OBVIOUS
<1>. QED BY <1>1, RoundPart DEF Prices!Percent

LEMMA PercentIsInt ==
    ASSUME NEW rate \in Nat, NEW n \in Int
    PROVE  Prices!Percent(rate, n) \in Int
<1>1. PICK m \in Int : m = rate * n OBVIOUS
<1>2. Prices!Round(m, 100) \in Int BY RoundNear
<1>. QED BY <1>1, <1>2 DEF Prices!Percent

LEMMA DiscountIsNat ==
    ASSUME NEW coupon, Prices!IsCoupon(coupon), NEW n \in Nat
    PROVE  Prices!applyPromotions(coupon, n) \in Nat
<1>1. CASE coupon.type = "PERCENTAGE"
  <2>1. Prices!Percent(coupon.percentOff, n) \in Nat /\ coupon.maxDiscount \in Nat
    BY <1>1, PercentIsNat DEF Prices!IsCoupon
  <2>. QED BY <1>1, <2>1 DEF Prices!applyPromotions
<1>. QED BY <1>1 DEF Prices!IsCoupon, Prices!applyPromotions

\* The receipt of a basket adds up.
LEMMA QuoteAddsUp ==
    ASSUME NEW basket \in Seq(Prices!Lines), NEW coupon, Prices!IsCoupon(coupon),
           NEW taxRate \in Nat, NEW serviceRate \in Nat,
           Prices!Quote(basket, coupon, taxRate, serviceRate).priced
    PROVE  Prices!AddsUp(Prices!Quote(basket, coupon, taxRate, serviceRate))
<1> DEFINE quotation == Prices!Quote(basket, coupon, taxRate, serviceRate)
           I == DOMAIN basket
           subtotals == Prices!Subtotals(basket)
           subtotal == Prices!Total(subtotals)
           discount == Prices!applyPromotions(coupon, subtotal)
           discounts == Prices!Shares(discount, subtotals)
           finals == [i \in I |-> subtotals[i] - discounts[i]]
           tax == Prices!Percent(taxRate, Prices!Total(finals))
           taxes == Prices!Shares(tax, finals)
           service == Prices!Percent(serviceRate, subtotal)
<1>1. /\ quotation.subtotal = subtotal /\ quotation.discount = discount
      /\ quotation.total = subtotal - discount + tax + service
      /\ quotation.service = service /\ quotation.finals = finals /\ quotation.taxes = taxes
      /\ subtotal # 0 /\ Prices!Total(finals) # 0
  BY DEF Prices!Quote
<1>2. I = 1 .. Len(basket) /\ Len(basket) \in Nat /\ Len(finals) = Len(basket)
      /\ IsFiniteSet(I) /\ Cardinality(I) = Len(basket)
  <2>1. I = 1 .. Len(basket) /\ Len(basket) \in Nat OBVIOUS
  <2> DEFINE n == Len(basket)
  <2>2. \A f : DOMAIN f = 1 .. n => Len(f) = n BY <2>1
  <2>3. Len(finals) = n BY <2>1, <2>2
  <2> HIDE DEF n
  <2>4. n \in Nat BY <2>1 DEF n
  <2>5. IsFiniteSet(1 .. n) /\ Cardinality(1 .. n) = n BY <2>4, FS_Interval
  <2>. QED BY <2>1, <2>3, <2>5 DEF n
<1>3. DOMAIN subtotals = I /\ \A i \in I : subtotals[i] \in Nat
  <2>1. ASSUME NEW i \in I PROVE basket[i].unitPrice * basket[i].quantity \in Nat
    <3>1. basket[i] \in Prices!Lines BY <1>2
    <3>2. basket[i].unitPrice \in Nat /\ basket[i].quantity \in Nat
      BY <3>1 DEF Prices!Lines
    <3>. QED BY <3>2
  <2>. QED BY <2>1 DEF Prices!Subtotals
<1> HIDE DEF subtotals, quotation
<1>4. subtotal \in Nat /\ subtotal = SumFunctionOnSet(subtotals, I)
  BY <1>2, <1>3, SumsOfPrices, SumNat
<1> HIDE DEF subtotal
<1>5. discount \in Nat BY <1>4, DiscountIsNat
<1> HIDE DEF discount
<1>6. /\ \A i \in I : discounts[i] \in Int
      /\ \A i \in I : discounts[i] \in Nat
      /\ discount <= subtotal => \A i \in I : discounts[i] <= subtotals[i]
      /\ Prices!Total(discounts) \in Int
      /\ -Len(basket) <= 2 * (Prices!Total(discounts) - discount)
      /\ 2 * (Prices!Total(discounts) - discount) <= Len(basket)
  <2>1. Prices!Total(subtotals) # 0 /\ Prices!Total(subtotals) = subtotal
    BY <1>1 DEF subtotal
  <2>2. \A i \in DOMAIN subtotals : subtotals[i] \in Int BY <1>3
  <2>3. /\ \A i \in I : discounts[i] \in Int
        /\ Prices!Total(discounts) \in Int
        /\ -Len(basket) <= 2 * (Prices!Total(discounts) - discount)
        /\ 2 * (Prices!Total(discounts) - discount) <= Len(basket)
    BY <1>2, <1>3, <1>5, <2>1, <2>2, SharesAddUp
  <2>4. \A i \in I : discounts[i] \in Nat /\ (discount <= subtotal => discounts[i] <= subtotals[i])
    BY <1>2, <1>3, <1>5, <2>1, SharesOfNats
  <2>. QED BY <2>3, <2>4
<1>7. DOMAIN discounts = I BY <1>3 DEF Prices!Shares
<1> HIDE DEF discounts
<1>8. DOMAIN finals = I /\ \A i \in I : finals[i] \in Int /\ finals[i] = 1 * subtotals[i] + (-1) * discounts[i]
  BY <1>3, <1>6
<1>9. discount <= subtotal => \A i \in I : finals[i] \in Nat BY <1>3, <1>6
<1> HIDE DEF finals
<1>10. Prices!Total(finals) \in Int /\ Prices!Total(finals) = subtotal - Prices!Total(discounts)
  <2>1. \A i \in I : subtotals[i] \in Int BY <1>3
  <2>2. SumFunctionOnSet(finals, I) = 1 * SumFunctionOnSet(subtotals, I) + (-1) * SumFunctionOnSet(discounts, I)
    BY <1>2, <1>6, <1>8, <2>1, SumCombine
  <2>3. Prices!Total(discounts) = SumFunctionOnSet(discounts, I) /\ Prices!Total(finals) = SumFunctionOnSet(finals, I)
    BY <1>7, <1>8, SumsOfPrices
  <2>. QED BY <1>4, <1>6, <2>2, <2>3
<1>11. tax \in Int BY <1>10, PercentIsInt
<1>12. discount <= subtotal => tax \in Nat
  <2>1. ASSUME discount <= subtotal PROVE Prices!Total(finals) \in Nat
    BY <1>2, <1>8, <1>9, <2>1, SumsOfPrices, SumNat
  <2>. QED BY <2>1, PercentIsNat
<1> HIDE DEF tax
<1>13. /\ Prices!Total(taxes) \in Int
       /\ -Len(basket) <= 2 * (Prices!Total(taxes) - tax)
       /\ 2 * (Prices!Total(taxes) - tax) <= Len(basket)
  <2>1. \A i \in DOMAIN finals : finals[i] \in Int BY <1>8
  <2>. QED BY <1>1, <1>2, <1>8, <1>11, <2>1, SharesAddUp
<1>14. discount <= subtotal => \A i \in I : taxes[i] \in Nat
  <2>1. SUFFICES ASSUME discount <= subtotal PROVE \A i \in I : taxes[i] \in Nat OBVIOUS
  <2>2. tax \in Nat /\ \A i \in DOMAIN finals : finals[i] \in Nat
    BY <1>8, <1>9, <1>12, <2>1
  <2>. QED BY <1>1, <1>2, <1>8, <2>2, SharesOfNats
<1> HIDE DEF taxes
<1>15. service \in Nat BY <1>4, PercentIsNat
<1> HIDE DEF service
<1>16. quotation.total - (Prices!Total(finals) + Prices!Total(taxes) + service) \in -Len(basket) .. Len(basket)
  <2>1. PICK n \in Nat, ds \in Int, ts \in Int :
            n = Len(basket) /\ ds = Prices!Total(discounts) /\ ts = Prices!Total(taxes)
    BY <1>2, <1>6, <1>13
  <2>2. /\ -n <= 2 * (ds - discount) /\ 2 * (ds - discount) <= n
        /\ -n <= 2 * (ts - tax) /\ 2 * (ts - tax) <= n
    BY <1>6, <1>13, <2>1
  <2>3. Prices!Total(finals) = subtotal - ds BY <1>10, <2>1
  <2>4. PICK s \in Int, m \in Int, t \in Int, c \in Int :
            s = subtotal /\ m = discount /\ t = tax /\ c = service
    BY <1>4, <1>5, <1>11, <1>15
  <2>5. quotation.total = s - m + t + c BY <1>1, <2>4
  <2>6. (s - m + t + c) - ((s - ds) + ts + c) = (ds - m) - (ts - t) OBVIOUS
  <2>7. (ds - m) - (ts - t) \in -n .. n BY <2>2, <2>4
  <2>. QED BY <2>1, <2>3, <2>4, <2>5, <2>6, <2>7
<1>17. discount <= subtotal => \A i \in 1 .. Len(basket) : finals[i] >= 0 /\ taxes[i] >= 0
  BY <1>2, <1>9, <1>14
<1>18. Len(quotation.finals) = Len(basket) BY <1>1, <1>2
<1>. QED BY <1>1, <1>2, <1>16, <1>17, <1>18 DEF Prices!AddsUp, quotation

-----------------------------------------------------------------------------
(* Both.                                                                   *)

PriceKept == quote = NoQuote \/ Prices!AddsUp(quote)

OrdersKept ==
    /\ focus = "items" => ItemsInductive
    /\ focus = "price" => PriceKept

LEMMA AskPriceAddsUp ==
    ASSUME AskPrice
    PROVE  PriceKept'
<1>1. PICK basket \in Baskets, coupon \in Coupons, taxRate \in TaxRates, serviceRate \in ServiceRates :
          /\ Prices!Quote(basket, coupon, taxRate, serviceRate).priced
          /\ quote' = Prices!Quote(basket, coupon, taxRate, serviceRate)
  BY DEF AskPrice
<1>2. /\ basket \in Seq(Prices!Lines) /\ Prices!IsCoupon(coupon)
      /\ taxRate \in Nat /\ serviceRate \in Nat
  BY BackOfficeAssumption
<1>3. Prices!AddsUp(Prices!Quote(basket, coupon, taxRate, serviceRate))
  BY <1>1, <1>2, QuoteAddsUp
<1>4. Prices!AddsUp(quote') BY <1>1, <1>3
<1>. QED BY <1>4 DEF PriceKept, Prices!AddsUp

LEMMA OrdersStart == Init => OrdersKept
  BY ItemsInitInductive DEF Init, OrdersKept, PriceKept

LEMMA OrdersStepOfEach == OrdersKept /\ [Next]_everyVar => OrdersKept'
<1> SUFFICES ASSUME OrdersKept, [Next]_everyVar PROVE OrdersKept'
  OBVIOUS
<1>0. focus' = focus BY DEF Next, everyVar
<1>1. ASSUME focus = "items" PROVE ItemsInductive'
  <2>1. ItemsInductive BY <1>1 DEF OrdersKept
  <2>2. Items!Next \/ UNCHANGED itemsVars BY <1>1 DEF Next, everyVar
  <2>3. ASSUME UNCHANGED itemsVars PROVE ItemsInductive'
    BY <2>1, <2>3 DEF itemsVars, ItemsInductive, RowsTyped, KeyFits, ChangeFits, RowAddsUp,
                      RowWhole, RequestWhole, Makes, ChangesOrder, Items!Created
  <2>. QED BY <2>1, <2>2, <2>3, ItemsStep
<1>2. ASSUME focus = "price" PROVE PriceKept'
  <2>1. AskPrice \/ UNCHANGED pricesVars BY <1>2 DEF Next, everyVar
  <2>2. ASSUME UNCHANGED pricesVars PROVE PriceKept'
    BY <1>2, <2>2 DEF OrdersKept, PriceKept, pricesVars
  <2>. QED BY <2>1, <2>2, AskPriceAddsUp
<1>. QED BY <1>0, <1>1, <1>2 DEF OrdersKept

\* One key makes one order and an order adds up to its items, until requests
\* overlap, and the receipt of a basket adds up to within a cent for each line.
THEOREM OrdersAreSound == Spec => []OrdersSound
<1>1. OrdersKept => OrdersSound
  BY ItemsSound DEF OrdersKept, PriceKept, OrdersSound
<1>. QED BY OrdersStart, OrdersStepOfEach, <1>1, PTL DEF Spec
=============================================================================
