---------------------------- MODULE Deliveries_proofs ----------------------------
(***************************************************************************)
(* Theorems about module Deliveries for every number of senders, callers,  *)
(* workers, dead letters and crashes, and every limit on retries.          *)
(***************************************************************************)
EXTENDS Deliveries, FiniteSetTheorems, TLAPS

\* A step of the system is a step of each of its parts, or leaves it alone.
LEMMA StepOfEach ==
    [Next]_everyVar => /\ [Outgoing!Next]_outVars
                       /\ [Disputed!Next]_disputeVars
                       /\ [Incoming!Next]_inVars
  BY DEF Next, everyVar

-----------------------------------------------------------------------------
(* A dispute.                                                              *)

DisputeStatus == {"OPEN", "NEEDS_RESPONSE", "UNDER_REVIEW", "EVIDENCE_SUBMITTED", "ACCEPTED",
                  "WON", "LOST"}
DisputeRow == [status : DisputeStatus, resolution : DisputeStatus \union {"NONE"},
               charged : BOOLEAN]

DisputeCall ==
    {Disputed!Quiet}
    \union [op : {"evidence", "evidenceWrite", "accept", "acceptWrite"}]
    \union [op : {"webhook"}, notice : Disputed!Notices, found : BOOLEAN]

DisputeTypes ==
    /\ provider \in Disputed!ProviderStatus \union {"none"}
    /\ sent \subseteq Disputed!Notices
    /\ dispute \in DisputeRow \union {Disputed!NoDispute}
    /\ disputeCall \in [Callers -> DisputeCall]

\* A call that found the row still has one, one that closed the dispute at the
\* provider lost it there, and one that delivers a webhook has one that was sent.
CallersKnow ==
    \A c \in Callers :
        /\ disputeCall[c].op \in {"evidence", "evidenceWrite"} => dispute # Disputed!NoDispute
        /\ disputeCall[c].op = "acceptWrite" => provider = "lost"
        /\ disputeCall[c].op = "webhook" =>
               /\ disputeCall[c].notice \in sent
               /\ disputeCall[c].found => dispute # Disputed!NoDispute

\* A loss is only reported once it is final.
LossIsFinal == \A n \in sent : n.status = "lost" => provider = "lost"

DisputeInductive == DisputeTypes /\ CallersKnow /\ LossIsFinal /\ ChargebackReal

LEMMA DisputeInit == Disputed!Init => DisputeInductive
  <1>. SUFFICES ASSUME Disputed!Init PROVE DisputeInductive
    OBVIOUS
  <1>1. DisputeTypes
    BY DEF Disputed!Init, DisputeTypes, DisputeCall
  <1>2. CallersKnow
    BY DEF Disputed!Init, CallersKnow, Disputed!Quiet
  <1>3. LossIsFinal /\ ChargebackReal
    BY DEF Disputed!Init, LossIsFinal, ChargebackReal, Disputed!ChargebackReal
  <1>. QED
    BY <1>1, <1>2, <1>3 DEF DisputeInductive

\* The provider moves: an undecided dispute is neither charged nor lost yet.
LEMMA ProviderStep ==
    ASSUME DisputeInductive, provider # "lost",
           NEW s \in Disputed!ProviderStatus, NEW t \in {"created", "updated", "closed"},
           [type |-> t, status |-> s] \in Disputed!Notices,
           provider' = s, sent' = sent \union {[type |-> t, status |-> s]},
           dispute' = dispute, disputeCall' \in [Callers -> DisputeCall],
           \A c \in Callers :
               \/ disputeCall'[c] = disputeCall[c]
               \/ disputeCall'[c].op = "acceptWrite" /\ s = "lost"
               \/ disputeCall'[c].op = "evidenceWrite" /\ disputeCall[c].op = "evidence"
    PROVE  DisputeInductive'
  <1>1. \A n \in sent : n.status # "lost"
    BY DEF DisputeInductive, LossIsFinal
  <1>2. DisputeTypes'
    BY DEF DisputeInductive, DisputeTypes
  <1>3. CallersKnow'
    BY DEF DisputeInductive, CallersKnow
  <1>4. LossIsFinal'
    BY <1>1 DEF LossIsFinal
  <1>5. ChargebackReal'
    BY DEF DisputeInductive, ChargebackReal, Disputed!ChargebackReal
  <1>. QED
    BY <1>2, <1>3, <1>4, <1>5 DEF DisputeInductive

\* A call moves on, or writes the row: charged only if the dispute is lost.
LEMMA RowStep ==
    ASSUME DisputeInductive, UNCHANGED <<provider, sent>>,
           disputeCall' \in [Callers -> DisputeCall],
           \/ dispute' = dispute
           \/ dispute' \in DisputeRow /\ (dispute'.charged => provider = "lost"),
           NEW c \in Callers, \A d \in Callers \ {c} : disputeCall'[d] = disputeCall[d],
           disputeCall'[c].op \in {"evidence", "evidenceWrite"} => dispute # Disputed!NoDispute,
           disputeCall'[c].op = "acceptWrite" => provider = "lost",
           disputeCall'[c].op = "webhook" =>
               /\ disputeCall'[c].notice \in sent
               /\ disputeCall'[c].found => dispute # Disputed!NoDispute
    PROVE  DisputeInductive'
  <1>1. \A r \in DisputeRow : r # Disputed!NoDispute
    BY DEF DisputeRow, Disputed!NoDispute
  <1>2. dispute # Disputed!NoDispute => dispute' # Disputed!NoDispute
    BY <1>1
  <1>3. DisputeTypes'
    BY DEF DisputeInductive, DisputeTypes
  <1>4. CallersKnow'
    BY <1>2 DEF DisputeInductive, CallersKnow
  <1>5. LossIsFinal'
    BY DEF DisputeInductive, LossIsFinal
  <1>6. ChargebackReal'
    BY DEF DisputeInductive, ChargebackReal, Disputed!ChargebackReal
  <1>. QED
    BY <1>3, <1>4, <1>5, <1>6 DEF DisputeInductive

LEMMA DisputeStep == DisputeInductive /\ [Disputed!Next]_disputeVars => DisputeInductive'
  <1>. SUFFICES ASSUME DisputeInductive, [Disputed!Next]_disputeVars PROVE DisputeInductive'
    OBVIOUS
  <1>1. CASE UNCHANGED disputeVars
    BY <1>1 DEF disputeVars, DisputeInductive, DisputeTypes, CallersKnow, LossIsFinal,
       ChargebackReal, Disputed!ChargebackReal
  <1>2. CASE Disputed!Opens
    BY <1>2, ProviderStep DEF Disputed!Opens, Disputed!Notices, Disputed!ProviderStatus,
       DisputeInductive, DisputeTypes
  <1>3. CASE Disputed!Decides
    BY <1>3, ProviderStep DEF Disputed!Decides, Disputed!ProviderMoves, Disputed!Notices,
       Disputed!ProviderStatus, Disputed!Decided, DisputeInductive, DisputeTypes
  <1>4. CASE Disputed!Crash
    BY <1>4 DEF Disputed!Crash, Disputed!Quiet, DisputeInductive, DisputeTypes, DisputeCall,
       CallersKnow, LossIsFinal, ChargebackReal, Disputed!ChargebackReal
  <1>5. ASSUME NEW c \in Callers, Disputed!CallerStep(c) PROVE DisputeInductive'
    <2>1. ASSUME NEW r \in DisputeCall, disputeCall' = [disputeCall EXCEPT ![c] = r]
          PROVE  /\ disputeCall' \in [Callers -> DisputeCall] /\ disputeCall'[c] = r
                 /\ \A d \in Callers \ {c} : disputeCall'[d] = disputeCall[d]
      BY <2>1 DEF DisputeInductive, DisputeTypes
    <2>2. Disputed!Quiet \in DisputeCall /\ Disputed!Quiet.op = "idle"
      BY DEF DisputeCall, Disputed!Quiet
    <2>3. CASE Disputed!EvidenceRead(c)
      <3>1. [op |-> "evidence"] \in DisputeCall
        BY DEF DisputeCall
      <3>2. dispute # Disputed!NoDispute
        BY <2>3 DEF Disputed!EvidenceRead, Disputed!NoDispute
      <3>. QED
        BY <2>1, <2>3, <3>1, <3>2, RowStep DEF Disputed!EvidenceRead, Disputed!Begin
    <2>4. CASE Disputed!AcceptRead(c)
      <3>1. [op |-> "accept"] \in DisputeCall
        BY DEF DisputeCall
      <3>. QED
        BY <2>1, <2>4, <3>1, RowStep DEF Disputed!AcceptRead, Disputed!Begin
    <2>5. CASE Disputed!submitEvidenceToProvider(c)
      <3>1. [op |-> "evidenceWrite"] \in DisputeCall
        BY DEF DisputeCall
      <3>. QED
        BY <2>1, <2>5, <3>1, ProviderStep DEF Disputed!submitEvidenceToProvider,
           Disputed!ProviderMoves, Disputed!Continue, Disputed!Notices,
           Disputed!ProviderStatus, Disputed!Decided
    <2>6. CASE Disputed!acceptDisputeWithProvider(c)
      <3>1. [op |-> "acceptWrite"] \in DisputeCall
        BY DEF DisputeCall
      <3>. QED
        BY <2>1, <2>6, <3>1, ProviderStep DEF Disputed!acceptDisputeWithProvider,
           Disputed!ProviderMoves, Disputed!Continue, Disputed!Notices,
           Disputed!ProviderStatus, Disputed!Decided
    <2>7. CASE Disputed!EvidenceWrite(c)
      <3>1. dispute \in DisputeRow
        BY <2>7 DEF Disputed!EvidenceWrite, DisputeInductive, CallersKnow, DisputeTypes
      <3>2. dispute' \in DisputeRow /\ dispute'.charged = dispute.charged
        BY <2>7, <3>1 DEF Disputed!EvidenceWrite, DisputeRow, DisputeStatus
      <3>3. dispute.charged => provider = "lost"
        BY <2>7 DEF Disputed!EvidenceWrite, DisputeInductive, CallersKnow, ChargebackReal,
           Disputed!ChargebackReal
      <3>. QED
        BY <2>1, <2>2, <2>7, <3>2, <3>3, RowStep DEF Disputed!EvidenceWrite, Disputed!End,
           Disputed!Continue
    <2>8. CASE Disputed!AcceptWrite(c)
      <3>1. dispute' \in DisputeRow /\ provider = "lost"
        BY <2>8 DEF Disputed!AcceptWrite, DisputeRow, DisputeStatus, DisputeInductive, CallersKnow
      <3>. QED
        BY <2>1, <2>2, <2>8, <3>1, RowStep DEF Disputed!AcceptWrite, Disputed!End,
           Disputed!Continue
    <2>9. CASE \E n \in sent : Disputed!Deliver(c, n)
      <3>1. PICK n \in sent : Disputed!Deliver(c, n)
        BY <2>9
      <3> DEFINE r == [op |-> "webhook", notice |-> n, found |-> dispute # Disputed!NoDispute]
      <3>2. r \in DisputeCall
        BY DEF DisputeInductive, DisputeTypes, DisputeCall
      <3>3. /\ disputeCall' = [disputeCall EXCEPT ![c] = r]
            /\ UNCHANGED <<provider, sent, dispute>>
        BY <3>1 DEF Disputed!Deliver, Disputed!Begin
      <3>4. /\ disputeCall' \in [Callers -> DisputeCall] /\ disputeCall'[c] = r
            /\ \A d \in Callers \ {c} : disputeCall'[d] = disputeCall[d]
        BY <2>1, <3>2, <3>3
      <3>. QED
        BY <3>3, <3>4, RowStep
    <2>10. CASE Disputed!createFromWebhook(c)
      <3> DEFINE new == [status |-> "OPEN", resolution |-> "NONE", charged |-> FALSE]
      <3>1. dispute' = dispute \/ dispute' = new
        BY <2>10 DEF Disputed!createFromWebhook
      <3>2. new \in DisputeRow /\ ~new.charged
        BY DEF DisputeRow, DisputeStatus
      <3>3. dispute' = dispute \/ (dispute' \in DisputeRow /\ ~dispute'.charged)
        BY <3>1, <3>2
      <3>. QED
        BY <2>1, <2>2, <2>10, <3>3, RowStep DEF Disputed!createFromWebhook,
           Disputed!Acknowledge, Disputed!End, Disputed!Continue
    <2>11. CASE Disputed!updateFromWebhook(c)
      <3> DEFINE k == disputeCall[c]
                 s == Disputed!normalizeStatus(k.notice.status)
      <3>1. /\ k \in [op : {"webhook"}, notice : Disputed!Notices, found : BOOLEAN]
            /\ k.notice \in sent /\ dispute \in DisputeRow
        BY <2>11 DEF Disputed!updateFromWebhook, DisputeInductive, DisputeTypes, DisputeCall,
           Disputed!Quiet, CallersKnow
      <3>2. k.notice.status \in Disputed!ProviderStatus
        BY <3>1 DEF Disputed!Notices, Disputed!ProviderStatus, Disputed!Decided
      <3>3. s \in DisputeStatus /\ (s = "LOST" => k.notice.status = "lost")
        BY <3>2 DEF Disputed!normalizeStatus, Disputed!ProviderStatus, DisputeStatus
      <3>4. dispute' = [status |-> s,
                        resolution |-> IF k.notice.type = "closed" THEN s ELSE dispute.resolution,
                        charged |-> dispute.charged \/ s = "LOST"]
        BY <2>11 DEF Disputed!updateFromWebhook
      <3>5. dispute' \in DisputeRow
        BY <3>1, <3>3, <3>4 DEF DisputeRow
      <3>6. dispute'.charged => provider = "lost"
        <4>1. dispute # Disputed!NoDispute
          BY <3>1 DEF DisputeRow, Disputed!NoDispute
        <4>2. dispute.charged => provider = "lost"
          BY <4>1 DEF DisputeInductive, ChargebackReal, Disputed!ChargebackReal
        <4>3. s = "LOST" => provider = "lost"
          BY <3>1, <3>3 DEF DisputeInductive, LossIsFinal
        <4>. QED
          BY <3>4, <4>2, <4>3
      <3>. QED
        BY <2>1, <2>2, <2>11, <3>5, <3>6, RowStep DEF Disputed!updateFromWebhook,
           Disputed!Acknowledge, Disputed!End, Disputed!Continue
    <2>12. CASE Disputed!Fail(c)
      BY <2>1, <2>2, <2>12, RowStep DEF Disputed!Fail, Disputed!End, Disputed!Continue
    <2>. QED
      BY <1>5, <2>3, <2>4, <2>5, <2>6, <2>7, <2>8, <2>9, <2>10, <2>11, <2>12
      DEF Disputed!CallerStep, Disputed!WebhookWrite
  <1>. QED
    BY <1>1, <1>2, <1>3, <1>4, <1>5 DEF Disputed!Next

\* Whatever staff, bank and webhooks overlap, repeat or lose: no chargeback is
\* booked for a dispute that was not lost.
THEOREM ChargebacksAreReal == Spec => []ChargebackReal
  <1>1. Init => DisputeInductive
    BY DisputeInit DEF Init
  <1>2. DisputeInductive /\ [Next]_everyVar => DisputeInductive'
    BY StepOfEach, DisputeStep
  <1>3. DisputeInductive => ChargebackReal
    BY DEF DisputeInductive
  <1>. QED
    BY <1>1, <1>2, <1>3, PTL DEF Spec

-----------------------------------------------------------------------------
(* An incoming event.                                                      *)

WorkKinds ==
    {Incoming!NoWork}
    \union [op : {"deliver"}, at : {"handler", "success", "failure"}]
    \union [op : {"retry"}, at : {"mark", "handler", "success", "failure"}, row : Letters]

IncomingTypes ==
    /\ processed \in BOOLEAN /\ answered \in BOOLEAN /\ unkept \in BOOLEAN
    /\ letter \in [Letters -> Incoming!LetterStatus]
    /\ work \in [Workers -> WorkKinds]
    /\ handled \in Nat

\* A worker that reports success has run the handler to its end.
SuccessIsHandled ==
    \A w \in Workers : work[w] # Incoming!NoWork /\ work[w].at = "success" => handled > 0

IncomingInductive == IncomingTypes /\ SuccessIsHandled /\ IncomingKept

LEMMA IncomingInit == Incoming!Init => IncomingInductive
  <1>. SUFFICES ASSUME Incoming!Init PROVE IncomingInductive
    OBVIOUS
  <1>1. IncomingTypes
    BY DEF Incoming!Init, IncomingTypes, WorkKinds, Incoming!LetterStatus
  <1>2. SuccessIsHandled
    BY DEF Incoming!Init, SuccessIsHandled
  <1>3. IncomingKept
    BY DEF Incoming!Init, IncomingKept, Incoming!IncomingKept, Incoming!AnsweredIsKept,
       Incoming!DoneIsHandled
  <1>. QED
    BY <1>1, <1>2, <1>3 DEF IncomingInductive

\* A worker that moves on writes no letter and reports nothing it did not do.
LEMMA WorkerMoves ==
    ASSUME IncomingInductive, NEW w \in Workers, NEW r \in WorkKinds,
           work' = [work EXCEPT ![w] = r],
           handled' \in Nat, handled' >= handled,
           r # Incoming!NoWork /\ r.at = "success" => handled' > 0
    PROVE  work' \in [Workers -> WorkKinds] /\ SuccessIsHandled'
  <1>1. work' \in [Workers -> WorkKinds] /\ work'[w] = r
    BY DEF IncomingInductive, IncomingTypes
  <1>2. \A v \in Workers \ {w} : work'[v] = work[v]
    BY DEF IncomingInductive, IncomingTypes
  <1>3. handled \in Nat
    BY DEF IncomingInductive, IncomingTypes
  <1>. QED
    BY <1>1, <1>2, <1>3 DEF IncomingInductive, SuccessIsHandled

\* Letters that are written: none that waits is lost, none is RESOLVED for nothing.
LEMMA LettersKept ==
    ASSUME IncomingInductive, IncomingTypes', SuccessIsHandled', handled' >= handled,
           UNCHANGED <<processed, answered>>, unkept => unkept',
           handled' > 0 \/ Incoming!Rows \subseteq Incoming!Rows',
           \A l \in Letters : letter'[l] = "RESOLVED" => handled' > 0
    PROVE  IncomingInductive'
  <1>1. handled \in Nat /\ handled' \in Nat
    BY DEF IncomingInductive, IncomingTypes
  <1>2. Incoming!AnsweredIsKept'
    BY <1>1 DEF IncomingInductive, IncomingKept, Incoming!IncomingKept, Incoming!AnsweredIsKept
  <1>3. Incoming!DoneIsHandled'
    BY <1>1 DEF IncomingInductive, IncomingKept, Incoming!IncomingKept, Incoming!DoneIsHandled
  <1>. QED
    BY <1>2, <1>3 DEF IncomingInductive, IncomingKept, Incoming!IncomingKept

\* A delivery that is answered: the event was handled, or a letter is kept.
LEMMA AnswerKept ==
    ASSUME IncomingInductive, IncomingTypes', SuccessIsHandled', UNCHANGED <<handled>>,
           unkept => unkept', processed' => processed \/ handled > 0,
           Incoming!Rows \subseteq Incoming!Rows',
           \A l \in Letters : letter'[l] = "RESOLVED" => letter[l] = "RESOLVED",
           handled > 0 \/ Incoming!Rows' # {} \/ unkept'
    PROVE  IncomingInductive'
  <1>1. Incoming!AnsweredIsKept'
    BY DEF Incoming!AnsweredIsKept
  <1>2. Incoming!DoneIsHandled'
    BY DEF IncomingInductive, IncomingKept, Incoming!IncomingKept, Incoming!DoneIsHandled
  <1>. QED
    BY <1>1, <1>2 DEF IncomingInductive, IncomingKept, Incoming!IncomingKept

LEMMA IncomingStep == IncomingInductive /\ [Incoming!Next]_inVars => IncomingInductive'
  <1>. SUFFICES ASSUME IncomingInductive, [Incoming!Next]_inVars PROVE IncomingInductive'
    OBVIOUS
  <1>t. /\ IncomingTypes /\ SuccessIsHandled
        /\ \A l \in Letters : letter[l] = "RESOLVED" => handled > 0
        /\ processed => handled > 0
    BY DEF IncomingInductive, IncomingKept, Incoming!IncomingKept, Incoming!DoneIsHandled
  <1>h. handled \in Nat /\ handled >= handled
    BY <1>t DEF IncomingTypes
  <1>n. Incoming!NoWork \in WorkKinds
    BY DEF WorkKinds
  <1>1. CASE UNCHANGED inVars
    BY <1>1 DEF inVars, IncomingInductive, IncomingTypes, SuccessIsHandled, IncomingKept,
       Incoming!IncomingKept, Incoming!AnsweredIsKept, Incoming!DoneIsHandled, Incoming!Rows
  <1>2. ASSUME NEW w \in Workers, Incoming!Receive(w) PROVE IncomingInductive'
    <2>1. CASE processed
      <3>1. UNCHANGED <<processed, letter, handled, unkept, work>> /\ answered' = TRUE
        BY <1>2, <2>1 DEF Incoming!Receive
      <3>2. IncomingTypes' /\ SuccessIsHandled'
        BY <1>t, <3>1 DEF IncomingTypes, SuccessIsHandled
      <3>. QED
        BY <1>t, <2>1, <3>1, <3>2, AnswerKept DEF Incoming!Rows
    <2>2. CASE ~processed
      <3> DEFINE r == [op |-> "deliver", at |-> "handler"]
      <3>1. /\ UNCHANGED <<processed, letter, handled, unkept, answered>>
            /\ work' = [work EXCEPT ![w] = r]
        BY <1>2, <2>2 DEF Incoming!Receive, Incoming!Start
      <3>2. r \in WorkKinds /\ r.at = "handler"
        BY DEF WorkKinds
      <3>3. work' \in [Workers -> WorkKinds] /\ SuccessIsHandled'
        BY <1>h, <3>1, <3>2, WorkerMoves
      <3>. QED
        BY <1>t, <3>1, <3>3, LettersKept DEF IncomingTypes, Incoming!Rows
    <2>. QED
      BY <2>1, <2>2
  <1>3. ASSUME NEW w \in Workers, Incoming!Handle(w) PROVE IncomingInductive'
    <2>1. /\ work[w] \in WorkKinds \ {Incoming!NoWork}
          /\ UNCHANGED <<processed, letter, answered, unkept>>
      BY <1>3, <1>t DEF Incoming!Handle, IncomingTypes
    <2>2. PICK at \in {"success", "failure"} :
             /\ work' = [work EXCEPT ![w] = [work[w] EXCEPT !.at = at]]
             /\ \/ handled' = handled + 1
                \/ handled' = handled /\ at = "failure"
      BY <1>3 DEF Incoming!Handle, Incoming!Goto
    <2> DEFINE r == [work[w] EXCEPT !.at = at]
    <2>3. r \in WorkKinds /\ r.at = at
      BY <2>1 DEF WorkKinds
    <2>4. handled' \in Nat /\ handled' >= handled /\ (at = "success" => handled' > 0)
      BY <1>t, <2>2 DEF IncomingTypes
    <2>5. work' \in [Workers -> WorkKinds] /\ SuccessIsHandled'
      <3>. HIDE DEF r
      <3>1. work' = [work EXCEPT ![w] = r]
        BY <2>2 DEF r
      <3>. QED
        BY <2>3, <2>4, <3>1, WorkerMoves
    <2>6. \A l \in Letters : letter'[l] = "RESOLVED" => handled' > 0
      BY <1>t, <2>1, <2>4 DEF IncomingTypes
    <2>. QED
      BY <1>t, <2>1, <2>4, <2>5, <2>6, LettersKept DEF IncomingTypes, Incoming!Rows
  <1>4. ASSUME NEW w \in Workers, work' = [work EXCEPT ![w] = Incoming!NoWork],
               UNCHANGED handled
        PROVE  work' \in [Workers -> WorkKinds] /\ SuccessIsHandled'
    BY <1>4, <1>n, <1>h, WorkerMoves
  <1>5. ASSUME NEW w \in Workers, Incoming!markProcessed(w) PROVE IncomingInductive'
    <2>1. handled > 0
      BY <1>5, <1>t DEF Incoming!markProcessed, SuccessIsHandled
    <2>2. /\ processed' \in BOOLEAN /\ answered' = TRUE
          /\ work' = [work EXCEPT ![w] = Incoming!NoWork]
          /\ UNCHANGED <<letter, handled, unkept>>
      BY <1>5, <1>t DEF Incoming!markProcessed, Incoming!Done, Incoming!Goto, IncomingTypes
    <2>. QED
      BY <1>t, <1>4, <2>1, <2>2, AnswerKept DEF IncomingTypes, Incoming!Rows
  <1>6. ASSUME NEW w \in Workers, Incoming!add(w) PROVE IncomingInductive'
    <2>1. /\ answered' = TRUE /\ UNCHANGED <<processed, handled>>
          /\ work' = [work EXCEPT ![w] = Incoming!NoWork]
      BY <1>6 DEF Incoming!add, Incoming!Done, Incoming!Goto
    <2>2. CASE unkept' = TRUE /\ UNCHANGED letter
      BY <1>t, <1>4, <2>1, <2>2, AnswerKept DEF IncomingTypes, Incoming!Rows
    <2>3. CASE UNCHANGED unkept /\ \E l \in Letters \ Incoming!Rows :
                                      letter' = [letter EXCEPT ![l] = "FAILED"]
      <3>1. PICK l \in Letters \ Incoming!Rows : letter' = [letter EXCEPT ![l] = "FAILED"]
        BY <2>3
      <3>2. /\ letter' \in [Letters -> Incoming!LetterStatus]
            /\ letter'[l] = "FAILED"
            /\ \A m \in Letters \ {l} : letter'[m] = letter[m]
        BY <1>t, <3>1 DEF IncomingTypes, Incoming!LetterStatus
      <3>3. Incoming!Rows \subseteq Incoming!Rows' /\ l \in Incoming!Rows'
        BY <3>2 DEF Incoming!Rows
      <3>. QED
        BY <1>t, <1>4, <2>1, <2>3, <3>2, <3>3, AnswerKept DEF IncomingTypes
    <2>. QED
      BY <1>6, <2>2, <2>3 DEF Incoming!add
  <1>7. ASSUME NEW w \in Workers, NEW l \in Letters, Incoming!RetryRead(w, l)
        PROVE  IncomingInductive'
    <2> DEFINE r == [op |-> "retry", at |-> "mark", row |-> l]
    <2>1. /\ UNCHANGED <<processed, letter, answered, handled, unkept>>
          /\ work' = [work EXCEPT ![w] = r]
      BY <1>7 DEF Incoming!RetryRead, Incoming!Start
    <2>2. r \in WorkKinds /\ r.at = "mark"
      BY DEF WorkKinds
    <2>3. work' \in [Workers -> WorkKinds] /\ SuccessIsHandled'
      BY <1>h, <2>1, <2>2, WorkerMoves
    <2>. QED
      BY <1>t, <2>1, <2>3, LettersKept DEF IncomingTypes, Incoming!Rows
  <1>8. ASSUME NEW l \in Letters, NEW x \in Incoming!LetterStatus \ {"NONE"},
               letter' = [letter EXCEPT ![l] = x], x = "RESOLVED" => handled > 0,
               UNCHANGED <<processed, answered, handled, unkept>>,
               work' \in [Workers -> WorkKinds], SuccessIsHandled'
        PROVE  IncomingInductive'
    <2>1. letter' \in [Letters -> Incoming!LetterStatus] /\ Incoming!Rows \subseteq Incoming!Rows'
      BY <1>8, <1>t DEF IncomingTypes, Incoming!Rows
    <2>2. \A m \in Letters : letter'[m] = "RESOLVED" => handled' > 0
      BY <1>8, <1>t DEF IncomingTypes
    <2>3. IncomingTypes'
      BY <1>8, <1>t, <2>1 DEF IncomingTypes
    <2>. QED
      BY <1>8, <1>h, <2>1, <2>2, <2>3, LettersKept
  <1>9. ASSUME NEW w \in Workers, Incoming!RetryMark(w) PROVE IncomingInductive'
    <2>1. work[w] \in [op : {"retry"}, at : {"mark"}, row : Letters]
      BY <1>9, <1>t DEF Incoming!RetryMark, IncomingTypes, WorkKinds
    <2> DEFINE r == [work[w] EXCEPT !.at = "handler"]
    <2>2. r \in WorkKinds /\ r.at = "handler"
      BY <2>1 DEF WorkKinds
    <2>3. /\ UNCHANGED <<processed, answered, handled, unkept>>
          /\ letter' = [letter EXCEPT ![work[w].row] = "RETRYING"]
          /\ work' = [work EXCEPT ![w] = r]
      BY <1>9 DEF Incoming!RetryMark, Incoming!Goto
    <2>4. work' \in [Workers -> WorkKinds] /\ SuccessIsHandled'
      <3>. HIDE DEF r
      <3>. QED
        BY <1>h, <2>2, <2>3, WorkerMoves
    <2>. QED
      <3>1. "RETRYING" \in Incoming!LetterStatus \ {"NONE"} /\ work[w].row \in Letters
        BY <2>1 DEF Incoming!LetterStatus
      <3>. HIDE DEF r
      <3>. QED
        BY <1>8, <2>3, <2>4, <3>1
  <1>10. ASSUME NEW w \in Workers, Incoming!RetryEnd(w) PROVE IncomingInductive'
    <2>1. work[w].row \in Letters /\ (work[w].at = "success" => handled > 0)
      BY <1>10, <1>t DEF Incoming!RetryEnd, IncomingTypes, WorkKinds, SuccessIsHandled
    <2>2. PICK x \in {"RESOLVED", "FAILED"} :
             /\ letter' = [letter EXCEPT ![work[w].row] = x]
             /\ x = "RESOLVED" => work[w].at = "success"
      BY <1>10 DEF Incoming!RetryEnd
    <2>3. /\ UNCHANGED <<processed, answered, handled, unkept>>
          /\ work' = [work EXCEPT ![w] = Incoming!NoWork]
      BY <1>10 DEF Incoming!RetryEnd, Incoming!Done, Incoming!Goto
    <2>. QED
      <3>1. x \in Incoming!LetterStatus \ {"NONE"} /\ (x = "RESOLVED" => handled > 0)
        BY <2>1, <2>2 DEF Incoming!LetterStatus
      <3>2. work' \in [Workers -> WorkKinds] /\ SuccessIsHandled'
        BY <1>4, <2>3
      <3>. QED
        BY <1>8, <2>1, <2>2, <2>3, <3>1, <3>2
  <1>11. ASSUME NEW l \in Letters, Incoming!abandon(l) PROVE IncomingInductive'
    <2>1. /\ letter' = [letter EXCEPT ![l] = "ABANDONED"]
          /\ UNCHANGED <<processed, work, answered, handled, unkept>>
      BY <1>11 DEF Incoming!abandon
    <2>. QED
      BY <1>t, <1>8, <2>1 DEF IncomingTypes, SuccessIsHandled, Incoming!LetterStatus
  <1>12. CASE Incoming!Cleanup
    <2>1. PICK old \in SUBSET {l \in Letters : letter[l] = "RESOLVED"} :
             letter' = [l \in Letters |-> IF l \in old THEN "NONE" ELSE letter[l]]
      BY <1>12 DEF Incoming!Cleanup
    <2>2. processed' \in BOOLEAN /\ (processed' => processed)
      <3>1. processed' = processed \/ processed' = FALSE
        BY <1>12 DEF Incoming!Cleanup
      <3>2. processed \in BOOLEAN
        BY <1>t DEF IncomingTypes
      <3>3. CASE processed' = processed
        BY <3>2, <3>3
      <3>4. CASE processed' = FALSE
        BY <3>4
      <3>. QED
        BY <3>1, <3>3, <3>4
    <2>3. UNCHANGED <<work, answered, handled, unkept>>
      BY <1>12 DEF Incoming!Cleanup
    <2>4. IncomingTypes' /\ SuccessIsHandled'
      BY <1>t, <2>1, <2>2, <2>3 DEF IncomingTypes, SuccessIsHandled, Incoming!LetterStatus
    <2>5. handled > 0 \/ Incoming!Rows \subseteq Incoming!Rows'
      BY <1>t, <2>1 DEF Incoming!Rows
    <2>6. Incoming!AnsweredIsKept'
      BY <2>3, <2>5 DEF IncomingInductive, IncomingKept, Incoming!IncomingKept,
         Incoming!AnsweredIsKept
    <2>7. Incoming!DoneIsHandled'
      BY <1>t, <2>1, <2>2, <2>3 DEF Incoming!DoneIsHandled
    <2>. QED
      BY <2>4, <2>6, <2>7 DEF IncomingInductive, IncomingKept, Incoming!IncomingKept
  <1>13. CASE Incoming!Crash
    <2>1. /\ work' = [w \in Workers |-> Incoming!NoWork]
          /\ UNCHANGED <<processed, letter, answered, handled, unkept>>
      BY <1>13 DEF Incoming!Crash
    <2>2. IncomingTypes' /\ SuccessIsHandled'
      BY <1>t, <1>n, <2>1 DEF IncomingTypes, SuccessIsHandled
    <2>. QED
      BY <1>t, <2>1, <2>2, LettersKept DEF IncomingTypes, Incoming!Rows
  <1>. QED
    BY <1>1, <1>2, <1>3, <1>5, <1>6, <1>7, <1>9, <1>10, <1>11, <1>12, <1>13 DEF Incoming!Next,
       inVars, Incoming!inVars

\* Whatever deliveries, retries, cleanups and crashes overlap: an answered event
\* was handled or waits, and nothing is on record as done that was not.
THEOREM IncomingEventsKept == Spec => []IncomingKept
  <1>1. Init => IncomingInductive
    BY IncomingInit DEF Init
  <1>2. IncomingInductive /\ [Next]_everyVar => IncomingInductive'
    BY StepOfEach, IncomingStep
  <1>3. IncomingInductive => IncomingKept
    BY DEF IncomingInductive
  <1>. QED
    BY <1>1, <1>2, <1>3, PTL DEF Spec

-----------------------------------------------------------------------------
(* A delivery to a subscriber.                                             *)

ToPost == [op : {"first"}, at : {"start", "post"}] \union [op : {"retry"}, at : {"post"}]
RetryStarts == [op : {"retry"}, at : {"start"}, saw : Nat]
Accepted == [op : {"first", "retry"}, at : {"result"}, ok : {TRUE}]

SendKinds ==
    {Outgoing!Resting} \union ToPost \union RetryStarts \union Accepted
    \union [op : {"first"}, at : {"schedule"}]
    \union [op : {"first", "retry"}, at : {"result"}, ok : {FALSE}]

DeliveryStatus == {"NONE", "PENDING", "SENDING", "SUCCESS", "FAILED"}

OutgoingTypes ==
    /\ status \in DeliveryStatus
    /\ attemptNumber \in Nat /\ posts \in Nat
    /\ accepted \in BOOLEAN /\ interrupted \in BOOLEAN
    /\ send \in [Senders -> SendKinds]

NotYetSent ==
    status = "NONE" => /\ posts = 0 /\ attemptNumber = 1
                       /\ \A s \in Senders : send[s] = Outgoing!Resting

\* Every attempt that was counted has been made or is going to be, unless a
\* sender was interrupted.
Posting == {s \in Senders : send[s] \in ToPost}
Started == IF status = "NONE" THEN 0 ELSE attemptNumber
AttemptsCounted == ~interrupted => posts + Cardinality(Posting) = Started

\* Success is not reported, nor about to be, for what was not accepted.
SuccessTrue ==
    /\ status = "SUCCESS" => accepted
    /\ \A s \in Senders : send[s] \in Accepted => accepted

SawEarlier == \A s \in Senders : send[s] \in RetryStarts => send[s].saw <= attemptNumber

OutgoingInductive ==
    OutgoingTypes /\ NotYetSent /\ AttemptsCounted /\ SuccessTrue /\ SawEarlier

LEMMA KindsApart ==
    /\ Outgoing!Resting \notin ToPost \union RetryStarts \union Accepted
    /\ \A r \in ToPost : r # Outgoing!Resting /\ r \notin RetryStarts \union Accepted
    /\ \A r \in RetryStarts : r # Outgoing!Resting /\ r \notin Accepted
  <1>1. Outgoing!Resting.op = "idle"
    BY DEF Outgoing!Resting
  <1>2. \A r \in ToPost : r.op \in {"first", "retry"} /\ (r.op = "retry" => r.at = "post")
                          /\ r.at # "result"
    BY DEF ToPost
  <1>3. \A r \in RetryStarts : r.op = "retry" /\ r.at = "start"
    BY DEF RetryStarts
  <1>4. \A r \in Accepted : r.op \in {"first", "retry"} /\ r.at = "result"
    BY DEF Accepted
  <1>. QED
    BY <1>1, <1>2, <1>3, <1>4

LEMMA PostingFinite ==
    IsFiniteSet(Posting) /\ Cardinality(Posting) \in Nat
  <1>1. IsFiniteSet(Senders)
    BY DeliveriesAssumption
  <1>2. IsFiniteSet(Posting)
    BY <1>1, FS_Subset DEF Posting
  <1>. QED
    BY <1>2, FS_CardinalityType

LEMMA OutgoingInit == Outgoing!Init => OutgoingInductive
  <1>. SUFFICES ASSUME Outgoing!Init PROVE OutgoingInductive
    OBVIOUS
  <1>1. OutgoingTypes /\ NotYetSent
    BY DEF Outgoing!Init, OutgoingTypes, NotYetSent, SendKinds, DeliveryStatus
  <1>2. Posting = {}
    BY KindsApart DEF Outgoing!Init, Posting
  <1>3. AttemptsCounted
    BY <1>2, FS_EmptySet DEF Outgoing!Init, AttemptsCounted, Started
  <1>4. SuccessTrue /\ SawEarlier
    BY KindsApart DEF Outgoing!Init, SuccessTrue, SawEarlier
  <1>. QED
    BY <1>1, <1>3, <1>4 DEF OutgoingInductive

\* A post counts for the attempt it belongs to.
InPost(r) == IF r \in ToPost THEN 1 ELSE 0

LEMMA PostingMoves ==
    ASSUME OutgoingTypes, NEW s \in Senders, NEW r, send' = [send EXCEPT ![s] = r]
    PROVE  Cardinality(Posting') + InPost(send[s]) = Cardinality(Posting) + InPost(r)
  <1>1. send'[s] = r /\ \A x \in Senders \ {s} : send'[x] = send[x]
    BY DEF OutgoingTypes
  <1> DEFINE Others == Posting \ {s}
  <1>2. IsFiniteSet(Others) /\ Cardinality(Others) \in Nat
    BY PostingFinite, FS_Subset, FS_CardinalityType
  <1>3. Posting = IF send[s] \in ToPost THEN Others \union {s} ELSE Others
    BY DEF Posting
  <1>4. Posting' = IF r \in ToPost THEN Others \union {s} ELSE Others
    BY <1>1 DEF Posting
  <1>5. Cardinality(Others \union {s}) = Cardinality(Others) + 1
    BY <1>2, FS_AddElement
  <1>. QED
    BY <1>2, <1>3, <1>4, <1>5 DEF InPost

\* One sender moves on.
LEMMA SenderMoves ==
    ASSUME OutgoingInductive, NEW s \in Senders, NEW r \in SendKinds,
           send' = [send EXCEPT ![s] = r], UNCHANGED interrupted,
           status' \in DeliveryStatus \ {"NONE"},
           attemptNumber' \in Nat, attemptNumber <= attemptNumber',
           posts' \in Nat, accepted' \in BOOLEAN, accepted => accepted',
           status' = "SUCCESS" => accepted',
           r \in Accepted => accepted',
           r \in RetryStarts => r.saw <= attemptNumber',
           posts' + InPost(r) + Started = posts + InPost(send[s]) + attemptNumber'
    PROVE  OutgoingInductive'
  <1>1. OutgoingTypes' /\ NotYetSent'
    BY DEF OutgoingInductive, OutgoingTypes, NotYetSent
  <1>2. send'[s] = r /\ \A x \in Senders \ {s} : send'[x] = send[x]
    BY DEF OutgoingInductive, OutgoingTypes
  <1>3. AttemptsCounted'
    <2>1. Cardinality(Posting') + InPost(send[s]) = Cardinality(Posting) + InPost(r)
      BY PostingMoves DEF OutgoingInductive
    <2>2. Cardinality(Posting) \in Nat /\ IsFiniteSet(Posting')
      BY PostingFinite, FS_Subset, DeliveriesAssumption DEF Posting
    <2>3. Cardinality(Posting') \in Nat
      BY <2>2, FS_CardinalityType
    <2>4. InPost(r) \in Nat /\ InPost(send[s]) \in Nat
      BY DEF InPost
    <2>5. Started' = attemptNumber' /\ Started \in Nat
      BY DEF Started, OutgoingInductive, OutgoingTypes
    <2>6. posts \in Nat
      BY DEF OutgoingInductive, OutgoingTypes
    <2>7. ASSUME posts + Cardinality(Posting) = Started
          PROVE  posts' + Cardinality(Posting') = Started'
      <3>2. /\ posts \in Nat /\ posts' \in Nat /\ InPost(r) \in Nat /\ InPost(send[s]) \in Nat
        BY <2>4, <2>6
      <3>3. Cardinality(Posting) \in Nat /\ Cardinality(Posting') \in Nat
        BY <2>2, <2>3
      <3>4. Started \in Nat /\ attemptNumber' \in Nat
        BY <2>5
      <3>5. posts' + InPost(r) + Started = posts + InPost(send[s]) + attemptNumber'
        OBVIOUS
      <3>6. posts' + Cardinality(Posting') = attemptNumber'
        <4>. SUFFICES ASSUME NEW c \in Nat, NEW d \in Nat, NEW x \in Nat, NEW y \in Nat,
                             NEW n \in Nat, NEW m \in Nat, NEW p \in Nat, NEW q \in Nat,
                             d + y = c + x, q + x + n = p + y + m, p + c = n
                      PROVE  q + d = m
          BY <2>1, <2>7, <3>2, <3>3, <3>4, <3>5
        <4>. QED
          OBVIOUS
      <3>. QED
        BY <2>5, <3>6
    <2>. QED
      BY <2>7 DEF OutgoingInductive, AttemptsCounted
  <1>4. SuccessTrue'
    BY <1>2 DEF OutgoingInductive, SuccessTrue
  <1>5. SawEarlier'
    <2>1. \A x \in Senders \ {s} : send[x] \in RetryStarts => send[x].saw <= attemptNumber'
      <3>1. attemptNumber \in Nat
        BY DEF OutgoingInductive, OutgoingTypes
      <3>2. \A x \in Senders : send[x] \in RetryStarts => send[x].saw \in Nat
        BY DEF RetryStarts
      <3>. QED
        BY <3>1, <3>2 DEF OutgoingInductive, SawEarlier
    <2>. QED
      BY <1>2, <2>1 DEF SawEarlier
  <1>. QED
    BY <1>1, <1>3, <1>4, <1>5 DEF OutgoingInductive

\* What a sender does next depends on where it is.
LEMMA SenderKind ==
    ASSUME OutgoingInductive, NEW s \in Senders
    PROVE  /\ send[s] \in SendKinds
           /\ send[s] = Outgoing!Resting => InPost(send[s]) = 0
           /\ send[s] # Outgoing!Resting => status # "NONE" /\ Started = attemptNumber
           /\ send[s] # Outgoing!Resting /\ send[s].at = "post" =>
                  send[s] \in ToPost /\ InPost(send[s]) = 1
           /\ send[s] # Outgoing!Resting /\ send[s].at \in {"result", "schedule"} =>
                  send[s] \notin ToPost /\ InPost(send[s]) = 0
           /\ send[s] # Outgoing!Resting /\ send[s].at = "start" /\ send[s].op = "retry" =>
                  send[s] \in RetryStarts /\ send[s] \notin ToPost /\ InPost(send[s]) = 0
           /\ send[s] # Outgoing!Resting /\ send[s].at = "result" /\ send[s].ok => accepted
  <1>1. send[s] \in SendKinds
    BY DEF OutgoingInductive, OutgoingTypes
  <1>2. send[s] = Outgoing!Resting => InPost(send[s]) = 0
    BY KindsApart DEF InPost
  <1>3. send[s] # Outgoing!Resting => status # "NONE" /\ Started = attemptNumber
    BY DEF OutgoingInductive, NotYetSent, Started
  <1>4. send[s] # Outgoing!Resting /\ send[s].at = "post" =>
            send[s] \in ToPost /\ InPost(send[s]) = 1
    BY <1>1 DEF SendKinds, ToPost, RetryStarts, Accepted, InPost
  <1>5. send[s] # Outgoing!Resting /\ send[s].at \in {"result", "schedule"} =>
            send[s] \notin ToPost /\ InPost(send[s]) = 0
    BY <1>1 DEF ToPost, InPost
  <1>6. send[s] # Outgoing!Resting /\ send[s].at = "start" /\ send[s].op = "retry" =>
            send[s] \in RetryStarts /\ send[s] \notin ToPost /\ InPost(send[s]) = 0
    BY <1>1 DEF SendKinds, ToPost, RetryStarts, Accepted, InPost
  <1>7. send[s] # Outgoing!Resting /\ send[s].at = "result" /\ send[s].ok => accepted
    <2>1. send[s] # Outgoing!Resting /\ send[s].at = "result" /\ send[s].ok =>
              send[s] \in Accepted
      BY <1>1 DEF SendKinds, ToPost, RetryStarts, Accepted
    <2>. QED
      BY <2>1 DEF OutgoingInductive, SuccessTrue
  <1>. QED
    BY <1>1, <1>2, <1>3, <1>4, <1>5, <1>6, <1>7

LEMMA SendKindsListed ==
    /\ Outgoing!Resting \in SendKinds
    /\ \A at \in {"start", "post", "schedule"} : [op |-> "first", at |-> at] \in SendKinds
    /\ [op |-> "retry", at |-> "post"] \in SendKinds
    /\ \A n \in Nat : [op |-> "retry", at |-> "start", saw |-> n] \in SendKinds
    /\ \A op \in {"first", "retry"}, ok \in BOOLEAN :
           /\ [op |-> op, at |-> "result", ok |-> ok] \in SendKinds
           /\ [op |-> op, at |-> "result", ok |-> ok] \in Accepted => ok
           /\ [op |-> op, at |-> "result", ok |-> ok] \notin RetryStarts \union ToPost
    /\ InPost(Outgoing!Resting) = 0
    /\ InPost([op |-> "first", at |-> "start"]) = 1 /\ InPost([op |-> "first", at |-> "post"]) = 1
    /\ InPost([op |-> "retry", at |-> "post"]) = 1
    /\ InPost([op |-> "first", at |-> "schedule"]) = 0
    /\ \A n \in Nat : InPost([op |-> "retry", at |-> "start", saw |-> n]) = 0
    /\ \A at \in {"start", "post", "schedule"} :
           [op |-> "first", at |-> at] \notin RetryStarts \union Accepted
    /\ [op |-> "retry", at |-> "post"] \notin RetryStarts \union Accepted
    /\ \A n \in Nat : [op |-> "retry", at |-> "start", saw |-> n] \notin Accepted
  <1>1. Outgoing!Resting \in SendKinds /\ InPost(Outgoing!Resting) = 0
    BY KindsApart DEF SendKinds, InPost
  <1>2. \A at \in {"start", "post", "schedule"} :
            /\ [op |-> "first", at |-> at] \in SendKinds
            /\ [op |-> "first", at |-> at] \notin RetryStarts \union Accepted
    BY DEF SendKinds, ToPost, RetryStarts, Accepted
  <1>3. /\ [op |-> "retry", at |-> "post"] \in ToPost
        /\ [op |-> "first", at |-> "start"] \in ToPost
        /\ [op |-> "first", at |-> "post"] \in ToPost
    BY DEF ToPost
  <1>4. [op |-> "first", at |-> "schedule"] \notin ToPost
    BY DEF ToPost
  <1>5. \A n \in Nat : [op |-> "retry", at |-> "start", saw |-> n] \in RetryStarts
    BY DEF RetryStarts
  <1>6. \A op \in {"first", "retry"}, ok \in BOOLEAN :
            /\ [op |-> op, at |-> "result", ok |-> ok] \in SendKinds
            /\ [op |-> op, at |-> "result", ok |-> ok] \in Accepted => ok
            /\ [op |-> op, at |-> "result", ok |-> ok] \notin RetryStarts \union ToPost
    BY DEF SendKinds, ToPost, RetryStarts, Accepted
  <1>. QED
    BY <1>1, <1>2, <1>3, <1>4, <1>5, <1>6, KindsApart DEF SendKinds, InPost

LEMMA SendStepKeeps ==
    ASSUME OutgoingInductive, NEW s \in Senders,
           Outgoing!dispatch(s) \/ Outgoing!SendStep(s) \/ Outgoing!RetryRead(s)
    PROVE  OutgoingInductive'
  <1>t. /\ status \in DeliveryStatus /\ attemptNumber \in Nat /\ posts \in Nat
        /\ accepted \in BOOLEAN /\ (status = "SUCCESS" => accepted)
    BY DEF OutgoingInductive, OutgoingTypes, SuccessTrue
  <1>d. {"PENDING", "SENDING", "SUCCESS", "FAILED"} = DeliveryStatus \ {"NONE"}
    BY DEF DeliveryStatus
  <1>4. ASSUME NEW r \in SendKinds, send' = [send EXCEPT ![s] = r],
               r \notin RetryStarts \union Accepted,
               InPost(r) + Started = InPost(send[s]) + attemptNumber,
               status' \in DeliveryStatus \ {"NONE"}, status' = "SUCCESS" => accepted,
               UNCHANGED <<attemptNumber, posts, accepted, interrupted>>
        PROVE  OutgoingInductive'
    <2>1. InPost(r) \in Nat /\ InPost(send[s]) \in Nat /\ Started \in Nat
      BY <1>t DEF InPost, Started
    <2>2. posts' + InPost(r) + Started = posts + InPost(send[s]) + attemptNumber'
      BY <1>4, <1>t, <2>1
    <2>3. attemptNumber' \in Nat /\ attemptNumber <= attemptNumber' /\ posts' \in Nat
      BY <1>4, <1>t
    <2>4. accepted' \in BOOLEAN /\ (accepted => accepted') /\ (status' = "SUCCESS" => accepted')
      BY <1>4, <1>t
    <2>. QED
      BY <1>4, <2>2, <2>3, <2>4, SenderMoves
  <1>9. ASSUME send' = [send EXCEPT ![s] = Outgoing!Resting],
               send[s] # Outgoing!Resting, InPost(send[s]) = 0,
               status' \in DeliveryStatus \ {"NONE"}, status' = "SUCCESS" => accepted,
               UNCHANGED <<attemptNumber, posts, accepted, interrupted>>
        PROVE  OutgoingInductive'
    <2>1. /\ Outgoing!Resting \in SendKinds
          /\ Outgoing!Resting \notin RetryStarts \union Accepted
      BY SendKindsListed, KindsApart
    <2>2. Started = attemptNumber /\ InPost(Outgoing!Resting) = 0
      BY <1>9, SenderKind, SendKindsListed
    <2>3. InPost(Outgoing!Resting) + Started = InPost(send[s]) + attemptNumber
      BY <1>9, <1>t, <2>2
    <2>. QED
      BY <1>4, <1>9, <2>1, <2>3
  <1>1. CASE Outgoing!dispatch(s)
    <2> DEFINE r == [op |-> "first", at |-> "start"]
    <2>1. /\ status = "NONE" /\ status' = "PENDING" /\ send' = [send EXCEPT ![s] = r]
          /\ UNCHANGED <<attemptNumber, posts, accepted, interrupted>>
      BY <1>1 DEF Outgoing!dispatch, Outgoing!Goto, Outgoing!receiver, Outgoing!history
    <2>2. posts = 0 /\ attemptNumber = 1 /\ send[s] = Outgoing!Resting /\ Started = 0
      BY <2>1 DEF OutgoingInductive, NotYetSent, Started
    <2>3. InPost(send[s]) = 0
      BY <2>2, SenderKind
    <2>4. r \in SendKinds /\ InPost(r) = 1 /\ r \notin RetryStarts \union Accepted
      BY SendKindsListed
    <2>5. InPost(r) + Started = InPost(send[s]) + attemptNumber
      BY <2>2, <2>3, <2>4
    <2>6. status' \in DeliveryStatus \ {"NONE"} /\ status' # "SUCCESS"
      BY <1>d, <2>1
    <2>. HIDE DEF r
    <2>. QED
      BY <1>4, <2>1, <2>4, <2>5, <2>6
  <1>2. CASE Outgoing!FirstStart(s)
    <2> DEFINE r == [op |-> "first", at |-> "post"]
    <2>1. /\ send[s] = [op |-> "first", at |-> "start"]
          /\ status' = "SENDING" /\ send' = [send EXCEPT ![s] = r]
          /\ UNCHANGED <<attemptNumber, posts, accepted, interrupted>>
      BY <1>2 DEF Outgoing!FirstStart, Outgoing!Goto, Outgoing!receiver, Outgoing!history
    <2>2. Started = attemptNumber
      BY <2>1, SenderKind DEF Outgoing!Resting
    <2>3. InPost(send[s]) = 1
      BY <2>1, SendKindsListed
    <2>4. r \in SendKinds /\ InPost(r) = 1 /\ r \notin RetryStarts \union Accepted
      BY SendKindsListed
    <2>5. InPost(r) + Started = InPost(send[s]) + attemptNumber
      BY <1>t, <2>2, <2>3, <2>4
    <2>6. status' \in DeliveryStatus \ {"NONE"} /\ status' # "SUCCESS"
      BY <1>d, <2>1
    <2>. HIDE DEF r
    <2>. QED
      BY <1>4, <2>1, <2>4, <2>5, <2>6
  <1>3. CASE Outgoing!Post(s)
    <2>1. PICK ok \in BOOLEAN : /\ accepted' = (accepted \/ ok)
                                /\ \E answer \in {ok, FALSE} :
                                       send' = [send EXCEPT ![s] = [op |-> send[s].op,
                                                                    at |-> "result", ok |-> answer]]
      BY <1>3 DEF Outgoing!Post, Outgoing!Goto
    <2>2. PICK answer \in BOOLEAN : /\ answer => accepted'
                                    /\ send' = [send EXCEPT ![s] = [op |-> send[s].op,
                                                                    at |-> "result", ok |-> answer]]
      BY <2>1
    <2> DEFINE r == [op |-> send[s].op, at |-> "result", ok |-> answer]
    <2>3. /\ send[s] # Outgoing!Resting /\ send[s].at = "post" /\ posts' = posts + 1
          /\ UNCHANGED <<status, attemptNumber, interrupted>>
      BY <1>3 DEF Outgoing!Post, Outgoing!row, Outgoing!history
    <2>4. /\ send[s] \in ToPost /\ InPost(send[s]) = 1
          /\ status # "NONE" /\ Started = attemptNumber
      BY <2>3, SenderKind
    <2>5. send[s].op \in {"first", "retry"}
      BY <2>4 DEF ToPost
    <2>6. r \in SendKinds /\ r \notin RetryStarts \union ToPost /\ (r \in Accepted => answer)
      BY <2>5, SendKindsListed
    <2>7. InPost(r) = 0
      BY <2>6 DEF InPost
    <2>8. posts' + InPost(r) + Started = posts + InPost(send[s]) + attemptNumber'
      BY <1>t, <2>3, <2>4, <2>7
    <2>9. accepted' \in BOOLEAN /\ (accepted => accepted')
      BY <1>t, <2>1
    <2>. HIDE DEF r
    <2>10. /\ send' = [send EXCEPT ![s] = r] /\ r \in SendKinds /\ r \notin RetryStarts
           /\ r \in Accepted => accepted'
      BY <2>2, <2>6 DEF r
    <2>11. status' \in DeliveryStatus \ {"NONE"} /\ (status' = "SUCCESS" => accepted')
      BY <1>t, <2>3, <2>4, <2>9
    <2>12. posts' \in Nat /\ attemptNumber' = attemptNumber /\ attemptNumber' \in Nat
      BY <1>t, <2>3
    <2>13. attemptNumber <= attemptNumber'
      BY <2>12
    <2>14. interrupted' = interrupted
      BY <2>3
    <2>. QED
      BY <2>8, <2>9, <2>10, <2>11, <2>12, <2>13, <2>14, SenderMoves
  <1>5. CASE Outgoing!FirstResult(s) \/ Outgoing!RetryResult(s)
    <2>1. /\ send[s] # Outgoing!Resting /\ send[s].at = "result"
          /\ UNCHANGED <<attemptNumber, posts, accepted, interrupted>>
      BY <1>5 DEF Outgoing!FirstResult, Outgoing!RetryResult, Outgoing!receiver, Outgoing!history
    <2>2. InPost(send[s]) = 0 /\ (send[s].ok => accepted)
      BY <2>1, SenderKind
    <2>3. status' \in {"PENDING", "SUCCESS", "FAILED"} /\ (status' = "SUCCESS" => send[s].ok)
      BY <1>5 DEF Outgoing!FirstResult, Outgoing!RetryResult
    <2>4. \/ send' = [send EXCEPT ![s] = Outgoing!Resting]
          \/ send' = [send EXCEPT ![s] = [op |-> "first", at |-> "schedule"]]
      BY <1>5 DEF Outgoing!FirstResult, Outgoing!RetryResult, Outgoing!Done, Outgoing!Goto
    <2>5. status' \in DeliveryStatus \ {"NONE"} /\ (status' = "SUCCESS" => accepted)
      BY <1>d, <2>2, <2>3
    <2>6. UNCHANGED <<attemptNumber, posts, accepted, interrupted>>
      BY <2>1
    <2>7. InPost(send[s]) + attemptNumber = Started
      BY <1>t, <2>1, <2>2, SenderKind
    <2>8. CASE send' = [send EXCEPT ![s] = Outgoing!Resting]
      <3>1. send[s] # Outgoing!Resting
        BY <2>1
      <3>2. InPost(send[s]) = 0
        BY <2>2
      <3>3. status' \in DeliveryStatus \ {"NONE"}
        BY <2>5
      <3>4. ASSUME status' = "SUCCESS" PROVE accepted
        BY <2>5, <3>4
      <3>. QED
        BY <1>9, <2>6, <2>8, <3>1, <3>2, <3>3, <3>4
    <2>9. CASE send' = [send EXCEPT ![s] = [op |-> "first", at |-> "schedule"]]
      <3> DEFINE r == [op |-> "first", at |-> "schedule"]
      <3>1. r \in SendKinds /\ InPost(r) = 0 /\ r \notin RetryStarts \union Accepted
        BY SendKindsListed
      <3>2. InPost(r) + Started = InPost(send[s]) + attemptNumber
        BY <1>t, <2>2, <2>7, <3>1
      <3>. HIDE DEF r
      <3>3. send' = [send EXCEPT ![s] = r]
        BY <2>9 DEF r
      <3>. QED
        BY <1>4, <2>5, <2>6, <3>1, <3>2, <3>3
    <2>. QED
      BY <2>4, <2>8, <2>9
  <1>6. CASE Outgoing!scheduleRetry(s)
    <2>1. /\ send[s] = [op |-> "first", at |-> "schedule"]
          /\ send' = [send EXCEPT ![s] = Outgoing!Resting]
          /\ status' \in {status, "PENDING"}
          /\ UNCHANGED <<attemptNumber, posts, accepted, interrupted>>
      BY <1>6 DEF Outgoing!scheduleRetry, Outgoing!Done, Outgoing!Goto, Outgoing!receiver,
         Outgoing!history
    <2>2. send[s] # Outgoing!Resting /\ InPost(send[s]) = 0
      BY <2>1, SendKindsListed DEF Outgoing!Resting
    <2>3. status' \in DeliveryStatus \ {"NONE"} /\ (status' = "SUCCESS" => accepted)
      BY <1>t, <1>d, <2>1, <2>2, SenderKind
    <2>. QED
      BY <1>9, <2>1, <2>2, <2>3
  <1>7. CASE Outgoing!RetryRead(s)
    <2> DEFINE r == [op |-> "retry", at |-> "start", saw |-> attemptNumber]
    <2>1. /\ send[s] = Outgoing!Resting /\ status = "PENDING" /\ send' = [send EXCEPT ![s] = r]
          /\ UNCHANGED <<status, attemptNumber, posts, accepted, interrupted>>
      BY <1>7 DEF Outgoing!RetryRead, Outgoing!Goto, Outgoing!row, Outgoing!receiver,
         Outgoing!history
    <2>2. InPost(send[s]) = 0 /\ Started = attemptNumber
      BY <2>1, SenderKind DEF Started
    <2>3. r \in SendKinds /\ InPost(r) = 0 /\ r \notin Accepted /\ r.saw = attemptNumber
      BY <1>t, SendKindsListed
    <2>4. posts' + InPost(r) + Started = posts + InPost(send[s]) + attemptNumber'
      BY <1>t, <2>1, <2>2, <2>3
    <2>. HIDE DEF r
    <2>5. r.saw <= attemptNumber' /\ attemptNumber <= attemptNumber' /\ attemptNumber' \in Nat
          /\ posts' \in Nat
      BY <1>t, <2>1, <2>3
    <2>6. status' \in DeliveryStatus \ {"NONE"} /\ status' # "SUCCESS"
      BY <1>d, <2>1
    <2>. QED
      BY <1>t, <2>1, <2>3, <2>4, <2>5, <2>6, SenderMoves
  <1>8. CASE Outgoing!RetryStart(s)
    <2>1. /\ send[s] # Outgoing!Resting /\ send[s].op = "retry" /\ send[s].at = "start"
          /\ UNCHANGED <<posts, accepted, interrupted>>
      BY <1>8 DEF Outgoing!RetryStart, Outgoing!receiver, Outgoing!history
    <2>2. InPost(send[s]) = 0 /\ Started = attemptNumber
      BY <2>1, SenderKind
    <2>3. CASE send[s].saw >= MaxRetries
      <3>1. /\ status' = "FAILED" /\ send' = [send EXCEPT ![s] = Outgoing!Resting]
            /\ UNCHANGED attemptNumber
        BY <1>8, <2>3 DEF Outgoing!RetryStart, Outgoing!Done, Outgoing!Goto
      <3>. QED
        BY <1>9, <1>d, <2>1, <2>2, <3>1
    <2>4. CASE ~(send[s].saw >= MaxRetries)
      <3> DEFINE r == [op |-> "retry", at |-> "post"]
      <3>1. /\ status' = "SENDING" /\ attemptNumber' = attemptNumber + 1
            /\ send' = [send EXCEPT ![s] = r]
        BY <1>8, <2>4 DEF Outgoing!RetryStart, Outgoing!Goto
      <3>2. r \in SendKinds /\ InPost(r) = 1 /\ r \notin RetryStarts \union Accepted
        BY SendKindsListed
      <3>3. posts' + InPost(r) + Started = posts + InPost(send[s]) + attemptNumber'
        BY <1>t, <2>1, <2>2, <3>1, <3>2
      <3>4. attemptNumber' \in Nat /\ attemptNumber <= attemptNumber' /\ posts' \in Nat
        BY <1>t, <2>1, <3>1
      <3>. HIDE DEF r
      <3>. QED
        BY <1>t, <1>d, <2>1, <3>1, <3>2, <3>3, <3>4, SenderMoves
    <2>. QED
      BY <2>3, <2>4
  <1>. QED
    BY <1>1, <1>2, <1>3, <1>5, <1>6, <1>7, <1>8 DEF Outgoing!SendStep

LEMMA OutgoingStep == OutgoingInductive /\ [Outgoing!Next]_outVars => OutgoingInductive'
  <1>. SUFFICES ASSUME OutgoingInductive, [Outgoing!Next]_outVars PROVE OutgoingInductive'
    OBVIOUS
  <1>t. OutgoingTypes
    BY DEF OutgoingInductive
  <1>1. ASSUME UNCHANGED <<attemptNumber, posts, accepted, interrupted, send>>,
               status' \in DeliveryStatus, status' = "SUCCESS" => status = "SUCCESS",
               (status' = "NONE") <=> (status = "NONE")
        PROVE  OutgoingInductive'
    <2>1. OutgoingTypes' /\ NotYetSent'
      BY <1>1 DEF OutgoingInductive, OutgoingTypes, NotYetSent
    <2>2. Posting' = Posting /\ Started' = Started
      BY <1>1 DEF Posting, Started
    <2>3. AttemptsCounted'
      BY <1>1, <2>2 DEF OutgoingInductive, AttemptsCounted
    <2>4. SuccessTrue' /\ SawEarlier'
      BY <1>1 DEF OutgoingInductive, SuccessTrue, SawEarlier
    <2>. QED
      BY <2>1, <2>3, <2>4 DEF OutgoingInductive
  <1>2. CASE UNCHANGED outVars \/ Outgoing!AnHourPasses
    <2>1. UNCHANGED <<status, attemptNumber, posts, accepted, interrupted, send>>
      BY <1>2 DEF outVars, Outgoing!AnHourPasses, Outgoing!receiver, Outgoing!history
    <2>. QED
      BY <1>1, <1>t, <2>1 DEF OutgoingTypes
  <1>3. CASE Outgoing!checkStuckDeliveries
    <2>1. /\ status = "SENDING" /\ status' = "PENDING"
          /\ UNCHANGED <<attemptNumber, posts, accepted, interrupted, send>>
      BY <1>3 DEF Outgoing!checkStuckDeliveries, Outgoing!receiver, Outgoing!history
    <2>. QED
      BY <1>1, <2>1 DEF DeliveryStatus
  <1>4. ASSUME NEW S \in SUBSET Senders, Outgoing!Interrupt(S)
        PROVE  OutgoingInductive'
    <2>1. /\ send' = [s \in Senders |-> IF s \in S THEN Outgoing!Resting ELSE send[s]]
          /\ interrupted' = (interrupted \/ \E s \in S : send[s] # Outgoing!Resting)
          /\ UNCHANGED <<status, attemptNumber, posts, accepted>>
      BY <1>4 DEF Outgoing!Interrupt, Outgoing!row, Outgoing!receiver
    <2>2. \A s \in Senders : send'[s] \in {send[s], Outgoing!Resting}
      BY <2>1
    <2>3. OutgoingTypes'
      <3>1. Outgoing!Resting \in SendKinds
        BY SendKindsListed
      <3>2. send' \in [Senders -> SendKinds]
        BY <1>t, <2>1, <3>1 DEF OutgoingTypes
      <3>3. interrupted' \in BOOLEAN
        BY <2>1
      <3>. QED
        BY <1>t, <2>1, <3>2, <3>3 DEF OutgoingTypes
    <2>4. NotYetSent'
      BY <2>1, <2>2 DEF OutgoingInductive, NotYetSent
    <2>5. AttemptsCounted'
      <3>1. CASE \E s \in S : send[s] # Outgoing!Resting
        BY <2>1, <3>1 DEF AttemptsCounted
      <3>2. CASE \A s \in S : send[s] = Outgoing!Resting
        <4>1. \A s \in Senders : send'[s] = send[s]
          BY <2>1, <3>2
        <4>2. Posting' = Posting /\ Started' = Started
          BY <2>1, <4>1 DEF Posting, Started
        <4>. QED
          BY <2>1, <4>2 DEF OutgoingInductive, AttemptsCounted
      <3>. QED
        BY <3>1, <3>2
    <2>6. SuccessTrue' /\ SawEarlier'
      BY <2>1, <2>2, KindsApart DEF OutgoingInductive, SuccessTrue, SawEarlier
    <2>. QED
      BY <2>3, <2>4, <2>5, <2>6 DEF OutgoingInductive
  <1>5. ASSUME NEW s \in Senders, Outgoing!Interrupt({s})
        PROVE  OutgoingInductive'
    BY <1>4, <1>5
  <1>. QED
    BY <1>2, <1>3, <1>4, <1>5, SendStepKeeps DEF Outgoing!Next, outVars, Outgoing!webhookVars

-----------------------------------------------------------------------------
(* It implements AtLeastOnce.                                              *)

\* While a sender works or the row is not final, the outcome is open.
LEMMA OpenWhile ==
    /\ Outgoing!verdict \in {"open", "delivered", "failed"}
    /\ \A s \in Senders : send[s] # Outgoing!Resting => Outgoing!verdict = "open"
    /\ status \notin {"SUCCESS", "FAILED"} => Outgoing!verdict = "open"
    /\ Outgoing!verdict = "delivered" => status = "SUCCESS"
    /\ Outgoing!verdict = "failed" =>
           status = "FAILED" /\ \A s \in Senders : send[s] = Outgoing!Resting
  BY DEF Outgoing!verdict

Promised == [Outgoing!Promise!Next]_(Outgoing!Promise!deliveryVars)

LEMMA Stutters ==
    ASSUME UNCHANGED <<posts, accepted, interrupted>>, Outgoing!verdict' = Outgoing!verdict
    PROVE  Promised
  BY DEF Promised, Outgoing!Promise!deliveryVars

\* The sender that leaves last, and the attempts made by then.
LEMMA LeavesLast ==
    ASSUME OutgoingInductive, NEW s \in Senders, send[s] # Outgoing!Resting,
           send[s] \notin ToPost, send' = [send EXCEPT ![s] = Outgoing!Resting],
           UNCHANGED <<posts, accepted, interrupted>>,
           status' = "SUCCESS" => accepted,
           status' = "FAILED" => attemptNumber >= MaxRetries
    PROVE  Promised
  <1>1. Outgoing!verdict = "open"
    BY OpenWhile
  <1>2. CASE Outgoing!verdict' = "open"
    BY <1>1, <1>2, Stutters
  <1>3. CASE Outgoing!verdict' = "delivered"
    <2>1. accepted
      BY <1>3 DEF Outgoing!verdict
    <2>. QED
      BY <1>1, <1>3, <2>1 DEF Promised, Outgoing!Promise!Next, Outgoing!Promise!Conclude,
         Outgoing!Promise!Justified
  <1>4. CASE Outgoing!verdict' = "failed"
    <2>1. status' = "FAILED" /\ \A x \in Senders : send'[x] = Outgoing!Resting
      BY <1>4 DEF Outgoing!verdict
    <2>2. \A x \in Senders \ {s} : send[x] = Outgoing!Resting
      BY <2>1 DEF OutgoingInductive, OutgoingTypes
    <2>3. Posting = {}
      BY <2>2, KindsApart DEF Posting
    <2>4. Cardinality(Posting) = 0 /\ Started = attemptNumber
      BY <2>3, FS_EmptySet, SenderKind
    <2>5. ~interrupted => posts >= MaxRetries
      BY <2>1, <2>4, DeliveriesAssumption DEF OutgoingInductive, OutgoingTypes, AttemptsCounted
    <2>. QED
      BY <1>1, <1>4, <2>5 DEF Promised, Outgoing!Promise!Next, Outgoing!Promise!Conclude,
         Outgoing!Promise!Justified
  <1>. QED
    BY <1>2, <1>3, <1>4 DEF Outgoing!verdict

\* A step of the delivery is one of the promise, or none of it.
LEMMA DeliveryStepPromised == OutgoingInductive /\ [Outgoing!Next]_outVars => Promised
  <1>. SUFFICES ASSUME OutgoingInductive, [Outgoing!Next]_outVars PROVE Promised
    OBVIOUS
  <1>t. /\ send \in [Senders -> SendKinds] /\ attemptNumber \in Nat
        /\ status = "SUCCESS" => accepted
    BY DEF OutgoingInductive, OutgoingTypes, SuccessTrue
  <1>o. \/ (\E s \in Senders : send[s] # Outgoing!Resting) \/ status \notin {"SUCCESS", "FAILED"}
        => Outgoing!verdict = "open"
    BY DEF Outgoing!verdict
  <1>p. \/ (\E s \in Senders : send'[s] # Outgoing!Resting)
        \/ status' \notin {"SUCCESS", "FAILED"}
        => Outgoing!verdict' = "open"
    BY DEF Outgoing!verdict
  <1>1. ASSUME UNCHANGED <<posts, accepted, interrupted>>,
               \/ \E s \in Senders : send[s] # Outgoing!Resting
               \/ status \notin {"SUCCESS", "FAILED"},
               \/ \E s \in Senders : send'[s] # Outgoing!Resting
               \/ status' \notin {"SUCCESS", "FAILED"}
        PROVE  Promised
    BY <1>1, <1>o, <1>p, Stutters
  <1>2. CASE UNCHANGED outVars \/ Outgoing!AnHourPasses
    <2>1. UNCHANGED <<status, posts, accepted, interrupted, send>>
      BY <1>2 DEF outVars, Outgoing!AnHourPasses, Outgoing!receiver, Outgoing!history
    <2>. QED
      BY <2>1, Stutters DEF Outgoing!verdict
  <1>3. CASE Outgoing!checkStuckDeliveries
    BY <1>1, <1>3 DEF Outgoing!checkStuckDeliveries, Outgoing!receiver, Outgoing!history
  <1>4. ASSUME NEW S \in SUBSET Senders, Outgoing!Interrupt(S) PROVE Promised
    <2>1. /\ send' = [s \in Senders |-> IF s \in S THEN Outgoing!Resting ELSE send[s]]
          /\ interrupted' = (interrupted \/ \E s \in S : send[s] # Outgoing!Resting)
          /\ UNCHANGED <<status, posts, accepted>>
      BY <1>4 DEF Outgoing!Interrupt, Outgoing!row, Outgoing!receiver
    <2>2. CASE \A s \in S : send[s] = Outgoing!Resting
      <3>1. send' = send
        BY <1>t, <2>1, <2>2
      <3>2. interrupted' = interrupted
        BY <2>1, <2>2 DEF OutgoingInductive, OutgoingTypes
      <3>. QED
        BY <2>1, <3>1, <3>2, Stutters DEF Outgoing!verdict
    <2>3. CASE \E s \in S : send[s] # Outgoing!Resting
      <3>1. Outgoing!verdict = "open" /\ interrupted' = TRUE
        BY <1>o, <2>1, <2>3
      <3>2. \/ Outgoing!verdict' \in {"open", "failed"}
            \/ Outgoing!verdict' = "delivered" /\ accepted
        BY <1>t, <2>1 DEF Outgoing!verdict
      <3>. QED
        BY <2>1, <3>1, <3>2 DEF Promised, Outgoing!Promise!Next, Outgoing!Promise!Interrupt
    <2>. QED
      BY <2>2, <2>3
  <1>5. ASSUME NEW s \in Senders,
               Outgoing!dispatch(s) \/ Outgoing!SendStep(s) \/ Outgoing!RetryRead(s)
        PROVE  Promised
    <2>1. CASE Outgoing!dispatch(s) \/ Outgoing!FirstStart(s) \/ Outgoing!RetryRead(s)
      <3>1. UNCHANGED <<posts, accepted, interrupted>> /\ status' \notin {"SUCCESS", "FAILED"}
        BY <2>1 DEF Outgoing!dispatch, Outgoing!FirstStart, Outgoing!RetryRead, Outgoing!row,
           Outgoing!receiver, Outgoing!history
      <3>2. send[s] # Outgoing!Resting \/ status \notin {"SUCCESS", "FAILED"}
        BY <2>1 DEF Outgoing!dispatch, Outgoing!FirstStart, Outgoing!RetryRead, Outgoing!Resting
      <3>. QED
        BY <1>1, <3>1, <3>2
    <2>2. CASE Outgoing!Post(s)
      <3>1. /\ send[s] # Outgoing!Resting /\ posts' = posts + 1 /\ interrupted' = interrupted
            /\ status' = status
        BY <2>2 DEF Outgoing!Post, Outgoing!row, Outgoing!history
      <3>2. accepted' \in {accepted, TRUE}
        <4>1. PICK ok \in BOOLEAN : accepted' = (accepted \/ ok)
          BY <2>2 DEF Outgoing!Post
        <4>2. accepted \in BOOLEAN
          BY DEF OutgoingInductive, OutgoingTypes
        <4>3. CASE ok = TRUE
          BY <4>1, <4>3
        <4>4. CASE ok = FALSE
          <5>1. accepted' = accepted
            BY <4>1, <4>2, <4>4
          <5>. QED
            BY <5>1
        <4>. QED
          BY <4>3, <4>4
      <3>3. send'[s].op \in {"first", "retry"}
        <4>1. send[s].op \in {"first", "retry"}
          BY <1>t, <3>1 DEF SendKinds, ToPost, RetryStarts, Accepted
        <4>2. PICK ok \in BOOLEAN :
                  send' = [send EXCEPT ![s] = [op |-> send[s].op, at |-> "result", ok |-> ok]]
          BY <2>2 DEF Outgoing!Post, Outgoing!Goto
        <4>. QED
          BY <1>t, <4>1, <4>2
      <3>4. Outgoing!verdict = "open" /\ Outgoing!verdict' = "open"
        BY <1>o, <1>p, <3>1, <3>3 DEF Outgoing!Resting
      <3>. QED
        BY <3>1, <3>2, <3>4 DEF Promised, Outgoing!Promise!Next, Outgoing!Promise!Try
    <2>3. CASE Outgoing!FirstResult(s) \/ Outgoing!RetryResult(s)
      <3>1. /\ send[s] # Outgoing!Resting /\ send[s].at = "result"
            /\ UNCHANGED <<posts, accepted, interrupted>>
        BY <2>3 DEF Outgoing!FirstResult, Outgoing!RetryResult, Outgoing!receiver,
           Outgoing!history
      <3>2. send[s] \notin ToPost /\ (send[s].ok => accepted)
        BY <3>1, SenderKind
      <3>3. CASE send' = [send EXCEPT ![s] = Outgoing!Resting]
        <4>1. status' \in {"SUCCESS", "PENDING"} /\ (status' = "SUCCESS" => send[s].ok)
          <5>1. CASE Outgoing!RetryResult(s)
            BY <5>1 DEF Outgoing!RetryResult
          <5>2. CASE Outgoing!FirstResult(s) /\ send[s].ok
            BY <5>2 DEF Outgoing!FirstResult
          <5>3. CASE Outgoing!FirstResult(s) /\ ~send[s].ok
            <6>1. send'[s] = [op |-> "first", at |-> "schedule"]
              BY <1>t, <5>3 DEF Outgoing!FirstResult, Outgoing!Goto
            <6>2. send'[s] = Outgoing!Resting
              BY <1>t, <3>3
            <6>. QED
              BY <6>1, <6>2 DEF Outgoing!Resting
          <5>. QED
            BY <2>3, <5>1, <5>2, <5>3
        <4>2. status' = "SUCCESS" => accepted
          BY <3>2, <4>1
        <4>3. status' # "FAILED"
          BY <4>1
        <4>. QED
          BY <3>1, <3>2, <3>3, <4>2, <4>3, LeavesLast
      <3>4. CASE send' = [send EXCEPT ![s] = [op |-> "first", at |-> "schedule"]]
        <4>1. send'[s] # Outgoing!Resting
          BY <1>t, <3>4 DEF Outgoing!Resting
        <4>. QED
          BY <1>1, <3>1, <4>1
      <3>. QED
        BY <2>3, <3>3, <3>4 DEF Outgoing!FirstResult, Outgoing!RetryResult, Outgoing!Done,
           Outgoing!Goto
    <2>4. CASE Outgoing!scheduleRetry(s)
      <3>1. /\ send[s] = [op |-> "first", at |-> "schedule"]
            /\ send' = [send EXCEPT ![s] = Outgoing!Resting]
            /\ UNCHANGED <<attemptNumber, posts, accepted, interrupted>>
        BY <2>4 DEF Outgoing!scheduleRetry, Outgoing!Done, Outgoing!Goto, Outgoing!receiver,
           Outgoing!history
      <3>2. send[s] # Outgoing!Resting /\ send[s] \notin ToPost
        BY <3>1 DEF Outgoing!Resting, ToPost
      <3>3. CASE attemptNumber + 1 > MaxRetries
        <4>1. status' = status
          BY <2>4, <3>3 DEF Outgoing!scheduleRetry
        <4>2. attemptNumber >= MaxRetries
          BY <1>t, <3>3, DeliveriesAssumption
        <4>. QED
          BY <1>t, <3>1, <3>2, <4>1, <4>2, LeavesLast
      <3>4. CASE ~(attemptNumber + 1 > MaxRetries)
        <4>1. status' = "PENDING"
          BY <2>4, <3>4 DEF Outgoing!scheduleRetry
        <4>. QED
          BY <1>1, <3>1, <3>2, <4>1
      <3>. QED
        BY <3>3, <3>4
    <2>5. CASE Outgoing!RetryStart(s)
      <3>1. /\ send[s] # Outgoing!Resting /\ send[s].op = "retry" /\ send[s].at = "start"
            /\ UNCHANGED <<posts, accepted, interrupted>>
        BY <2>5 DEF Outgoing!RetryStart, Outgoing!receiver, Outgoing!history
      <3>2. send[s] \in RetryStarts /\ send[s] \notin ToPost
        BY <3>1, SenderKind
      <3>3. CASE send[s].saw >= MaxRetries
        <4>1. /\ status' = "FAILED" /\ send' = [send EXCEPT ![s] = Outgoing!Resting]
              /\ UNCHANGED attemptNumber
          BY <2>5, <3>3 DEF Outgoing!RetryStart, Outgoing!Done, Outgoing!Goto
        <4>2. send[s].saw <= attemptNumber /\ send[s].saw \in Nat
          BY <3>2 DEF OutgoingInductive, SawEarlier, RetryStarts
        <4>3. attemptNumber >= MaxRetries
          BY <1>t, <3>3, <4>2, DeliveriesAssumption
        <4>. QED
          BY <3>1, <3>2, <4>1, <4>3, LeavesLast
      <3>4. CASE ~(send[s].saw >= MaxRetries)
        <4>1. status' = "SENDING"
          BY <2>5, <3>4 DEF Outgoing!RetryStart
        <4>. QED
          BY <1>1, <3>1, <4>1
      <3>. QED
        BY <3>3, <3>4
    <2>. QED
      BY <1>5, <2>1, <2>2, <2>3, <2>4, <2>5 DEF Outgoing!SendStep
  <1>. QED
    BY <1>2, <1>3, <1>4, <1>5 DEF Outgoing!Next, outVars, Outgoing!webhookVars

\* Whatever runs of the retry job overlap, whatever answer is lost and whenever
\* the server stops, a delivery that counts as delivered was accepted, one that
\* counts as failed was tried MaxRetries times or cut short, and neither is taken
\* back (WebhookDispatcherService, WebhookRetryJob): the delivery implements
\* AtLeastOnce, for any number of overlapping runs and any maxRetries.
THEOREM DeliveriesAsPromised == Spec => DeliversAsPromised
  <1>1. Init => OutgoingInductive
    BY OutgoingInit DEF Init
  <1>2. OutgoingInductive /\ [Next]_everyVar => OutgoingInductive'
    BY StepOfEach, OutgoingStep
  <1>3. Init => Outgoing!Promise!Init
    BY DEF Init, Outgoing!Init, Outgoing!Promise!Init, Outgoing!verdict
  <1>4. OutgoingInductive /\ [Next]_everyVar => [Outgoing!Promise!Next]_(Outgoing!Promise!deliveryVars)
    BY StepOfEach, DeliveryStepPromised DEF Promised
  <1>. QED
    BY <1>1, <1>2, <1>3, <1>4, PTL DEF Spec, DeliversAsPromised, Outgoing!DeliversAsPromised,
       Outgoing!Promise!Spec
================================================================================
