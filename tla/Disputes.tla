-------------------------------- MODULE Disputes --------------------------------
(***************************************************************************)
(* A payment dispute: PaymentDisputeService, called by staff and by the    *)
(* charge.dispute.* webhooks, and the provider that decides it.            *)
(*                                                                         *)
(* The provider reports by webhooks that arrive in any order and again     *)
(* until they are acknowledged.  Every call reads the row, staff calls then*)
(* call the provider, and each writes the row by its key in the end,       *)
(* whatever became of it since.                                            *)
(***************************************************************************)
EXTENDS Naturals

CONSTANTS
    Callers,       \* staff requests and webhook deliveries at once
    MaxCrashes     \* bound: crashes of the server in a behaviour

VARIABLES
    provider,      \* the provider's own status of the dispute
    sent,          \* webhooks the provider has sent
    acked,         \* of those, the ones answered with 200
    dispute,       \* the row of PaymentDispute, or NoDispute
    disputeCall,   \* what each caller is doing
    disputeCrashes

disputeVars == <<provider, sent, acked, dispute, disputeCall, disputeCrashes>>

ProviderStatus == {"needs_response", "under_review", "won", "lost"}
Decided == {"won", "lost"}
NoDispute == [status |-> "NONE"]
Quiet == [op |-> "idle"]

normalizeStatus(s) ==
    CASE s = "needs_response" -> "NEEDS_RESPONSE"
      [] s = "under_review" -> "UNDER_REVIEW"
      [] s = "won" -> "WON"
      [] s = "lost" -> "LOST"

Begin(c, r) == disputeCall[c] = Quiet /\ disputeCall' = [disputeCall EXCEPT ![c] = r]
Continue(c, r) == disputeCall' = [disputeCall EXCEPT ![c] = r]
End(c) == Continue(c, Quiet)

-----------------------------------------------------------------------------
(* The provider.                                                           *)

\* A change of status is reported: updated, or closed when it is the last.
ProviderMoves(s) ==
    /\ provider' = s
    /\ sent' = sent \union {[type |-> IF s \in Decided THEN "closed" ELSE "updated", status |-> s]}

Opens ==
    /\ provider = "none"
    /\ provider' = "needs_response"
    /\ sent' = sent \union {[type |-> "created", status |-> "needs_response"]}
    /\ UNCHANGED <<acked, dispute, disputeCall, disputeCrashes>>

\* The bank decides, or the time to answer is over.
Decides ==
    /\ \/ provider = "under_review" /\ \E s \in Decided : ProviderMoves(s)
       \/ provider = "needs_response" /\ ProviderMoves("lost")
    /\ UNCHANGED <<acked, dispute, disputeCall, disputeCrashes>>

-----------------------------------------------------------------------------
(* Staff.                                                                  *)

EvidenceRead(c) ==
    /\ dispute.status \in {"OPEN", "NEEDS_RESPONSE"}
    /\ Begin(c, [op |-> "evidence"])
    /\ UNCHANGED <<provider, sent, acked, dispute, disputeCrashes>>

\* acceptDispute looks for the row, not at its status.
AcceptRead(c) ==
    /\ dispute # NoDispute
    /\ Begin(c, [op |-> "accept"])
    /\ UNCHANGED <<provider, sent, acked, dispute, disputeCrashes>>

\* disputes.update and disputes.close throw for a dispute that is decided, and
\* the call ends there.
submitEvidenceToProvider(c) ==
    /\ disputeCall[c].op = "evidence"
    /\ provider \notin Decided
    /\ ProviderMoves("under_review")
    /\ Continue(c, [op |-> "evidenceWrite"])
    /\ UNCHANGED <<acked, dispute, disputeCrashes>>

\* Faulty variant: the row is written whether the provider accepts or throws.
AcceptRegardless(c) ==
    /\ disputeCall[c].op = "accept"
    /\ IF provider \in Decided THEN UNCHANGED <<provider, sent>> ELSE ProviderMoves("lost")
    /\ Continue(c, [op |-> "acceptWrite"])
    /\ UNCHANGED <<acked, dispute, disputeCrashes>>

acceptDisputeWithProvider(c) ==
    /\ disputeCall[c].op = "accept"
    /\ provider \notin Decided
    /\ ProviderMoves("lost")
    /\ Continue(c, [op |-> "acceptWrite"])
    /\ UNCHANGED <<acked, dispute, disputeCrashes>>

EvidenceWrite(c) ==
    /\ disputeCall[c].op = "evidenceWrite"
    /\ dispute' = [dispute EXCEPT !.status = "EVIDENCE_SUBMITTED"]
    /\ End(c)
    /\ UNCHANGED <<provider, sent, acked, disputeCrashes>>

AcceptWrite(c) ==
    /\ disputeCall[c].op = "acceptWrite"
    /\ dispute' = [status |-> "ACCEPTED", resolution |-> "ACCEPTED", charged |-> TRUE]
    /\ End(c)
    /\ UNCHANGED <<provider, sent, acked, disputeCrashes>>

-----------------------------------------------------------------------------
(* Webhooks.                                                               *)

\* The service looks for the row.
Deliver(c, n) ==
    /\ n \in sent
    /\ Begin(c, [op |-> "webhook", notice |-> n, found |-> dispute # NoDispute])
    /\ UNCHANGED <<provider, sent, acked, dispute, disputeCrashes>>

Acknowledge(c) ==
    /\ acked' = acked \union {disputeCall[c].notice}
    /\ End(c)
    /\ UNCHANGED <<provider, sent, disputeCrashes>>

\* A delivery that found the row does nothing more.  One that did not creates
\* it; when another delivery was faster, that fails and is delivered again.
createFromWebhook(c) ==
    LET k == disputeCall[c]
    IN  /\ k.op = "webhook" /\ k.notice.type = "created"
        /\ IF k.found
           THEN UNCHANGED dispute
           ELSE /\ dispute = NoDispute
                /\ dispute' = [status |-> "OPEN", resolution |-> "NONE", charged |-> FALSE]
        /\ Acknowledge(c)

\* Faulty variant: a dispute that is not known (yet) is no error.
updateUnknownIgnored(c) ==
    LET k == disputeCall[c]
        s == normalizeStatus(k.notice.status)
    IN  /\ k.op = "webhook" /\ k.notice.type # "created"
        /\ IF ~k.found THEN UNCHANGED dispute ELSE
           dispute' = [status |-> s,
                       resolution |-> IF k.notice.type = "closed" THEN s ELSE dispute.resolution,
                       charged |-> dispute.charged \/ s = "LOST"]
        /\ Acknowledge(c)

\* updated and closed: DISPUTE_NOT_FOUND is an error, answered with 500.
updateFromWebhook(c) ==
    LET k == disputeCall[c]
        s == normalizeStatus(k.notice.status)
    IN  /\ k.op = "webhook" /\ k.notice.type # "created" /\ k.found
        /\ dispute' = [status |-> s,
                       resolution |-> IF k.notice.type = "closed" THEN s ELSE dispute.resolution,
                       charged |-> dispute.charged \/ s = "LOST"]
        /\ Acknowledge(c)

\* A call ends with an error and writes nothing.
Fail(c) ==
    /\ disputeCall[c] # Quiet
    /\ End(c)
    /\ UNCHANGED <<provider, sent, acked, dispute, disputeCrashes>>

Crash ==
    /\ disputeCrashes < MaxCrashes
    /\ disputeCrashes' = disputeCrashes + 1
    /\ disputeCall' = [c \in Callers |-> Quiet]
    /\ UNCHANGED <<provider, sent, acked, dispute>>

-----------------------------------------------------------------------------
Init ==
    /\ provider = "none"
    /\ sent = {} /\ acked = {}
    /\ dispute = NoDispute
    /\ disputeCall = [c \in Callers |-> Quiet]
    /\ disputeCrashes = 0

WebhookWrite(c) == createFromWebhook(c) \/ updateFromWebhook(c)

CallerStep(c) ==
    \/ EvidenceRead(c) \/ submitEvidenceToProvider(c) \/ EvidenceWrite(c)
    \/ AcceptRead(c) \/ acceptDisputeWithProvider(c) \/ AcceptWrite(c)
    \/ \E n \in sent : Deliver(c, n)
    \/ WebhookWrite(c)
    \/ Fail(c)

Next == (\E c \in Callers : CallerStep(c)) \/ Opens \/ Decides \/ Crash

Spec == Init /\ [][Next]_disputeVars

Notices == [type : {"created"}, status : {"needs_response"}]
    \union [type : {"updated"}, status : {"under_review"}]
    \union [type : {"closed"}, status : Decided]

DeliverUnacked(n) == \E c \in Callers : n \notin acked /\ Deliver(c, n)
Answer(n) == \E c \in Callers : disputeCall[c].op = "webhook" /\ disputeCall[c].notice = n /\ WebhookWrite(c)

\* The provider delivers a webhook again until it is acknowledged, a delivery
\* does not fail for ever where it could succeed, and calls end.
Fairness ==
    /\ \A n \in Notices : SF_disputeVars(DeliverUnacked(n)) /\ SF_disputeVars(Answer(n))
    /\ \A c \in Callers : WF_disputeVars(WebhookWrite(c) \/ EvidenceWrite(c) \/ AcceptWrite(c) \/ Fail(c))

FairSpec == Spec /\ Fairness

-----------------------------------------------------------------------------
\* A chargeback is on record only for a dispute that the provider decided
\* against the shop: a staff call that overlaps the decision of the bank, a late
\* or repeated webhook or a crash in between books none.
ChargebackReal == dispute # NoDispute /\ dispute.charged => provider = "lost"

\* A dispute that the provider decided against the shop is charged back on
\* record in the end, also when closed is delivered before created.
LossRecorded == provider = "lost" ~> dispute # NoDispute /\ dispute.charged
================================================================================
