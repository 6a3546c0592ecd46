------------------------------ MODULE Deliveries ------------------------------
(***************************************************************************)
(* The exchanges with other systems that come late, twice or not at all: a *)
(* webhook sent to a subscriber, a dispute told by the payment provider,   *)
(* and an incoming event with its dead letters.  They share no state; a    *)
(* behaviour follows one of them, named by focus.                          *)
(***************************************************************************)
EXTENDS Integers, FiniteSets

CONSTANTS
    Senders, MaxRetries,    \* of OutgoingWebhooks
    Callers,                \* of Disputes
    Workers, Letters,       \* of IncomingWebhooks
    MaxCrashes, MaxStarts   \* bounds

ASSUME DeliveriesAssumption == IsFiniteSet(Senders) /\ MaxRetries \in Nat

VARIABLES
    focus,
    status, attemptNumber, nextRetryAt, overAnHour, send, posts, accepted,
    orphaned, interrupted, wCrashes,
    provider, sent, acked, dispute, disputeCall, disputeCrashes,
    processed, letter, work, answered, handled, unkept, starts

outVars == <<status, attemptNumber, nextRetryAt, overAnHour, send, posts, accepted,
             orphaned, interrupted, wCrashes>>
disputeVars == <<provider, sent, acked, dispute, disputeCall, disputeCrashes>>
inVars == <<processed, letter, work, answered, handled, unkept, starts>>
everyVar == <<focus, outVars, disputeVars, inVars>>

Outgoing == INSTANCE OutgoingWebhooks
Disputed == INSTANCE Disputes
Incoming == INSTANCE IncomingWebhooks

Init ==
    /\ focus \in {"out", "dispute", "in"}
    /\ Outgoing!Init
    /\ Disputed!Init
    /\ Incoming!Init

Next ==
    \/ focus = "out" /\ Outgoing!Next /\ UNCHANGED <<focus, disputeVars, inVars>>
    \/ focus = "dispute" /\ Disputed!Next /\ UNCHANGED <<focus, outVars, inVars>>
    \/ focus = "in" /\ Incoming!Next /\ UNCHANGED <<focus, outVars, disputeVars>>

Spec == Init /\ [][Next]_everyVar

\* The fairness conditions of OutgoingWebhooks and of Disputes.
Fairness ==
    /\ \A s \in Senders :
           /\ WF_outVars(focus = "out" /\ Outgoing!SendStep(s))
           /\ SF_outVars(focus = "out" /\ Outgoing!RetryRead(s))
    /\ WF_outVars(focus = "out" /\ Outgoing!checkStuckDeliveries)
    /\ WF_outVars(focus = "out" /\ Outgoing!AnHourPasses)
    /\ \A n \in Disputed!Notices :
           /\ SF_disputeVars(focus = "dispute" /\ Disputed!DeliverUnacked(n))
           /\ SF_disputeVars(focus = "dispute" /\ Disputed!Answer(n))
    /\ \A c \in Callers :
           WF_disputeVars(/\ focus = "dispute"
                          /\ \/ Disputed!WebhookWrite(c) \/ Disputed!EvidenceWrite(c)
                             \/ Disputed!AcceptWrite(c) \/ Disputed!Fail(c))

FairSpec == Spec /\ Fairness

-----------------------------------------------------------------------------
\* A delivery to a subscriber keeps what AtLeastOnce promises, and ends.
DeliversAsPromised == Outgoing!DeliversAsPromised
DeliverySettles == Outgoing!DeliverySettles

\* No chargeback is booked that the provider did not decide, and each that it
\* decided is booked.
ChargebackReal == Disputed!ChargebackReal
LossRecorded == Disputed!LossRecorded

\* An incoming event that was answered is handled or kept.
IncomingKept == Incoming!IncomingKept
================================================================================
