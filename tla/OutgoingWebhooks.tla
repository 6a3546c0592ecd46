--------------------------- MODULE OutgoingWebhooks ---------------------------
(***************************************************************************)
(* The delivery of one event to one subscriber's webhook: the dispatcher   *)
(* that creates the row and sends it, WebhookRetryJob, and the part of     *)
(* WebhookMonitoringJob that brings stuck deliveries back.                 *)
(*                                                                         *)
(* Every step is a statement of its own, runs of the retry job overlap when*)
(* receivers are slow, and the answer of a receiver can be lost.           *)
(***************************************************************************)
EXTENDS Integers

CONSTANTS
    Senders,      \* the dispatcher's call and runs of the retry job
    MaxRetries,   \* Webhook.maxRetries
    MaxCrashes    \* bound: crashes and database errors in a behaviour

VARIABLES
    status,       \* WebhookDelivery.status, "NONE" before there is a row
    attemptNumber,
    nextRetryAt,  \* whether the column is set; a set time comes
    overAnHour,   \* the row was created more than an hour ago
    send,         \* what each sender is doing, and what it read
    posts,        \* requests sent to the receiver
    accepted,     \* the receiver accepted one of them
    orphaned,     \* history: the server stopped between the create and the send
    interrupted,  \* history: the server stopped, or a write failed, in a send
    wCrashes

webhookVars == <<status, attemptNumber, nextRetryAt, overAnHour, send, posts,
                 accepted, orphaned, interrupted, wCrashes>>

row == <<status, attemptNumber, nextRetryAt, overAnHour>>
receiver == <<posts, accepted>>
history == <<orphaned, interrupted, wCrashes>>

Resting == [op |-> "idle"]
Goto(s, r) == send' = [send EXCEPT ![s] = r]
Done(s) == Goto(s, Resting)

-----------------------------------------------------------------------------
\* dispatch creates the row and starts sendWebhook without waiting for it.
dispatch(s) ==
    /\ status = "NONE"
    /\ status' = "PENDING"
    /\ Goto(s, [op |-> "first", at |-> "start"])
    /\ UNCHANGED <<attemptNumber, nextRetryAt, overAnHour, receiver, history>>

FirstStart(s) ==
    /\ send[s] = [op |-> "first", at |-> "start"]
    /\ status' = "SENDING"
    /\ Goto(s, [op |-> "first", at |-> "post"])
    /\ UNCHANGED <<attemptNumber, nextRetryAt, overAnHour, receiver, history>>

\* The receiver accepts the request or not, or never gets it; its answer may be
\* lost.
Post(s) ==
    /\ send[s] # Resting /\ send[s].at = "post"
    /\ posts' = posts + 1
    /\ \E ok \in BOOLEAN :
           /\ accepted' = (accepted \/ ok)
           /\ \E answer \in {ok, FALSE} : Goto(s, [op |-> send[s].op, at |-> "result", ok |-> answer])
    /\ UNCHANGED <<row, history>>

\* SUCCESS, FAILED or TIMEOUT; the last two are the same to everyone.
FirstResult(s) ==
    /\ send[s] # Resting /\ send[s].op = "first" /\ send[s].at = "result"
    /\ IF send[s].ok
       THEN status' = "SUCCESS" /\ Done(s)
       ELSE status' = "FAILED" /\ Goto(s, [op |-> "first", at |-> "schedule"])
    /\ UNCHANGED <<attemptNumber, nextRetryAt, overAnHour, receiver, history>>

scheduleRetry(s) ==
    /\ send[s] = [op |-> "first", at |-> "schedule"]
    /\ IF attemptNumber + 1 > MaxRetries
       THEN UNCHANGED <<status, nextRetryAt>>
       ELSE status' = "PENDING" /\ nextRetryAt' = TRUE
    /\ Done(s)
    /\ UNCHANGED <<attemptNumber, overAnHour, receiver, history>>

-----------------------------------------------------------------------------
\* A run of the retry job lists what is PENDING and due: the row stays in the
\* list of a slow run while others take it.
RetryRead(s) ==
    /\ send[s] = Resting
    /\ status = "PENDING" /\ nextRetryAt
    /\ Goto(s, [op |-> "retry", at |-> "start", saw |-> attemptNumber])
    /\ UNCHANGED <<row, receiver, history>>

\* Faulty variant: attempts are counted from 0, and the last one is not made.
RetryStartShort(s) ==
    /\ send[s] # Resting /\ send[s].op = "retry" /\ send[s].at = "start"
    /\ IF send[s].saw + 1 >= MaxRetries
       THEN status' = "FAILED" /\ Done(s) /\ UNCHANGED attemptNumber
       ELSE /\ status' = "SENDING" /\ attemptNumber' = attemptNumber + 1
            /\ Goto(s, [op |-> "retry", at |-> "post"])
    /\ UNCHANGED <<nextRetryAt, overAnHour, receiver, history>>

RetryStart(s) ==
    /\ send[s] # Resting /\ send[s].op = "retry" /\ send[s].at = "start"
    /\ IF send[s].saw >= MaxRetries
       THEN status' = "FAILED" /\ Done(s) /\ UNCHANGED attemptNumber
       ELSE /\ status' = "SENDING" /\ attemptNumber' = attemptNumber + 1
            /\ Goto(s, [op |-> "retry", at |-> "post"])
    /\ UNCHANGED <<nextRetryAt, overAnHour, receiver, history>>

RetryResult(s) ==
    /\ send[s] # Resting /\ send[s].op = "retry" /\ send[s].at = "result"
    /\ IF send[s].ok
       THEN status' = "SUCCESS" /\ UNCHANGED nextRetryAt
       ELSE status' = "PENDING" /\ nextRetryAt' = TRUE
    /\ Done(s)
    /\ UNCHANGED <<attemptNumber, overAnHour, receiver, history>>

\* Faulty variant: only rows that were never retried are looked at.
MonitorFirstOnly ==
    /\ status = "SENDING" /\ overAnHour /\ attemptNumber = 1
    /\ status' = "PENDING" /\ nextRetryAt' = TRUE
    /\ UNCHANGED <<attemptNumber, overAnHour, send, receiver, history>>

\* checkStuckDeliveries: by the age of the row, not of the attempt.
checkStuckDeliveries ==
    /\ status = "SENDING" /\ overAnHour
    /\ status' = "PENDING" /\ nextRetryAt' = TRUE
    /\ UNCHANGED <<attemptNumber, overAnHour, send, receiver, history>>

AnHourPasses ==
    /\ status # "NONE" /\ overAnHour' = TRUE
    /\ UNCHANGED <<status, attemptNumber, nextRetryAt, send, receiver, history>>

\* The server stops, or, for one sender, a write of its own fails.
Interrupt(S) ==
    /\ wCrashes < MaxCrashes
    /\ wCrashes' = wCrashes + 1
    /\ send' = [s \in Senders |-> IF s \in S THEN Resting ELSE send[s]]
    /\ orphaned' = (orphaned \/ \E s \in S : send[s] = [op |-> "first", at |-> "start"])
    /\ interrupted' = (interrupted \/ \E s \in S : send[s] # Resting)
    /\ UNCHANGED <<row, receiver>>

-----------------------------------------------------------------------------
Init ==
    /\ status = "NONE"
    /\ attemptNumber = 1
    /\ nextRetryAt = FALSE /\ overAnHour = FALSE
    /\ send = [s \in Senders |-> Resting]
    /\ posts = 0 /\ accepted = FALSE
    /\ orphaned = FALSE /\ interrupted = FALSE /\ wCrashes = 0

SendStep(s) ==
    \/ FirstStart(s) \/ Post(s) \/ FirstResult(s) \/ scheduleRetry(s)
    \/ RetryStart(s) \/ RetryResult(s)

Next ==
    \/ \E s \in Senders : dispatch(s) \/ SendStep(s) \/ RetryRead(s) \/ Interrupt({s})
    \/ Interrupt(Senders)
    \/ checkStuckDeliveries
    \/ AnHourPasses

Spec == Init /\ [][Next]_webhookVars

\* Open calls go on, the jobs run again and again, and time passes.
Fairness ==
    /\ \A s \in Senders : WF_webhookVars(SendStep(s)) /\ SF_webhookVars(RetryRead(s))
    /\ WF_webhookVars(checkStuckDeliveries)
    /\ WF_webhookVars(AnHourPasses)

FairSpec == Spec /\ Fairness

-----------------------------------------------------------------------------
\* Nobody is working on the delivery and nobody will: the row tells how it ended.
verdict ==
    IF (\E s \in Senders : send[s] # Resting) \/ status \notin {"SUCCESS", "FAILED"}
    THEN "open"
    ELSE IF status = "SUCCESS" THEN "delivered" ELSE "failed"

\* What the code promises its subscribers: a delivery that counts as delivered
\* was accepted, one that counts as failed was tried MaxRetries times or cut
\* short, and neither is ever taken back, although several runs of the job can
\* send the same row and overwrite each other's status.
Promise == INSTANCE AtLeastOnce WITH MaxTries <- MaxRetries, tries <- posts

DeliversAsPromised == Promise!Spec

\* Every delivery is accepted or given up in the end, whatever crashes and runs
\* overlap, unless the server stopped between the create and the first send:
\* nextRetryAt is null then and no job looks at the row.
DeliverySettles == status # "NONE" ~> orphaned \/ verdict # "open"
================================================================================
