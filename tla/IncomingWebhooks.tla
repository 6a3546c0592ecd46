--------------------------- MODULE IncomingWebhooks ---------------------------
(***************************************************************************)
(* One event of a provider on its way through WebhookReceiverService: the  *)
(* lookup of processed events, the handler, the dead letter queue for what *)
(* failed and its retries by an administrator.  StripeWebhookController    *)
(* answers 200 whatever happened, so a delivery that got an answer is not  *)
(* repeated because it failed.                                             *)
(***************************************************************************)
EXTENDS Integers, FiniteSets

CONSTANTS
    Workers,      \* deliveries and administrator requests at once
    Letters,      \* primary keys for rows of WebhookDeadLetter
    MaxStarts     \* bound: deliveries and retries in a behaviour

VARIABLES
    processed,    \* the row of WebhookEvent with processedAt
    letter,       \* rows of WebhookDeadLetter: FAILED, RETRYING, ...
    work,         \* what each worker is doing
    answered,     \* the provider was answered 200
    handled,      \* how often the handler ran to its end
    unkept,       \* history: the dead letter could not be written
    starts

inVars == <<processed, letter, work, answered, handled, unkept, starts>>

LetterStatus == {"NONE", "FAILED", "RETRYING", "RESOLVED", "ABANDONED"}
NoWork == [op |-> "idle"]
Rows == {l \in Letters : letter[l] # "NONE"}

Start(w, r) ==
    /\ starts < MaxStarts /\ starts' = starts + 1
    /\ work[w] = NoWork
    /\ work' = [work EXCEPT ![w] = r]
Goto(w, r) == work' = [work EXCEPT ![w] = r] /\ UNCHANGED starts
Done(w) == Goto(w, NoWork)

-----------------------------------------------------------------------------
(* A delivery.                                                             *)

\* isWebhookProcessed: a known event is a duplicate.
Receive(w) ==
    /\ IF processed
       THEN /\ answered' = TRUE
            /\ UNCHANGED <<work, starts>>
       ELSE /\ Start(w, [op |-> "deliver", at |-> "handler"])
            /\ UNCHANGED answered
    /\ UNCHANGED <<processed, letter, handled, unkept>>

\* The handler succeeds or throws; in a retry, too.
Handle(w) ==
    /\ work[w] # NoWork /\ work[w].at = "handler"
    /\ \/ handled' = handled + 1 /\ Goto(w, [work[w] EXCEPT !.at = "success"])
       \/ UNCHANGED handled /\ Goto(w, [work[w] EXCEPT !.at = "failure"])
    /\ UNCHANGED <<processed, letter, answered, unkept>>

\* markProcessed upserts; an error of its own is caught and logged.
markProcessed(w) ==
    /\ work[w] # NoWork /\ work[w].op = "deliver" /\ work[w].at = "success"
    /\ processed' \in {TRUE, processed}
    /\ answered' = TRUE
    /\ Done(w)
    /\ UNCHANGED <<letter, handled, unkept>>

\* Faulty variant: what a handler could not do is marked as processed, too.
DeadLetterMarked(w) ==
    /\ work[w] # NoWork /\ work[w].op = "deliver" /\ work[w].at = "failure"
    /\ processed' = TRUE
    /\ answered' = TRUE
    /\ Done(w)
    /\ UNCHANGED <<letter, handled, unkept>>

\* WebhookDeadLetterQueue.add; if that fails, too, nothing is left but the log.
add(w) ==
    /\ work[w] # NoWork /\ work[w].op = "deliver" /\ work[w].at = "failure"
    /\ \/ /\ \E l \in Letters \ Rows : letter' = [letter EXCEPT ![l] = "FAILED"]
          /\ UNCHANGED unkept
       \/ unkept' = TRUE /\ UNCHANGED letter
    /\ answered' = TRUE
    /\ Done(w)
    /\ UNCHANGED <<processed, handled>>

-----------------------------------------------------------------------------
(* The administrator.                                                      *)

\* retry refuses only what is RESOLVED; retryBulk asks for what is FAILED.
RetryRead(w, l) ==
    /\ letter[l] \in {"FAILED", "RETRYING", "ABANDONED"}
    /\ Start(w, [op |-> "retry", at |-> "mark", row |-> l])
    /\ UNCHANGED <<processed, letter, answered, handled, unkept>>

RetryMark(w) ==
    /\ work[w] # NoWork /\ work[w].op = "retry" /\ work[w].at = "mark"
    /\ letter' = [letter EXCEPT ![work[w].row] = "RETRYING"]
    /\ Goto(w, [work[w] EXCEPT !.at = "handler"])
    /\ UNCHANGED <<processed, answered, handled, unkept>>

RetryEnd(w) ==
    /\ work[w] # NoWork /\ work[w].op = "retry" /\ work[w].at \in {"success", "failure"}
    /\ letter' = [letter EXCEPT ![work[w].row] =
                      IF work[w].at = "success" THEN "RESOLVED" ELSE "FAILED"]
    /\ Done(w)
    /\ UNCHANGED <<processed, answered, handled, unkept>>

abandon(l) ==
    /\ letter[l] # "NONE"
    /\ letter' = [letter EXCEPT ![l] = "ABANDONED"]
    /\ UNCHANGED <<processed, work, answered, handled, unkept, starts>>

\* WebhookCleanupJob: old events and resolved letters.
Cleanup ==
    /\ processed' \in {processed, FALSE}
    /\ \E old \in SUBSET {l \in Letters : letter[l] = "RESOLVED"} :
           letter' = [l \in Letters |-> IF l \in old THEN "NONE" ELSE letter[l]]
    /\ UNCHANGED <<work, answered, handled, unkept, starts>>

\* The server stops: an open delivery gets no answer.
Crash ==
    /\ \E w \in Workers : work[w] # NoWork
    /\ work' = [w \in Workers |-> NoWork]
    /\ UNCHANGED <<processed, letter, answered, handled, unkept, starts>>

-----------------------------------------------------------------------------
Init ==
    /\ processed = FALSE
    /\ letter = [l \in Letters |-> "NONE"]
    /\ work = [w \in Workers |-> NoWork]
    /\ answered = FALSE /\ handled = 0 /\ unkept = FALSE /\ starts = 0

Next ==
    \/ \E w \in Workers :
           \/ Receive(w) \/ Handle(w) \/ markProcessed(w) \/ add(w)
           \/ \E l \in Letters : RetryRead(w, l)
           \/ RetryMark(w) \/ RetryEnd(w)
    \/ \E l \in Letters : abandon(l)
    \/ Cleanup
    \/ Crash

Spec == Init /\ [][Next]_inVars

-----------------------------------------------------------------------------
\* An event the provider believes delivered was handled or waits in the dead
\* letter queue, unless the queue itself failed.
AnsweredIsKept == answered => handled > 0 \/ Rows # {} \/ unkept

\* What is on record as done was done: overlapping retries, a crash in a retry
\* and old rows swept away make nothing RESOLVED or processed that is not.
DoneIsHandled == processed \/ (\E l \in Letters : letter[l] = "RESOLVED") => handled > 0

IncomingKept == AnsweredIsKept /\ DoneIsHandled
================================================================================
