------------------------------- MODULE MCLoops -------------------------------
(* For TLC: the loops that come back to what is left undone, and what the      *)
(* fairness of each brings about.  Each behaviour takes the steps of one.      *)
EXTENDS WebhookDelivery, ConfirmationQueue, Schedules

CONSTANTS x1, x2

\* Nothing that is fair is enabled in the first state of a part: one that is
\* not chosen stays there.
VARIABLE service

MCInit ==
    /\ service \in {"webhooks", "calls", "schedules"}
    /\ HookInit /\ CallInit /\ ScheduleInit

Runs(s, step, unchanged) == IF service = s THEN step ELSE UNCHANGED unchanged

MCNext ==
    /\ Runs("webhooks", HookNext, hookVars)
    /\ Runs("calls", CallNext, callVars)
    /\ Runs("schedules", ScheduleNext, scheduleVars)
    /\ UNCHANGED service

MCFairSpec ==
    /\ MCInit /\ [][MCNext]_<<service, hookVars, callVars, scheduleVars>>
    /\ HookFairness /\ CallFairness /\ ScheduleFairness
=============================================================================
