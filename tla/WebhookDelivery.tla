--------------------------- MODULE WebhookDelivery ---------------------------
(***************************************************************************)
(* Outbound webhooks to one endpoint: webhookDispatcher's loop (the API    *)
(* process and the job worker both run it), the Redeliver and Resend       *)
(* buttons, and webhookHealth, which switches a failing endpoint off.      *)
(*                                                                         *)
(* An attempt loads the row and the endpoint, sends, and then writes both  *)
(* from what it loaded; an update writes only the columns whose value      *)
(* differs from the loaded one.                                            *)
(***************************************************************************)
EXTENDS Integers, FiniteSets

CONSTANTS
    Hooks,          \* bound: webhook_deliveries rows
    LoopSenders,    \* bound: attempts the loops make at one time
    ButtonSenders,  \* bound: Redeliver requests at one time
    MaxTries,       \* MAX_ATTEMPTS
    MaxCrashes,     \* bound: attempts cut off
    NoHook

ASSUME HookAssumption ==
    /\ IsFiniteSet(Hooks) /\ NoHook \notin Hooks
    /\ IsFiniteSet(LoopSenders) /\ IsFiniteSet(ButtonSenders)
    /\ LoopSenders \cap ButtonSenders = {}
    /\ MaxTries \in Nat \ {0} /\ MaxCrashes \in Nat

VARIABLES
    hook,           \* the rows
    endpoint,       \* is_active, and how long failing_since has stood
    sender,         \* each attempt
    sends,          \* requests that left for each row
    heard,          \* rows the receiver answered 2xx
    stopped,        \* rows found at a paused endpoint
    pressed,        \* rows a button was pressed for
    sendCrashes

hookVars == <<hook, endpoint, sender, sends, heard, stopped, pressed, sendCrashes>>

Senders == LoopSenders \cup ButtonSenders
NotSending == [at |-> "idle", hook |-> NoHook, status |-> "none", due |-> "none", tries |-> 0,
         failing |-> "no", ok |-> FALSE]

On(d, at) == {s \in Senders : sender[s].hook = d /\ sender[s].at \in at}
UnderWay  == {s \in Senders : sender[s].at \in {"sending", "answered", "recorded"}}

HookInit ==
    /\ hook = [d \in Hooks |-> [status |-> "none", due |-> "none", tries |-> 0]]
    /\ endpoint = [active |-> TRUE, failing |-> "no"]
    /\ sender = [s \in Senders |-> NotSending]
    /\ sends = [d \in Hooks |-> 0]
    /\ heard = {} /\ stopped = {} /\ pressed = {}
    /\ sendCrashes = 0

-----------------------------------------------------------------------------
(* Time: a retry's wait is longer than a request, and a claim's lease is   *)
(* longer than the batch it was taken for.                                 *)

WaitOver(d) ==
    /\ hook[d].due = "later" /\ On(d, {"sending", "answered"}) = {}
    /\ hook' = [hook EXCEPT ![d].due = "now"]
    /\ UNCHANGED <<endpoint, sender, sends, heard, stopped, pressed, sendCrashes>>

LeaseOver(d) ==
    /\ hook[d].due = "leased" /\ On(d, {"claimed", "sending", "answered"}) = {}
    /\ hook' = [hook EXCEPT ![d].due = "now"]
    /\ UNCHANGED <<endpoint, sender, sends, heard, stopped, pressed, sendCrashes>>

-----------------------------------------------------------------------------
(* The fan-out of an event to an active endpoint.                          *)

QueueDelivery(d) ==
    /\ hook[d].status = "none" /\ endpoint.active
    /\ hook' = [hook EXCEPT ![d].status = "pending", ![d].due = "now"]
    /\ UNCHANGED <<endpoint, sender, sends, heard, stopped, pressed, sendCrashes>>

-----------------------------------------------------------------------------
(* claimDue and attemptDelivery.                                           *)

\* Mistaken form: a claim leaves the row due until it was sent.
Leased_Later(row) == row

Leased(row) == [row EXCEPT !.due = "leased"]

\* Mistaken form: only a row that was never tried is claimed.
Claimable_New(d) == hook[d].status = "pending" /\ hook[d].due = "now"

Claimable(d) == hook[d].status \in {"pending", "failed"} /\ hook[d].due = "now"

ClaimHook(s, d) ==
    /\ s \in LoopSenders /\ sender[s].at = "idle" /\ Claimable(d)
    /\ hook' = [hook EXCEPT ![d] = Leased(@)]
    /\ sender' = [sender EXCEPT ![s] = [NotSending EXCEPT !.at = "claimed", !.hook = d]]
    /\ UNCHANGED <<endpoint, sends, heard, stopped, pressed, sendCrashes>>

\* Redeliver and Resend, for a row in whatever state.
Press(s, d) ==
    /\ s \in ButtonSenders /\ sender[s].at = "idle"
    /\ hook[d].status # "none" /\ d \notin pressed
    /\ sender' = [sender EXCEPT ![s] = [NotSending EXCEPT !.at = "claimed", !.hook = d]]
    /\ pressed' = pressed \cup {d}
    /\ UNCHANGED <<hook, endpoint, sends, heard, stopped, sendCrashes>>

\* A paused endpoint keeps its backlog, unscheduled.
FindPaused(s) ==
    LET d == sender[s].hook IN
    /\ sender[s].at = "claimed" /\ ~endpoint.active
    /\ hook' = [hook EXCEPT ![d] = [@ EXCEPT !.status = "failed", !.due = "none"]]
    /\ sender' = [sender EXCEPT ![s] = NotSending]
    /\ stopped' = stopped \cup {d}
    /\ UNCHANGED <<endpoint, sends, heard, pressed, sendCrashes>>

Send(s) ==
    LET d == sender[s].hook IN
    /\ sender[s].at = "claimed" /\ endpoint.active
    /\ sender' = [sender EXCEPT ![s] = [at |-> "sending", hook |-> d, status |-> hook[d].status,
                     due |-> hook[d].due, tries |-> hook[d].tries, failing |-> endpoint.failing, ok |-> FALSE]]
    /\ sends' = [sends EXCEPT ![d] = @ + 1]
    /\ UNCHANGED <<hook, endpoint, heard, stopped, pressed, sendCrashes>>

Answer(s, ok) ==
    /\ sender[s].at = "sending"
    /\ sender' = [sender EXCEPT ![s].at = "answered", ![s].ok = ok]
    /\ heard' = IF ok THEN heard \cup {sender[s].hook} ELSE heard
    /\ UNCHANGED <<hook, endpoint, sends, stopped, pressed, sendCrashes>>

\* Mistaken form: a failed attempt is not scheduled again.
Outcome_NotScheduled(s) ==
    LET tries == sender[s].tries + 1 IN
    IF sender[s].ok THEN [status |-> "delivered", due |-> "none", tries |-> tries]
    ELSE IF tries >= MaxTries THEN [status |-> "exhausted", due |-> "none", tries |-> tries]
    ELSE [status |-> "failed", due |-> "none", tries |-> tries]

\* What the attempt writes, counted from the row as it was loaded.
Outcome(s) ==
    LET tries == sender[s].tries + 1 IN
    IF sender[s].ok THEN [status |-> "delivered", due |-> "none", tries |-> tries]
    ELSE IF tries >= MaxTries THEN [status |-> "exhausted", due |-> "none", tries |-> tries]
    ELSE [status |-> "failed", due |-> "later", tries |-> tries]

\* A new time always differs from the loaded one; a state may not.
RecordOutcome(s) ==
    LET d == sender[s].hook
        o == Outcome(s) IN
    /\ sender[s].at = "answered"
    /\ hook' = [hook EXCEPT
         ![d].status = IF o.status = sender[s].status THEN @ ELSE o.status,
         ![d].due    = IF o.due = "none" /\ sender[s].due = "none" THEN @ ELSE o.due,
         ![d].tries  = o.tries]
    /\ sender' = [sender EXCEPT ![s].at = "recorded"]
    /\ UNCHANGED <<endpoint, sends, heard, stopped, pressed, sendCrashes>>

\* recordOutcome, from the endpoint as it was loaded.
NowFailing(s) ==
    IF sender[s].ok THEN IF sender[s].failing # "no" THEN "no" ELSE endpoint.failing
    ELSE IF sender[s].failing = "no" THEN "new" ELSE endpoint.failing

NoteHealth(s) ==
    /\ sender[s].at = "recorded"
    /\ endpoint' = [endpoint EXCEPT !.failing = NowFailing(s)]
    /\ sender' = [sender EXCEPT ![s] = NotSending]
    /\ UNCHANGED <<hook, sends, heard, stopped, pressed, sendCrashes>>

\* The process stops; whatever is left of the attempt is not done.
SenderStops(s) ==
    /\ sender[s].at # "idle" /\ sendCrashes < MaxCrashes
    /\ sender' = [sender EXCEPT ![s] = NotSending]
    /\ sendCrashes' = sendCrashes + 1
    /\ UNCHANGED <<hook, endpoint, sends, heard, stopped, pressed>>

-----------------------------------------------------------------------------
(* The endpoint: three days pass, disableFailing, and the merchant.        *)

ThreeDaysPass ==
    /\ endpoint.failing = "new" /\ UnderWay = {}
    /\ endpoint' = [endpoint EXCEPT !.failing = "long"]
    /\ UNCHANGED <<hook, sender, sends, heard, stopped, pressed, sendCrashes>>

SetActive(active) ==
    /\ endpoint' = [active |-> active, failing |-> IF active THEN "no" ELSE endpoint.failing]
    /\ UNCHANGED <<hook, sender, sends, heard, stopped, pressed, sendCrashes>>

DisableFailing == endpoint.active /\ endpoint.failing = "long" /\ SetActive(FALSE)

PauseOrResume == SetActive(~endpoint.active)

Attempt(s) ==
    \/ FindPaused(s) \/ Send(s) \/ RecordOutcome(s) \/ NoteHealth(s)
    \/ \E ok \in BOOLEAN : Answer(s, ok)

HookNext ==
    \/ \E d \in Hooks :
         \/ QueueDelivery(d) \/ WaitOver(d) \/ LeaseOver(d)
         \/ \E s \in Senders : ClaimHook(s, d) \/ Press(s, d)
    \/ \E s \in Senders : Attempt(s) \/ SenderStops(s)
    \/ ThreeDaysPass \/ DisableFailing \/ PauseOrResume

HookSpec == HookInit /\ [][HookNext]_hookVars

\* The loops go on, an attempt that was started ends, and time passes.
HookFairness ==
    /\ \A s \in Senders : WF_hookVars(Attempt(s))
    /\ \A d \in Hooks :
         WF_hookVars(WaitOver(d)) /\ WF_hookVars(LeaseOver(d))
         /\ SF_hookVars(\E s \in LoopSenders : ClaimHook(s, d))

-----------------------------------------------------------------------------

HookTypes ==
    /\ hook \in [Hooks -> [status : {"none", "pending", "failed", "delivered", "exhausted"},
                           due : {"now", "leased", "later", "none"}, tries : 0..MaxTries + 1]]
    /\ endpoint \in [active : BOOLEAN, failing : {"no", "new", "long"}]
    /\ \A s \in Senders : sender[s].at \in {"idle", "claimed", "sending", "answered", "recorded"}
    /\ heard \subseteq Hooks /\ stopped \subseteq Hooks /\ pressed \subseteq Hooks

\* A delivery nobody has answered 2xx is still scheduled, unless it was found
\* at a paused endpoint or really was sent MAX_ATTEMPTS times: also when a
\* button's attempt and the loop's write over each other, or a process dies.
UnheardIsScheduled ==
    \A d \in Hooks \ (heard \cup stopped) :
      \/ hook[d].status = "none"
      \/ hook[d].status \in {"pending", "failed"} /\ hook[d].due # "none"
      \/ hook[d].status = "exhausted" /\ sends[d] >= MaxTries

\* Every request is counted, but for one cut off before its outcome was
\* written: the receiver gets MAX_ATTEMPTS requests at most, and one more for
\* each such end of a process.
RequestsCounted(d) == sends[d] <= MaxTries + sendCrashes

\* webhookDispatcher.js:27: the loops run together "without ever sending one
\* delivery twice at once", and what they delivered they do not send again; a
\* row no button was pressed for is sent MAX_ATTEMPTS times at most.
LoopsSendOnce ==
    \A d \in Hooks \ pressed :
      /\ Cardinality(On(d, {"claimed", "sending", "answered"})) <= 1
      /\ hook[d].status \in {"delivered", "exhausted"} => On(d, {"claimed", "sending"}) = {}
      /\ RequestsCounted(d)

\* Every row comes to rest: delivered, exhausted, or stopped.
HooksEnd == \A d \in Hooks : []<>(hook[d].status \in {"delivered", "exhausted"} \/ hook[d].due = "none")
=============================================================================
