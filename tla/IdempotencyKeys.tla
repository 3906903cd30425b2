--------------------------- MODULE IdempotencyKeys ---------------------------
(***************************************************************************)
(* One Idempotency-Key of a store, core/middleware/idempotency.js, around  *)
(* a handler that commits one change and then answers: requests of one     *)
(* client that repeat it, with the same body or another.                   *)
(***************************************************************************)
EXTENDS Naturals, Sequences, FiniteSets

CONSTANTS
    Posts,      \* bound: requests that carry the key
    Bodies,
    MaxStops,   \* bound: processes that stop
    NoBody

ASSUME KeyAssumption == IsFiniteSet(Posts) /\ IsFiniteSet(Bodies) /\ NoBody \notin Bodies /\ MaxStops \in Nat

VARIABLES
    keyRow,     \* the idempotency_keys row
    post,       \* each request
    committed,  \* the bodies whose change was committed, one for each time
    stores,     \* answers sent and not yet stored
    stops

keyVars == <<keyRow, post, committed, stores, stops>>

NoRow0 == [status |-> "none", body |-> NoBody, answer |-> NoBody]
Unsent == [at |-> "unsent", body |-> NoBody, answer |-> NoBody]

KeyInit ==
    /\ keyRow = NoRow0
    /\ post = [p \in Posts |-> Unsent]
    /\ committed = <<>>
    /\ stores = {} /\ stops = 0

Moves(p, at) == post' = [post EXCEPT ![p].at = at]

SendPost(p, b) ==
    /\ post[p].at = "unsent"
    /\ post' = [post EXCEPT ![p] = [Unsent EXCEPT !.at = "arrived", !.body = b]]
    /\ UNCHANGED <<keyRow, committed, stores, stops>>

\* Mistaken form: a key whose handler failed is taken again.
Wins_Failed == keyRow.status \in {"none", "failed"}

\* The unique index: the request whose insert succeeds runs the handler.
Wins == keyRow.status = "none"

InsertKey(p) ==
    /\ post[p].at = "arrived"
    /\ IF Wins THEN /\ keyRow' = [status |-> "processing", body |-> post[p].body, answer |-> NoBody]
                    /\ Moves(p, "handling")
               ELSE UNCHANGED keyRow /\ Moves(p, "polling")
    /\ UNCHANGED <<committed, stores, stops>>

HandlerCommits(p) ==
    /\ post[p].at = "handling"
    /\ committed' = Append(committed, post[p].body)
    /\ Moves(p, "committed")
    /\ UNCHANGED <<keyRow, stores, stops>>

\* Before its change was committed, or after.  The error of this update is
\* swallowed too: the key is then left processing.
HandlerThrows(p) ==
    /\ post[p].at \in {"handling", "committed"}
    /\ keyRow' = [keyRow EXCEPT !.status = "failed"] \/ UNCHANGED keyRow
    /\ Moves(p, "error")
    /\ UNCHANGED <<committed, stores, stops>>

\* res.json: the row's update is begun, not awaited, and the answer leaves.
HandlerAnswers(p) ==
    /\ post[p].at = "committed"
    /\ post' = [post EXCEPT ![p].at = "answered", ![p].answer = post[p].body]
    /\ stores' = stores \cup {p}
    /\ UNCHANGED <<keyRow, committed, stops>>

StoreAnswer(p) ==
    /\ p \in stores /\ stores' = stores \ {p}
    /\ keyRow' = [keyRow EXCEPT !.status = "completed", !.answer = post[p].answer]
    /\ UNCHANGED <<post, committed, stops>>

\* Its error is swallowed.
StoreFails(p) ==
    /\ p \in stores /\ stores' = stores \ {p}
    /\ UNCHANGED <<keyRow, post, committed, stops>>

Replays(p) == keyRow.body = post[p].body /\ keyRow.status = "completed"

\* pollForCompletion: done, failed, or still processing when the window ends.
EndPoll(p) ==
    /\ post[p].at = "polling"
    /\ post' = [post EXCEPT ![p].at = IF Replays(p) THEN "answered" ELSE "conflict",
                            ![p].answer = IF Replays(p) THEN keyRow.answer ELSE NoBody]
    /\ UNCHANGED <<keyRow, committed, stores, stops>>

\* A client that got no answer, a conflict or an error sends it once more.
SendAgain(p, q) ==
    /\ post[p].at \in {"conflict", "error", "cut off"} /\ post[q].at = "unsent"
    /\ post' = [post EXCEPT ![q] = [Unsent EXCEPT !.at = "arrived", !.body = post[p].body]]
    /\ UNCHANGED <<keyRow, committed, stores, stops>>

\* The process stops, with every request of it and every update not written.
ProcessStops ==
    /\ stops < MaxStops /\ stops' = stops + 1
    /\ post' = [p \in Posts |->
         IF post[p].at \in {"unsent", "answered", "conflict", "error"} THEN post[p]
         ELSE [post[p] EXCEPT !.at = "cut off"]]
    /\ stores' = {}
    /\ UNCHANGED <<keyRow, committed>>

KeyNext ==
    \/ \E p \in Posts :
         \/ \E b \in Bodies : SendPost(p, b)
         \/ InsertKey(p) \/ HandlerCommits(p) \/ HandlerThrows(p) \/ HandlerAnswers(p)
         \/ StoreAnswer(p) \/ StoreFails(p) \/ EndPoll(p)
         \/ \E q \in Posts : SendAgain(p, q)
    \/ ProcessStops

KeySpec == KeyInit /\ [][KeyNext]_keyVars

-----------------------------------------------------------------------------

\* However often a client repeats a request, because of a conflict, an error
\* or a process that stopped under it, its change is committed once; and who is
\* told it was done sent the body it was done for.
CommittedOnce ==
    /\ Len(committed) <= 1
    /\ \A p \in Posts : post[p].at = "answered" => committed = <<post[p].body>>
=============================================================================
