------------------------------ MODULE MCServices ------------------------------
(* For TLC: parts of the system that share no rows with one another.  Each    *)
(* behaviour takes the steps of one of them, over small sets.                 *)
EXTENDS MCOutbox, Refunds, Wallet, WebhookDelivery, ConfirmationQueue, IdempotencyKeys,
        Returns, TLC

CONSTANTS x1, x2, y1, y2, d1

VARIABLE service

MCInit ==
    /\ service \in {"outbox", "refunds", "wallet", "webhooks", "calls", "keys",
                    "returns"}
    /\ Init /\ RefundInit /\ WalletInit /\ HookInit /\ CallInit
    /\ KeyInit /\ ReturnInit

Runs(s, step, unchanged) == IF service = s THEN step ELSE UNCHANGED unchanged

MCNext ==
    /\ Runs("outbox", Next, vars)
    /\ Runs("refunds", RefundNext, refundVars)
    /\ Runs("wallet", WalletNext, walletVars)
    /\ Runs("webhooks", HookNext, hookVars)
    /\ Runs("calls", CallNext, callVars)
    /\ Runs("keys", KeyNext, keyVars)
    /\ Runs("returns", ReturnNext, returnVars)
    /\ UNCHANGED service

MCSpec ==
    MCInit /\ [][MCNext]_<<service, vars, refundVars, walletVars, hookVars, callVars,
                           keyVars, returnVars>>

\* Each value stands for one of two interchangeable things in every part:
\* orders, agents, references, loops, shoppers, bodies; callbacks, transactions.
MCSymmetry == Permutations({x1, x2}) \cup Permutations({y1, y2})

\* Types of every part: its rows hold what their columns admit.
ServiceTypes == TypeOK /\ RefundTypes /\ WalletTypes /\ HookTypes /\ CallTypes
=============================================================================
