-------------------------- MODULE CompositionProofs --------------------------
(***************************************************************************)
(* The parts that MCServices runs beside one another share no rows: a      *)
(* behaviour of all of them is a behaviour of each, so what is proved of   *)
(* the parts holds of the whole.                                           *)
(***************************************************************************)
EXTENDS MCServices, ServiceProofs, LedgerProofs, ConfirmationQueueProofs

\* A step of one part leaves the rows of every other as they were.
LEMMA StepsApart ==
  MCNext => /\ [Next]_vars /\ [RefundNext]_refundVars /\ [WalletNext]_walletVars /\ [HookNext]_hookVars
            /\ [CallNext]_callVars /\ [KeyNext]_keyVars
            /\ [ReturnNext]_returnVars
  BY DEF MCNext, Runs

LEMMA PartsStand ==
  MCSpec => /\ Spec /\ RefundSpec /\ WalletSpec /\ HookSpec
            /\ CallSpec /\ KeySpec /\ ReturnSpec
<1>1. UNCHANGED <<service, vars, refundVars, walletVars, hookVars, callVars,
                  keyVars, returnVars>>
        => /\ UNCHANGED vars /\ UNCHANGED refundVars /\ UNCHANGED walletVars /\ UNCHANGED hookVars
           /\ UNCHANGED callVars /\ UNCHANGED keyVars /\ UNCHANGED returnVars
  OBVIOUS
<1>2. MCInit => /\ Init /\ RefundInit /\ WalletInit /\ HookInit /\ CallInit
                /\ KeyInit /\ ReturnInit
  BY DEF MCInit
<1>3. QED
  BY <1>1, <1>2, StepsApart, PTL
  DEF MCSpec, Spec, RefundSpec, WalletSpec, HookSpec, CallSpec, KeySpec, ReturnSpec

\* Side by side, every part's rows hold what its columns admit.
THEOREM ServicesTyped == MCSpec => []ServiceTypes
<1>1. TypeOK /\ RefundTypes /\ WalletTypes /\ HookTypes /\ CallTypes => ServiceTypes
  BY DEF ServiceTypes
<1>2. QED
  BY <1>1, PartsStand, OutboxTyped, RefundTyped, WalletTyped, HookTyped, CallTyped, PTL

\* Whatever else runs beside it, each part keeps what it promises: one job for
\* each consumer, the sums of refunds, fees and returns, the attempts at a
\* webhook, one change for a key, and the desk's calls.
THEOREM ServicesStand ==
  MCSpec => /\ []OneJobPerConsumer /\ []RefundsAddUp /\ []FeeFollowsOrder /\ []UnheardIsScheduled
            /\ []LoopsSendOnce /\ []CommittedOnce /\ []ReturnsAddUp
            /\ []OneOpenTask /\ []HolderRecords /\ []AssigningNeverDeadlocks /\ ImplementsCallDesk
  BY PartsStand, GivenOnce, RefundsAreCounted, FeesFollowOrders, UnheardStayScheduled,
     LoopsSendInTurn, KeyCommitsOnce, ReturnsAreCounted,
     OrderHasItsTask, OutcomeByItsHolder, AssignmentsMakeNoCircle, QueueImplementsCallDesk, PTL
=============================================================================
