------------------------------- MODULE Platform -------------------------------
(* The components that share no state in the model, side by side: a behaviour *)
(* exercises the one it chooses at the start, and the others keep their       *)
(* initial state.                                                             *)
EXTENDS DailyPipeline, DailyBackfill, IntradayFeatures, PredictionService, HistoricalReadiness

VARIABLE component

platformVars == <<component, dailyVars, backfillVars, intradayVars, predictionVars,
                  readinessVars>>

Init ==
    /\ component \in {"daily", "backfill", "intraday", "prediction", "readiness"}
    /\ DailyInit /\ BackfillInit /\ IntradayInit /\ PredictionInit /\ ReadinessInit

Daily ==
    /\ component = "daily" /\ DailyNext
    /\ UNCHANGED <<component, backfillVars, intradayVars, predictionVars, readinessVars>>
Backfill ==
    /\ component = "backfill" /\ BackfillNext
    /\ UNCHANGED <<component, dailyVars, intradayVars, predictionVars, readinessVars>>
Intraday ==
    /\ component = "intraday" /\ IntradayNext
    /\ UNCHANGED <<component, dailyVars, backfillVars, predictionVars, readinessVars>>
Prediction ==
    /\ component = "prediction" /\ PredictionNext
    /\ UNCHANGED <<component, dailyVars, backfillVars, intradayVars, readinessVars>>
Readiness ==
    /\ component = "readiness" /\ ReadinessNext
    /\ UNCHANGED <<component, dailyVars, backfillVars, intradayVars, predictionVars>>

Next == Daily \/ Backfill \/ Intraday \/ Prediction \/ Readiness

Spec == Init /\ [][Next]_platformVars /\ BackfillFairness

\* The tables of the five components and the indexes on them.
TypeOK ==
    /\ DailyTypeOK /\ BackfillTypeOK /\ IntradayTypeOK /\ PredictionTypeOK /\ ReadinessTypeOK

=============================================================================
