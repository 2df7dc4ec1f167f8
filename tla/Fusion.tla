------------------------------- MODULE Fusion -------------------------------
(***************************************************************************)
(* How the scores of the models and the findings of the rules become one   *)
(* verdict (ml/fusion.py, ml/calibration.py).                              *)
(*                                                                         *)
(* Probabilities are exact: a distribution over RISK_SEVERITY_ORDER is a   *)
(* function of integer weights, a probability is a weight over the total.  *)
(* The rounding of floating point is left out.                             *)
(***************************************************************************)
EXTENDS Rules

Scale == 4  \* the greatest anomaly score, 1.0

Total(d) == d[0] + d[1] + d[2] + d[3] + d[4]

(* One isotonic calibrator per class; when they all answer zero, the raw   *)
(* probabilities are used.                                                 *)
CalibratedClassProbabilities(raw, calibrators) ==
  LET values == [l \in RISK_SEVERITY_ORDER |-> calibrators[l][raw[l]]]
  IN IF Total(values) > 0 THEN values ELSE raw

(* Each model's distribution over the product of the totals, weighed.      *)
WeightedClassProbabilities(x, r, config) ==
  [l \in RISK_SEVERITY_ORDER |->
     config.xgboost * x[l] * Total(r) + config.random_forest * r[l] * Total(x)]

(* max over a dictionary in severity order: the first of the greatest.     *)
ModelRisk(d) ==
  CHOOSE l \in RISK_SEVERITY_ORDER : \A k \in RISK_SEVERITY_ORDER :
    /\ d[k] <= d[l]
    /\ k < l => d[k] < d[l]

(* The raw score of the isolation forest, from the normal baseline's first *)
(* to its last percentile, as a fraction of Scale, is at the threshold.    *)
AnomalyDetected(isolation, calibration) ==
  /\ calibration.anomaly_enabled
  /\ \E raw \in isolation :
       LET range == calibration.normal_high - calibration.normal_low
           distance == calibration.normal_high - raw
           clipped == IF distance < 0 THEN 0
                      ELSE IF distance > range THEN range ELSE distance
       IN clipped * Scale >= calibration.anomaly_threshold * range

(* A baseline without spread switches the detector off.                    *)
CalibrateAnomaly(low, high, threshold) ==
  [normal_low |-> low, normal_high |-> high,
   anomaly_threshold |-> IF high > low THEN threshold ELSE Scale,
   anomaly_enabled |-> high > low]

HighestRuleSeverity(findings) ==
  {s \in RISK_SEVERITY_ORDER :
     /\ \E id \in findings : Severity(id) = s
     /\ \A id \in findings : Severity(id) <= s}

(* A mutant of the next: the rules override the models.                    *)
FinalRiskOfRules(model, floor) ==
  IF floor # {} THEN CHOOSE s \in floor : TRUE ELSE model

FinalRisk(model, floor) ==
  IF \E s \in floor : s > model THEN CHOOSE s \in floor : TRUE ELSE model

RiskSource(final, floor) ==
  IF floor = {} THEN "model_ensemble_advisory"
  ELSE IF final \in floor THEN "deterministic_rule"
  ELSE "deterministic_rule_plus_ensemble"

(* A mutant of the next: the anomaly is looked at first.                   *)
ActionOfAnomaly(risk, anomaly, floor) ==
  IF anomaly THEN "analyst_review"
  ELSE IF floor = {Critical} THEN "critical_review"
  ELSE IF risk = Informational THEN "no_action"
  ELSE IF risk \in {Low, Medium} THEN "monitor"
  ELSE "prioritize"

Action(risk, anomaly, floor) ==
  IF floor = {Critical} THEN "critical_review"
  ELSE IF anomaly THEN "analyst_review"
  ELSE IF risk = Informational THEN "no_action"
  ELSE IF risk \in {Low, Medium} THEN "monitor"
  ELSE "prioritize"

FuseSession(record, findings, fused, anomaly) ==
  LET floor == HighestRuleSeverity(findings)
      final == FinalRisk(ModelRisk(fused), floor)
  IN [risk |-> final, floor |-> floor, source |-> RiskSource(final, floor),
      findings |-> findings, anomaly |-> anomaly,
      action |-> Action(final, anomaly, floor),
      evidence |-> {e.source : e \in record.provenance.evidence_refs}
        \cup UNION {Evidence(id, record.provenance) : id \in findings}]
=============================================================================
