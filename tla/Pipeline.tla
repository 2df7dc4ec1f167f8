------------------------------ MODULE Pipeline ------------------------------
(***************************************************************************)
(* One mail session on its way to a verdict: the packets of its connection *)
(* are captured, the extractor makes a record of them (ml/pcap.py), a      *)
(* client submits the record to POST /analyses (api/routes.py), the        *)
(* privacy gate and the validators let it through (ml/product.py), rules   *)
(* and models score it (ml/pipeline.py) and the verdict is stored.         *)
(*                                                                         *)
(* A record has one of three origins: an authorized capture, which may     *)
(* begin late, lose packets or stop early; a run of the mail lab, captured *)
(* whole; or the generator of synthetic records.                           *)
(***************************************************************************)
EXTENDS Extraction, Fusion, LabProfiles

CONSTANTS
  Connections,   \* the connections of the authorized captures
  LabProtocols,  \* the protocols the lab runs its scenarios on
  MaxLost,       \* packets a capture may miss
  Outputs,       \* what the models may answer: [xgboost, random_forest, isolation]
  Calibrations,  \* the states of the calibrators a bundle may hold
  Configs        \* the weights of the two classifiers

ASSUME MaxLostIsNat == MaxLost \in Nat
ASSUME OutputsAreWeights == \A output \in Outputs :
  /\ output.xgboost \in [RISK_SEVERITY_ORDER -> Nat]
  /\ output.random_forest \in [RISK_SEVERITY_ORDER -> Nat]
ASSUME CalibratorsAnswerWeights ==
  \A output \in Outputs, calibration \in Calibrations, l \in RISK_SEVERITY_ORDER :
    /\ calibration.xgboost[l][output.xgboost[l]] \in Nat
    /\ calibration.random_forest[l][output.random_forest[l]] \in Nat
ASSUME ConfigsAreWeights ==
  \A config \in Configs : config.xgboost \in Nat /\ config.random_forest \in Nat

VARIABLES
  origin,    \* [source, scenario, connection]: what the session really was
  sent,      \* packets that went over the wire
  captured,  \* those of them that the capture holds
  stage,     \* how far the session has come
  session,   \* its record, once there is one
  payload,   \* what the client did to the record it submitted
  verdict    \* the result of the analysis, once it is answered
vars == <<origin, sent, captured, stage, session, payload, verdict>>

Origin(source, id, connections) ==
  [source |-> source, scenario |-> id, connection |-> connections]
Authorized == {Origin("authorized_capture", "authorized", {c}) : c \in Connections}
Lab ==
  {Origin("synthetic_pcap", id, {LabConnection(Profile(id, protocol))}) :
     id \in {i \in ScenarioIds : ~Profile(i, "SMTP").requires_renegotiation},
     protocol \in LabProtocols}
Synthetic == {Origin("synthetic_feature", id, {}) : id \in ScenarioIds}

Connection == CHOOSE c \in origin.connection : TRUE
(* The packets of the capture, in frame order.                             *)
Rows ==
  LET Frame(i) == CHOOSE n \in captured :
                    Cardinality({m \in captured : m <= n}) = i
  IN [i \in 1..Cardinality(captured) |-> Packets(Connection)[Frame(i)]]

Init ==
  /\ origin \in Authorized \cup Lab \cup Synthetic
  /\ sent = 0 /\ captured = {}
  /\ stage = "capturing"
  /\ session = {} /\ payload = {} /\ verdict = {}

(* The next packet is sent, and the capture sees it.                       *)
Pass ==
  /\ stage = "capturing" /\ origin.connection # {}
  /\ sent < Len(Packets(Connection))
  /\ sent' = sent + 1
  /\ captured' = captured \cup {sent + 1}
  /\ UNCHANGED <<origin, stage, session, payload, verdict>>

(* The next packet is sent, and the capture misses it.                     *)
Lose ==
  /\ stage = "capturing" /\ origin.source = "authorized_capture"
  /\ sent < Len(Packets(Connection))
  /\ sent - Cardinality(captured) < MaxLost
  /\ sent' = sent + 1
  /\ UNCHANGED <<origin, captured, stage, session, payload, verdict>>

(* extract_authorized_capture: the capture ends wherever it ends.  A model *)
(* that rejects the record raises out of the extractor.                    *)
Extracted(record) ==
  /\ session' = {record}
  /\ stage' = IF ValidateSession(record) THEN "record" ELSE "invalid"
  /\ UNCHANGED <<origin, sent, captured, payload, verdict>>

ExtractAuthorized ==
  /\ stage = "capturing" /\ origin.source = "authorized_capture"
  /\ Extractable(Rows)
  /\ Extracted(ExtractSession(Rows, "authorized_capture", "authorized",
                              "authorized", Connection.protocol, {}, FALSE))

ExtractNothing ==
  /\ stage = "capturing" /\ origin.source = "authorized_capture"
  /\ ~Extractable(Rows)
  /\ stage' = "empty"
  /\ UNCHANGED <<origin, sent, captured, session, payload, verdict>>

(* extract_run: the capture of a lab run, with its labels and its CA.      *)
ExtractLab ==
  /\ stage = "capturing" /\ origin.source = "synthetic_pcap"
  /\ sent = Len(Packets(Connection))
  /\ Extracted(ExtractSession(Rows, "synthetic_pcap", origin.scenario, "lab",
                              Connection.protocol, LabLabels(origin.scenario), TRUE))

Generate ==
  /\ stage = "capturing" /\ origin.source = "synthetic_feature"
  /\ \E f \in BuildFeatures(origin.scenario) :
       Extracted(BuildRecord(origin.scenario, "env", f))

Record == CHOOSE r \in session : TRUE

(* What the client makes of the record: it may leave the certificate's     *)
(* details or the labels out, or add a key.                                *)
Payloads ==
  [details : {"kept", "dropped"}, labels : {"kept", "dropped"},
   extra : {"none", "unknown", "forbidden"}]

(* reject_sensitive_payload: no key of the payload, at any depth, may be   *)
(* forbidden; a certificate's details hold the key "subject".              *)
HasForbiddenKey(p) ==
  \/ p.extra = "forbidden"
  \/ /\ p.details = "kept"
     /\ Record.provenance.source_type # "synthetic_feature"
     /\ Record.features.cert_present = {TRUE}

(* inference_record: the gate, the default labels, strict validation.      *)
Submit(p) ==
  /\ stage = "record"
  /\ payload' = {p}
  /\ \/ /\ HasForbiddenKey(p) \/ p.extra = "unknown"
        /\ stage' = "refused"
        /\ UNCHANGED session
     \/ /\ ~HasForbiddenKey(p) /\ p.extra # "unknown"
        /\ stage' = "accepted"
        /\ session' = IF p.labels = "kept" THEN session
                      ELSE {[Record EXCEPT
                               !.labels = [risk |-> Informational, anomaly |-> 0,
                                           expected |-> {}]]}
  /\ UNCHANGED <<origin, sent, captured, verdict>>

(* The bundle is not loaded (503), or inference raises (500).              *)
NotScored ==
  /\ stage = "accepted"
  /\ stage' \in {"unavailable", "failed"}
  /\ UNCHANGED <<origin, sent, captured, session, payload, verdict>>

Score(output, calibration, config, explained) ==
  LET x == CalibratedClassProbabilities(output.xgboost, calibration.xgboost)
      r == CalibratedClassProbabilities(output.random_forest,
                                        calibration.random_forest)
      fused == WeightedClassProbabilities(x, r, config)
  IN [result |-> FuseSession(Record, ExtractRuleFindings(Record.features), fused,
                             AnomalyDetected(output.isolation, calibration)),
      model |-> ModelRisk(fused),
      posture |-> CryptographicPosture(Record.features),
      status |-> IF ~explained
                    \/ (output.isolation # {} /\ ~calibration.anomaly_enabled)
                 THEN "degraded" ELSE "complete"]

(* predict_session: an explanation that fails only degrades the result.    *)
Infer ==
  /\ stage = "accepted"
  /\ stage' = "scored"
  /\ \E output \in Outputs, calibration \in Calibrations, config \in Configs,
        explained \in BOOLEAN :
       verdict' = {Score(output, calibration, config, explained)}
  /\ UNCHANGED <<origin, sent, captured, session, payload>>

(* The row of the analysis is stored, and the result answered.             *)
Answer ==
  /\ stage = "scored"
  /\ stage' \in {v.status : v \in verdict}
  /\ UNCHANGED <<origin, sent, captured, session, payload, verdict>>

(* A mutant of the next: the lost result stays with the request.           *)
PersistFailsKept ==
  /\ stage = "scored"
  /\ stage' = "failed"
  /\ UNCHANGED <<origin, sent, captured, session, payload, verdict>>

(* The row is not stored: the result is lost (500).                        *)
PersistFails ==
  /\ stage = "scored"
  /\ stage' = "failed" /\ verdict' = {}
  /\ UNCHANGED <<origin, sent, captured, session, payload>>

(* The client submits the record again.                                    *)
Retry ==
  /\ stage \in {"refused", "unavailable", "failed"}
  /\ stage' = "record" /\ payload' = {}
  /\ UNCHANGED <<origin, sent, captured, session, verdict>>

Next ==
  \/ Pass \/ Lose
  \/ ExtractAuthorized \/ ExtractNothing \/ ExtractLab \/ Generate
  \/ \E p \in Payloads : Submit(p)
  \/ NotScored \/ Infer \/ Answer \/ PersistFails \/ Retry
Spec == Init /\ [][Next]_vars

(***************************************************************************)
(* Properties.                                                             *)
(***************************************************************************)
TypeOK ==
  /\ captured \subseteq 1..sent
  /\ Cardinality(captured) + MaxLost >= sent
  /\ stage \in {"capturing", "empty", "record", "invalid", "refused", "accepted",
                "unavailable", "failed", "scored", "complete", "degraded"}
  /\ session = {} <=> stage \in {"capturing", "empty"}
  /\ payload = {} <=> stage \in {"capturing", "empty", "record", "invalid"}
  /\ verdict # {} <=> stage \in {"scored", "complete", "degraded"}

FromWire == session # {} /\ origin.connection # {}
WholeCapture == FromWire /\ sent = Len(Packets(Connection)) /\ captured = 1..sent
Findings == UNION {v.result.findings : v \in verdict}

(* A handshake the record calls successful did complete: the client sent   *)
(* its Finished, whatever packets the capture missed and wherever it ends. *)
(* Excepted is TLS 1.3 without keys where TShark shows the encrypted       *)
(* records as application data: there a server flight reads as success.    *)
SuccessHasFinished ==
  FromWire /\ Record.features.handshake_success =>
    \/ ClientFinished(Connection, sent)
    \/ Connection.version = "TLS1.3" /\ ~Connection.keys /\ Connection.opaque

(* The extractor never builds a record that its validators reject: losing  *)
(* packets or stopping early makes a poorer record, not a failed job.      *)
ExtractionIsValid == stage # "invalid"

(* A handshake that the server refused is counted, shown as failed, and    *)
(* raises STLS-002 when it followed STARTTLS.                              *)
RefusalSeen ==
  WholeCapture /\ verdict # {} /\ Connection.refuses
    /\ Connection.client \in {"rejects", "completes"} =>
      /\ Record.features.handshake_failures = 1
      /\ \A v \in verdict : v.posture = "handshake_failed"
      /\ ~Connection.implicit /\ Connection.advertises => "STLS-002" \in Findings

(* From the wire to the analyst: a connection established with a           *)
(* deprecated version, if captured whole and analysed, ends in critical    *)
(* review and in the dashboard's deprecated bucket, whatever the models    *)
(* say and however anomalous it looks.                                     *)
DeprecatedReviewed ==
  WholeCapture /\ verdict # {} /\ Connection.version \in Deprecated
    /\ ClientFinished(Connection, sent) =>
      \A v \in verdict : /\ v.result.action = "critical_review"
                         /\ v.result.risk = Critical
                         /\ v.posture = "deprecated"

(* A connection established without forward secrecy raises FS-001.         *)
SecrecyLossFlagged ==
  WholeCapture /\ verdict # {} /\ Connection.version # "TLS1.3"
    /\ ClientFinished(Connection, sent) /\ ~ForwardSecret(Connection) =>
      "FS-001" \in Findings

(* Neither the models nor an anomaly lowers the risk below the severity of *)
(* a finding, nor a finding below the models' risk; the stated source of   *)
(* the risk is the one that decided it.                                    *)
FloorKept ==
  \A v \in verdict :
    /\ v.result.risk >= v.model
    /\ \A id \in v.result.findings : v.result.risk >= Severity(id)
    /\ v.result.risk = v.model \/ v.result.source = "deterministic_rule"
    /\ v.result.source = "model_ensemble_advisory" <=> v.result.findings = {}
    /\ v.result.source = "deterministic_rule_plus_ensemble" =>
         \A id \in v.result.findings : v.model > Severity(id)

(* The dashboard's bucket and the rules, which keep their thresholds       *)
(* apart, agree: what the cryptographic rules find is never shown as       *)
(* sound, and what is shown as weak has a finding.  Excepted is an ECDSA   *)
(* key, which the bucket measures by the length of an RSA key.             *)
PostureAgrees ==
  \A v \in verdict :
    /\ v.result.findings \cap {"TLS-001", "TLS-002", "FS-001", "CERT-001",
         "CERT-002", "CERT-003", "CERT-004", "CRIT-001"} # {} =>
         v.posture \in {"deprecated", "weak", "handshake_failed"}
    /\ v.posture \in {"deprecated", "weak"} =>
         \/ v.result.findings # {}
         \/ Record.features.cert_key_algorithm # {"RSA"}

(* A synthetic record has the findings and the risk its label promises,    *)
(* and those its bucket stands for, whatever counters were drawn for it.   *)
(* Excepted is unexpected_tls_version, labelled medium, where TLS-001 is   *)
(* critical (dataset.py:350-1271, rules.py:69-221).                        *)
LabelsFollowRules ==
  verdict # {} /\ origin.source = "synthetic_feature" =>
    LET entry == CATALOG[origin.scenario]
    IN /\ entry.expected \subseteq Findings
       /\ \A v \in verdict :
            IF v.result.floor = {} THEN entry.risk <= Low
            ELSE entry.risk \in v.result.floor
                 \/ origin.scenario = "unexpected_tls_version"
       /\ Bucket(origin.scenario) = "normal" => Findings = {}
       /\ Bucket(origin.scenario) = "combined" => Cardinality(Findings) >= 2
       /\ Bucket(origin.scenario) = "behavioral_anomaly" =>
            Findings \cap {"ANOM-001", "ANOM-002", "ANOM-003", "ANOM-004"} # {}

(* The scenarios whose wire traffic cannot show what the catalogue expects *)
(* of them.                                                                *)
Unshown ==
  {"weak_cipher", "starttls_handshake_failure", "repeated_handshake_failures",
   "invalid_chain_repeated_failures", "combined_critical_weaknesses",
   "expired_hostname_mismatch", "expired_invalid_chain"} \cup ChaChaIds

(* A lab run's record raises the findings its scenario expects, unless the *)
(* scenario is one of the above, or an unused STARTTLS on POP3, whose      *)
(* capability the extractor does not recognise: these never do.            *)
LabFindsExpected ==
  verdict # {} /\ origin.source = "synthetic_pcap" =>
    (CATALOG[origin.scenario].expected \subseteq Findings <=>
      ~ \/ origin.scenario \in Unshown
        \/ /\ origin.scenario = "starttls_advertised_unused"
           /\ Connection.protocol = "POP3")

(* docs/api.md: the records a finished job hands out are submitted to POST *)
(* /analyses as they are.                                                  *)
HandedOutAccepted ==
  stage = "refused" => \A p \in payload : p.extra # "none"
=============================================================================
