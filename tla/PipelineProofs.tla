--------------------------- MODULE PipelineProofs ---------------------------
(* Theorems about Pipeline, for every set of connections and scenarios,    *)
(* every loss, and all that models, calibrators and weights may be.        *)
EXTENDS Pipeline, FiniteSetTheorems, TLAPS

(***************************************************************************)
(* The verdict.                                                            *)
(***************************************************************************)
LEMMA Severities ==
  ASSUME NEW id \in FindingIds
  PROVE  Severity(id) \in {Medium, High, Critical}
BY DEF FindingIds, Severity, Medium, High, Critical

(* The highest severity is that of a finding, and none is above it.        *)
LEMMA FloorIsHighest ==
  ASSUME NEW findings \in SUBSET FindingIds
  PROVE  /\ HighestRuleSeverity(findings) \subseteq RISK_SEVERITY_ORDER
         /\ \A s \in HighestRuleSeverity(findings), id \in findings : Severity(id) <= s
         /\ \A s, t \in HighestRuleSeverity(findings) : s = t
         /\ HighestRuleSeverity(findings) = {} <=> findings = {}
<1> DEFINE floor == HighestRuleSeverity(findings)
<1>1. \A id \in findings : Severity(id) \in 2..4
  BY Severities DEF Medium, High, Critical
<1>2. floor \subseteq RISK_SEVERITY_ORDER
        /\ \A s \in floor, id \in findings : Severity(id) <= s
  BY DEF HighestRuleSeverity
<1>3. \A s \in floor : \E id \in findings : Severity(id) = s
  BY DEF HighestRuleSeverity
<1>4. \A s, t \in floor : s = t
  <2> SUFFICES ASSUME NEW s \in floor, NEW t \in floor PROVE s = t
    OBVIOUS
  <2>1. s <= t /\ t <= s
    BY <1>2, <1>3
  <2>2. s \in 0..4 /\ t \in 0..4
    BY <1>2 DEF RISK_SEVERITY_ORDER, Informational, Critical
  <2>3. QED
    BY <2>1, <2>2
<1>5. ASSUME findings # {} PROVE \E s \in RISK_SEVERITY_ORDER :
        (\E id \in findings : Severity(id) = s) /\ \A id \in findings : Severity(id) <= s
  <2>1. {2, 3, 4} \subseteq RISK_SEVERITY_ORDER
    BY DEF RISK_SEVERITY_ORDER, Informational, Critical
  <2>2. CASE \E id \in findings : Severity(id) = 4
    BY <2>1, <2>2, <1>1
  <2>3. CASE (\A id \in findings : Severity(id) # 4) /\ \E id \in findings : Severity(id) = 3
    BY <2>1, <2>3, <1>1
  <2>4. CASE \A id \in findings : Severity(id) # 4 /\ Severity(id) # 3
    <3>1. PICK id \in findings : TRUE
      BY <1>5
    <3>2. \A i \in findings : Severity(i) = 2
      BY <1>1, <2>4
    <3>3. QED
      BY <2>1, <3>1, <3>2
  <2>5. QED
    BY <2>2, <2>3, <2>4
<1>6. floor = {} <=> findings = {}
  BY <1>3, <1>5 DEF HighestRuleSeverity
<1>7. QED
  BY <1>2, <1>4, <1>6

(* A distribution has a first greatest label.                              *)
LEMMA ModelRiskIsLabel ==
  ASSUME NEW d \in [RISK_SEVERITY_ORDER -> Int]
  PROVE  ModelRisk(d) \in RISK_SEVERITY_ORDER
<1> DEFINE Best(l, n) == \A k \in 0..n : d[k] <= d[l] /\ (k < l => d[k] < d[l])
<1>0. RISK_SEVERITY_ORDER = 0..4
  BY DEF RISK_SEVERITY_ORDER, Informational, Critical
<1>1. \A k \in 0..4 : d[k] \in Int
  BY <1>0
<1>2. \E l \in 0..0 : Best(l, 0)
  BY <1>1
<1>3. ASSUME NEW n \in 0..3, \E l \in 0..n : Best(l, n)
      PROVE  \E l \in 0..(n + 1) : Best(l, n + 1)
  <2>1. PICK l \in 0..n : Best(l, n)
    BY <1>3
  <2>2. CASE d[n + 1] <= d[l]
    <3>1. Best(l, n + 1)
      BY <1>1, <2>1, <2>2
    <3>2. QED
      BY <3>1
  <2>3. CASE d[n + 1] > d[l]
    <3>1. Best(n + 1, n + 1)
      BY <1>1, <2>1, <2>3
    <3>2. QED
      BY <3>1
  <2>4. QED
    BY <1>1, <2>2, <2>3
<1>4. \E l \in 0..1 : Best(l, 1)
  BY <1>2, <1>3
<1>5. \E l \in 0..2 : Best(l, 2)
  BY <1>4, <1>3
<1>6. \E l \in 0..3 : Best(l, 3)
  BY <1>5, <1>3
<1>7. \E l \in 0..4 : Best(l, 4)
  BY <1>6, <1>3
<1>8. QED
  BY <1>0, <1>7 DEF ModelRisk

LEMMA CalibratedAreWeights ==
  ASSUME NEW raw \in [RISK_SEVERITY_ORDER -> Nat], NEW calibrators,
         \A l \in RISK_SEVERITY_ORDER : calibrators[l][raw[l]] \in Nat
  PROVE  CalibratedClassProbabilities(raw, calibrators) \in [RISK_SEVERITY_ORDER -> Nat]
BY DEF CalibratedClassProbabilities

LEMMA TotalIsNat ==
  ASSUME NEW d \in [RISK_SEVERITY_ORDER -> Nat] PROVE Total(d) \in Nat
BY DEF Total, RISK_SEVERITY_ORDER, Informational, Critical

LEMMA ProductIsInt == ASSUME NEW a \in Nat, NEW b \in Nat PROVE a * b \in Int
OBVIOUS

LEMMA FusedAreWeights ==
  ASSUME NEW x \in [RISK_SEVERITY_ORDER -> Nat], NEW r \in [RISK_SEVERITY_ORDER -> Nat],
         NEW config \in Configs
  PROVE  WeightedClassProbabilities(x, r, config) \in [RISK_SEVERITY_ORDER -> Int]
<1>1. ASSUME NEW a \in Nat, NEW b \in Nat, NEW c \in Nat PROVE a * b * c \in Int
  <2>1. a * b \in Int
    OBVIOUS
  <2>2. QED
    BY <2>1
<1>2. ASSUME NEW l \in RISK_SEVERITY_ORDER
      PROVE  config.xgboost * x[l] * Total(r) \in Int
               /\ config.random_forest * r[l] * Total(x) \in Int
  BY <1>1, ConfigsAreWeights, TotalIsNat
<1>3. ASSUME NEW l \in RISK_SEVERITY_ORDER
      PROVE  config.xgboost * x[l] * Total(r) + config.random_forest * r[l] * Total(x)
               \in Int
  <2> DEFINE a == config.xgboost * x[l] * Total(r)
             b == config.random_forest * r[l] * Total(x)
  <2>1. a \in Int /\ b \in Int
    BY <1>2
  <2>2. HIDE DEF a, b
  <2>3. a + b \in Int
    BY <2>1
  <2>4. QED
    BY <2>3 DEF a, b
<1>4. QED
  BY <1>3 DEF WeightedClassProbabilities

(* What a verdict promises, of any record.                                 *)
Floored(v) ==
  /\ v.result.risk >= v.model
  /\ \A id \in v.result.findings : v.result.risk >= Severity(id)
  /\ v.result.risk = v.model \/ v.result.source = "deterministic_rule"
  /\ v.result.source = "model_ensemble_advisory" <=> v.result.findings = {}
  /\ v.result.source = "deterministic_rule_plus_ensemble" =>
       \A id \in v.result.findings : v.model > Severity(id)

LEMMA FusedIsFloored ==
  ASSUME NEW findings \in SUBSET FindingIds, NEW model \in RISK_SEVERITY_ORDER,
         NEW v, v.result.findings = findings, v.model = model,
         v.result.risk = FinalRisk(model, HighestRuleSeverity(findings)),
         v.result.source = RiskSource(v.result.risk, HighestRuleSeverity(findings))
  PROVE  Floored(v)
<1> DEFINE floor == HighestRuleSeverity(findings)
           risk == v.result.risk
<1>1. RISK_SEVERITY_ORDER = 0..4
  BY DEF RISK_SEVERITY_ORDER, Informational, Critical
<1>2. floor \subseteq 0..4 /\ model \in 0..4
        /\ (\A s \in floor, id \in findings : Severity(id) <= s)
        /\ (\A s, t \in floor : s = t) /\ (floor = {} <=> findings = {})
  BY <1>1, FloorIsHighest
<1>3. \A id \in findings : Severity(id) \in 2..4
  BY Severities DEF Medium, High, Critical
<1>4. CASE floor = {}
  <2>1. risk = model /\ v.result.source = "model_ensemble_advisory"
    BY <1>4 DEF FinalRisk, RiskSource
  <2>2. QED
    BY <2>1, <1>2, <1>4 DEF Floored
<1>5. CASE floor # {}
  <2>1. PICK s \in floor : TRUE
    BY <1>5
  <2>2. floor = {s} /\ s \in 0..4
    BY <2>1, <1>2
  <2>3. \A id \in findings : Severity(id) <= s
    BY <2>1, <1>2
  <2>4. (CHOOSE t \in floor : TRUE) = s
    BY <2>2
  <2>5. risk = IF s > model THEN s ELSE model
    BY <2>2, <2>4 DEF FinalRisk
  <2>6. v.result.source = IF risk = s THEN "deterministic_rule"
                          ELSE "deterministic_rule_plus_ensemble"
    BY <2>2 DEF RiskSource
  <2>7. risk >= model /\ risk >= s /\ (risk = model \/ risk = s)
          /\ (risk # s => model > s) /\ risk \in 0..4
    BY <2>2, <2>5, <1>2
  <2>8. \A id \in findings : risk >= Severity(id) /\ (risk # s => model > Severity(id))
    BY <2>2, <2>3, <2>7, <1>2, <1>3
  <2>9. QED
    BY <2>6, <2>7, <2>8, <1>2, <1>5 DEF Floored
<1>6. QED
  BY <1>4, <1>5

(***************************************************************************)
(* The dashboard's bucket of a record that its validators let through.     *)
(***************************************************************************)
LEMMA PostureOfFindings ==
  ASSUME NEW f, ValidateTlsFields(f)
  PROVE  /\ ExtractRuleFindings(f) \cap {"TLS-001", "TLS-002", "FS-001", "CERT-001",
              "CERT-002", "CERT-003", "CERT-004", "CRIT-001"} # {} =>
              CryptographicPosture(f) \in {"deprecated", "weak", "handshake_failed"}
         /\ CryptographicPosture(f) \in {"deprecated", "weak"} =>
              ExtractRuleFindings(f) # {} \/ f.cert_key_algorithm # {"RSA"}
<1> DEFINE IsFailed == ~f.handshake_success /\ f.handshake_failures > 0
           IsDeprecated == f.tls_version \cap Deprecated # {} \/ f.cipher_family \cap Broken # {}
           IsWeak == \/ f.cert_expired = {TRUE}
                     \/ f.hostname_mismatch = {TRUE}
                     \/ f.cert_chain_valid = {FALSE}
                     \/ f.forward_secrecy = {FALSE}
                     \/ HasShortKey(f)
           Sound == IF f.tls_version = {"TLS1.3"} THEN "modern"
                    ELSE IF f.tls_version = {"TLS1.2"} THEN "adequate" ELSE "unknown"
<1>1. CryptographicPosture(f) =
        IF IsFailed THEN "handshake_failed"
        ELSE IF IsDeprecated THEN "deprecated"
        ELSE IF IsWeak THEN "weak" ELSE Sound
  BY Zenon DEF CryptographicPosture
<1>2. Sound \notin {"deprecated", "weak", "handshake_failed"}
  OBVIOUS
<1>3. f.forward_secrecy = {FALSE} => f.handshake_success
  BY DEF ValidateTlsFields, TlsFields
<1>4. ASSUME NEW id \in ExtractRuleFindings(f) \cap {"TLS-001", "TLS-002", "FS-001",
               "CERT-001", "CERT-002", "CERT-003", "CERT-004", "CRIT-001"}
      PROVE  IsDeprecated \/ IsWeak
  <2>1. Raises(id, f)
    BY <1>4 DEF ExtractRuleFindings
  <2>2. QED
    BY <1>4, <2>1 DEF Raises
<1>5. \A id \in FindingIds : Raises(id, f) => id \in ExtractRuleFindings(f)
  BY DEF ExtractRuleFindings
<1>6. /\ {"TLS-001", "TLS-002", "FS-001", "CERT-001", "CERT-002"} \subseteq FindingIds
      /\ {"CERT-003", "CERT-004"} \subseteq FindingIds
  BY DEF FindingIds
<1>7. ASSUME IsDeprecated \/ IsWeak, f.cert_key_algorithm = {"RSA"}
      PROVE  \E id \in FindingIds : Raises(id, f)
  <2>1. f.tls_version \cap Deprecated # {} => Raises("TLS-001", f)
    BY Zenon DEF Raises
  <2>2. f.cipher_family \cap Broken # {} => Raises("TLS-002", f)
    BY Zenon DEF Raises
  <2>3. f.cert_expired = {TRUE} => Raises("CERT-001", f)
    BY Zenon DEF Raises
  <2>4. f.hostname_mismatch = {TRUE} => Raises("CERT-004", f)
    BY Zenon DEF Raises
  <2>5. f.cert_chain_valid = {FALSE} => Raises("CERT-003", f)
    BY Zenon DEF Raises
  <2>6. f.forward_secrecy = {FALSE} => Raises("FS-001", f)
    BY Zenon, <1>3 DEF Raises
  <2>7. HasShortKey(f) => Raises("CERT-002", f)
    BY Zenon, <1>7 DEF Raises
  <2> DEFINE Raised == \E id \in FindingIds : Raises(id, f)
  <2>8. \A id \in FindingIds : Raises(id, f) => Raised
    BY Zenon
  <2> HIDE DEF Raised
  <2>9. IsDeprecated => Raised
    BY <1>6, <2>1, <2>2, <2>8
  <2>10. IsWeak => Raised
    BY Zenon, <1>6, <2>3, <2>4, <2>5, <2>6, <2>7, <2>8
  <2>11. Raised
    BY Zenon, <1>7, <2>9, <2>10
  <2>12. QED
    BY Zenon, <2>11 DEF Raised
<1> HIDE DEF IsFailed, IsDeprecated, IsWeak, Sound
<1>8. CryptographicPosture(f) \in {"deprecated", "weak"} => IsDeprecated \/ IsWeak
  BY <1>1, <1>2
<1>9. IsDeprecated \/ IsWeak =>
        CryptographicPosture(f) \in {"deprecated", "weak", "handshake_failed"}
  BY <1>1
<1>10. QED
  BY Zenon, <1>4, <1>5, <1>7, <1>8, <1>9

(***************************************************************************)
(* The records of authorized captures.                                     *)
(***************************************************************************)
LEMMA TlsFieldsFollowHandshake ==
  ASSUME NEW rows, NEW protocol, NEW trusted
  PROVE  /\ ValidateTlsFields(ExtractFeatures(rows, protocol, trusted))
         /\ ValidateCertificateFields(ExtractFeatures(rows, protocol, trusted))
<1> DEFINE starttls == \E i \in DOMAIN rows : rows[i].text
           success == HandshakeSuccess(rows)
           plain == [NoTls EXCEPT
             !.protocol = protocol, !.starttls_advertised = starttls,
             !.starttls_used = starttls /\ HasHandshakeType(rows, ClientHello),
             !.handshake_success = success,
             !.handshake_failures = HandshakeFailures(rows)]
           hello == CHOOSE h \in FirstHello(rows) : TRUE
           tls == IF success THEN NegotiatedTls(plain, hello) ELSE plain
           leaf == CHOOSE c \in FirstCertificate(rows) : TRUE
           Bare(f) == \A field \in CertificateMetadata : f[field] = {}
           Fields == DOMAIN NoTls
<1>1. \A field \in TlsFields \cup CertificateMetadata : field \in Fields /\ NoTls[field] = {}
  BY DEF NoTls, TlsFields, CertificateMetadata
<1>2. /\ DOMAIN plain = Fields /\ plain.handshake_success = success
      /\ \A field \in TlsFields \cup CertificateMetadata : plain[field] = {}
      /\ plain.cert_present = {FALSE}
  BY <1>1 DEF NoTls, TlsFields, CertificateMetadata
<1>3. /\ DOMAIN tls = Fields /\ tls.handshake_success = success
      /\ (\A field \in TlsFields : success <=> tls[field] # {})
      /\ Bare(tls) /\ tls.cert_present = {FALSE}
  <2> HIDE DEF plain, success, hello, starttls
  <2>1. {"tls_version", "cipher_suite", "cipher_family", "key_exchange", "signature_algorithm",
         "forward_secrecy", "handshake_success", "cert_present"} \subseteq Fields
    BY DEF NoTls
  <2>2. CASE ~success
    BY <1>2, <2>2
  <2>3. CASE success
    <3>1. tls = NegotiatedTls(plain, hello)
      BY <2>3
    <3>2. DOMAIN tls = Fields /\ tls.handshake_success = success /\ tls.cert_present = {FALSE}
      BY <1>2, <2>1, <3>1 DEF NegotiatedTls
    <3>3. \A field \in TlsFields : tls[field] # {}
      BY <1>2, <2>1, <3>1 DEF NegotiatedTls, TlsFields
    <3>4. ASSUME NEW field \in CertificateMetadata PROVE tls[field] = {}
      <4>1. field \in Fields /\ field \notin TlsFields /\ plain[field] = {}
        BY <1>1, <1>2 DEF TlsFields, CertificateMetadata
      <4>2. tls[field] = plain[field]
        BY <1>2, <3>1, <4>1 DEF NegotiatedTls, TlsFields
      <4>3. QED
        BY <4>1, <4>2
    <3>5. QED
      BY <2>3, <3>2, <3>3, <3>4
  <2>4. QED
    BY <2>2, <2>3
<1>4. ExtractFeatures(rows, protocol, trusted) =
        IF FirstCertificate(rows) = {} THEN tls
        ELSE TrustedCertificateFields(CertificateMetadataOf(tls, leaf), leaf, trusted)
  BY DEF ExtractFeatures
<1>5. CASE FirstCertificate(rows) = {}
  <2> HIDE DEF tls, success
  <2>1. ExtractFeatures(rows, protocol, trusted) = tls
    BY <1>4, <1>5
  <2>2. tls.cert_expired # {TRUE}
    BY <1>3 DEF CertificateMetadata
  <2>3. QED
    BY <1>3, <2>1, <2>2 DEF ValidateTlsFields, ValidateCertificateFields
<1>6. CASE FirstCertificate(rows) # {}
  <2> HIDE DEF tls, success, leaf
  <2> DEFINE f == CertificateMetadataOf(tls, leaf)
             g == TrustedCertificateFields(f, leaf, trusted)
  <2>1. ExtractFeatures(rows, protocol, trusted) = g
    BY <1>4, <1>6
  <2>2. {"cert_present", "cert_expired", "cert_expires_in_days", "cert_key_algorithm",
         "cert_key_length_bits", "cert_signature_algorithm", "cert_chain_valid",
         "hostname_mismatch", "cert_valid", "handshake_success"} \cup TlsFields \subseteq Fields
    BY DEF NoTls, TlsFields
  <2>3. /\ DOMAIN f = Fields /\ f.cert_present = {TRUE} /\ f.cert_expired = {leaf.expired}
        /\ f.cert_valid = {} /\ f.handshake_success = success
        /\ \A field \in TlsFields : f[field] = tls[field]
    BY <1>3, <2>2 DEF CertificateMetadataOf, TlsFields, CertificateMetadata
  <2> HIDE DEF f
  <2>4. /\ g.cert_present = {TRUE} /\ g.cert_expired = {leaf.expired}
        /\ g.handshake_success = success
        /\ \A field \in TlsFields : g[field] = tls[field]
    BY <2>2, <2>3 DEF TrustedCertificateFields, TlsFields
  <2>5. g.cert_valid = IF trusted THEN
          {(leaf.chain /\ ~leaf.expired) /\ ~leaf.mismatch /\ ~leaf.expired} ELSE {}
    BY <2>2, <2>3 DEF TrustedCertificateFields
  <2> HIDE DEF g
  <2>6. ~(g.cert_expired = {TRUE} /\ g.cert_valid = {TRUE})
    <3> SUFFICES ASSUME g.cert_expired = {TRUE}, g.cert_valid = {TRUE} PROVE FALSE
      OBVIOUS
    <3>1. leaf.expired = TRUE
      BY <2>4
    <3>2. g.cert_valid = {FALSE} \/ g.cert_valid = {}
      BY <3>1, <2>5
    <3>3. QED
      BY <3>2
  <2>7. ValidateTlsFields(g)
    BY <1>3, <2>4 DEF ValidateTlsFields
  <2>8. ValidateCertificateFields(g)
    BY <2>4, <2>6 DEF ValidateCertificateFields
  <2>9. QED
    BY <2>1, <2>7, <2>8
<1>7. QED
  BY <1>5, <1>6

(* Whatever is captured, from the whole connection to a single packet of   *)
(* it, the extractor's record passes the validators.                       *)
LEMMA AuthorizedRecordIsValid ==
  ASSUME NEW rows, NEW n \in Nat, DOMAIN rows = 1..n, Len(rows) = n, Extractable(rows),
         NEW protocol
  PROVE  ValidateSession(ExtractSession(rows, "authorized_capture", "authorized",
                                        "authorized", protocol, {}, FALSE))
<1> DEFINE e == [source |-> "pcap", fields |-> PcapFields,
                 packets |-> {[start |-> 1, end |-> Len(rows)]}]
           record == ExtractSession(rows, "authorized_capture", "authorized",
                                    "authorized", protocol, {}, FALSE)
<1>1. 1 <= n
  BY DEF Extractable
<1>2. record.features = ExtractFeatures(rows, protocol, FALSE)
        /\ record.provenance =
             [source_type |-> "authorized_capture", scenario_id |-> "authorized",
              environment_id |-> "authorized", parameter_hash |-> {},
              generator_seed |-> {}, evidence_refs |-> {e}]
  BY DEF ExtractSession
<1> HIDE DEF record
<1>3. ValidatePacketRange(e)
  <2>1. \A r \in e.packets : r.start <= r.end
    BY <1>1
  <2>2. e.packets # {} /\ e.fields # {}
    BY DEF PcapFields
  <2>3. QED
    BY <2>1, <2>2 DEF ValidatePacketRange
<1>4. e.source = "pcap"
  OBVIOUS
<1> HIDE DEF e
<1>5. record.provenance.evidence_refs = {e} /\ ValidateGeneratedSeed(record.provenance)
  BY <1>2, <1>4 DEF ValidateGeneratedSeed
<1>6. ValidateTlsFields(record.features) /\ ValidateCertificateFields(record.features)
  BY <1>2, TlsFieldsFollowHandshake
<1>7. ValidateSession(record)
  BY <1>3, <1>5, <1>6 DEF ValidateSession
<1>8. QED
  BY <1>7 DEF record

(***************************************************************************)
(* The inductive invariant: there is at most one record, which stays valid *)
(* on its way, and a verdict is the one on that record.                    *)
(***************************************************************************)
Shaped(r) ==
  r \in [features : {r.features}, provenance : {r.provenance}, labels : {r.labels}]

OneRecord ==
  session # {} =>
    /\ session = {Record} /\ Shaped(Record)
    /\ stage # "invalid" => ValidateTlsFields(Record.features)

OnRecord(v) ==
  /\ v.status \in {"degraded", "complete"}
  /\ v.result.findings = ExtractRuleFindings(Record.features)
  /\ v.result.floor = HighestRuleSeverity(v.result.findings)
  /\ v.result.risk \in RISK_SEVERITY_ORDER
  /\ v.result.action = Action(v.result.risk, v.result.anomaly, v.result.floor)
  /\ v.posture = CryptographicPosture(Record.features)

AuthorizedIsValid == origin.source = "authorized_capture" => ExtractionIsValid

IndInv ==
  /\ TypeOK /\ sent \in Nat
  /\ OneRecord /\ AuthorizedIsValid
  /\ \A v \in verdict : OnRecord(v) /\ Floored(v)

LEMMA InitInv == Init => IndInv
<1> SUFFICES ASSUME Init PROVE IndInv
  OBVIOUS
<1>1. Cardinality({}) = 0
  BY FS_EmptySet
<1>2. TypeOK
  BY <1>1, MaxLostIsNat DEF Init, TypeOK
<1>3. QED
  BY <1>2 DEF Init, IndInv, OneRecord, AuthorizedIsValid, ExtractionIsValid

LEMMA CapturedIsFinite ==
  ASSUME IndInv PROVE IsFiniteSet(captured) /\ Cardinality(captured) \in Nat
<1>1. captured \subseteq 1..sent /\ sent \in Int
  BY DEF IndInv, TypeOK
<1>2. IsFiniteSet(1..sent)
  BY <1>1, FS_Interval
<1>3. IsFiniteSet(captured)
  BY <1>1, <1>2, FS_Subset
<1>4. QED
  BY <1>3, FS_CardinalityType

(* A packet passes or is lost: the record is still to come.                *)
LEMMA PacketInv == ASSUME IndInv, Pass \/ Lose PROVE IndInv'
<1>1. /\ stage = "capturing" /\ sent \in Nat /\ captured \subseteq 1..sent
      /\ Cardinality(captured) + MaxLost >= sent
      /\ session = {} /\ payload = {} /\ verdict = {}
  BY DEF IndInv, TypeOK, Pass, Lose
<1>2. IsFiniteSet(captured) /\ Cardinality(captured) \in Nat
  BY CapturedIsFinite
<1>3. sent' = sent + 1 /\ UNCHANGED <<origin, stage, session, payload, verdict>>
  BY DEF Pass, Lose
<1>4. captured' \subseteq 1..sent' /\ Cardinality(captured') + MaxLost >= sent'
  <2>1. CASE Pass
    <3>1. captured' = captured \cup {sent + 1} /\ sent + 1 \notin captured
      BY <1>1, <2>1 DEF Pass
    <3>2. Cardinality(captured') = Cardinality(captured) + 1
      BY <3>1, <1>2, FS_AddElement
    <3>3. QED
      BY <3>1, <3>2, <1>1, <1>2, <1>3, MaxLostIsNat
  <2>2. CASE Lose
    <3>1. captured' = captured /\ sent - Cardinality(captured) < MaxLost
      BY <2>2 DEF Lose
    <3>2. QED
      BY <3>1, <1>1, <1>2, <1>3, MaxLostIsNat
  <2>3. QED
    BY <2>1, <2>2
<1>5. TypeOK'
  BY <1>1, <1>3, <1>4 DEF TypeOK
<1>6. QED
  BY <1>1, <1>3, <1>5 DEF IndInv, OneRecord, AuthorizedIsValid, ExtractionIsValid

LEMMA ExtractedInv ==
  ASSUME IndInv, stage = "capturing", NEW record, Shaped(record), Extracted(record),
         origin.source = "authorized_capture" => ValidateSession(record)
  PROVE  IndInv'
<1>1. payload = {} /\ verdict = {} /\ UNCHANGED <<origin, sent, captured, payload, verdict>>
  BY DEF IndInv, TypeOK, Extracted
<1>2. session' = {record} /\ stage' = IF ValidateSession(record) THEN "record" ELSE "invalid"
  BY DEF Extracted
<1>3. TypeOK'
  BY <1>1, <1>2 DEF IndInv, TypeOK
<1>4. Record' = record
  BY <1>2 DEF Record
<1>5. OneRecord'
  BY <1>2, <1>4 DEF OneRecord, ValidateSession
<1>6. AuthorizedIsValid'
  BY <1>1, <1>2 DEF AuthorizedIsValid, ExtractionIsValid
<1>7. QED
  BY <1>1, <1>3, <1>5, <1>6 DEF IndInv

LEMMA ExtractAuthorizedInv == ASSUME IndInv, ExtractAuthorized PROVE IndInv'
<1> DEFINE record == ExtractSession(Rows, "authorized_capture", "authorized",
                                    "authorized", Connection.protocol, {}, FALSE)
<1>1. stage = "capturing" /\ Extractable(Rows) /\ Extracted(record)
  BY DEF ExtractAuthorized
<1>2. Cardinality(captured) \in Nat
  BY CapturedIsFinite
<1>3. DOMAIN Rows = 1..Cardinality(captured) /\ Len(Rows) = Cardinality(captured)
  BY <1>2 DEF Rows
<1>4. ValidateSession(record)
  BY <1>1, <1>2, <1>3, AuthorizedRecordIsValid
<1>5. Shaped(record)
  BY DEF ExtractSession, Shaped
<1>6. QED
  BY <1>1, <1>4, <1>5, ExtractedInv

LEMMA ExtractNothingInv == ASSUME IndInv, ExtractNothing PROVE IndInv'
<1>1. TypeOK'
  BY DEF IndInv, TypeOK, ExtractNothing
<1>2. session' = {} /\ verdict' = {} /\ stage' = "empty" /\ sent' = sent
  BY DEF IndInv, TypeOK, ExtractNothing
<1>3. QED
  BY <1>1, <1>2 DEF IndInv, OneRecord, AuthorizedIsValid, ExtractionIsValid

LEMMA ExtractLabInv == ASSUME IndInv, ExtractLab PROVE IndInv'
<1> DEFINE record == ExtractSession(Rows, "synthetic_pcap", origin.scenario, "lab",
                                    Connection.protocol, LabLabels(origin.scenario), TRUE)
<1>1. stage = "capturing" /\ origin.source = "synthetic_pcap" /\ Extracted(record)
  BY DEF ExtractLab
<1>2. Shaped(record)
  BY DEF ExtractSession, Shaped
<1>3. QED
  BY <1>1, <1>2, ExtractedInv

LEMMA GenerateInv == ASSUME IndInv, Generate PROVE IndInv'
<1>1. stage = "capturing" /\ origin.source = "synthetic_feature"
  BY DEF Generate
<1>2. PICK f \in BuildFeatures(origin.scenario) :
        Extracted(BuildRecord(origin.scenario, "env", f))
  BY DEF Generate
<1>3. Shaped(BuildRecord(origin.scenario, "env", f))
  BY DEF BuildRecord, Shaped
<1>4. QED
  BY <1>1, <1>2, <1>3, ExtractedInv

(* A submission may replace the record's labels, never its features.       *)
LEMMA SubmittedRecord ==
  ASSUME IndInv, NEW p \in Payloads, Submit(p)
  PROVE  session' = {Record'} /\ Shaped(Record') /\ Record'.features = Record.features
<1>1. stage = "record" /\ session = {Record} /\ Shaped(Record)
  BY DEF Submit, IndInv, TypeOK, OneRecord
<1>2. \E record : session' = {record} /\ Shaped(record) /\ record.features = Record.features
  <2>1. CASE session' = session
    BY <1>1, <2>1
  <2>2. CASE session' # session
    <3> DEFINE new == [risk |-> Informational, anomaly |-> 0, expected |-> {}]
               record == [Record EXCEPT !.labels = new]
    <3>1. session' = {record}
      BY <2>2 DEF Submit
    <3>2. Shaped(record) /\ record.features = Record.features
      BY <1>1 DEF Shaped
    <3>3. QED
      BY <3>1, <3>2
  <2>3. QED
    BY <2>1, <2>2
<1>3. QED
  BY <1>2 DEF Record

LEMMA SubmitInv == ASSUME IndInv, NEW p \in Payloads, Submit(p) PROVE IndInv'
<1>1. /\ stage = "record" /\ session = {Record} /\ Shaped(Record) /\ verdict = {}
      /\ ValidateTlsFields(Record.features) /\ sent \in Nat
  BY DEF Submit, IndInv, TypeOK, OneRecord
<1>2. payload' = {p} /\ stage' \in {"refused", "accepted"} /\ verdict' = {}
        /\ UNCHANGED <<origin, sent, captured>>
  BY <1>1 DEF Submit
<1>4. session' = {Record'} /\ Shaped(Record') /\ Record'.features = Record.features
  BY SubmittedRecord
<1>5. TypeOK'
  BY <1>1, <1>2, <1>4 DEF IndInv, TypeOK
<1>6. OneRecord'
  BY <1>1, <1>4 DEF OneRecord
<1>7. AuthorizedIsValid'
  BY <1>2 DEF AuthorizedIsValid, ExtractionIsValid
<1>8. QED
  BY <1>1, <1>2, <1>5, <1>6, <1>7 DEF IndInv

LEMMA InferInv == ASSUME IndInv, Infer PROVE IndInv'
<1>1. /\ stage = "accepted" /\ stage' = "scored"
      /\ UNCHANGED <<origin, sent, captured, session, payload>>
  BY DEF Infer
<1>2. session # {} /\ OneRecord /\ ValidateTlsFields(Record.features)
  BY <1>1 DEF IndInv, TypeOK, OneRecord
<1>3. PICK output \in Outputs, calibration \in Calibrations, config \in Configs,
           explained \in BOOLEAN :
        verdict' = {Score(output, calibration, config, explained)}
  BY DEF Infer
<1> DEFINE v == Score(output, calibration, config, explained)
           x == CalibratedClassProbabilities(output.xgboost, calibration.xgboost)
           r == CalibratedClassProbabilities(output.random_forest, calibration.random_forest)
           fused == WeightedClassProbabilities(x, r, config)
           findings == ExtractRuleFindings(Record.features)
<1>4. /\ v.status \in {"degraded", "complete"} /\ v.model = ModelRisk(fused)
      /\ v.posture = CryptographicPosture(Record.features)
      /\ v.result = FuseSession(Record, findings, fused,
                                AnomalyDetected(output.isolation, calibration))
  BY DEF Score
<1>5. ModelRisk(fused) \in RISK_SEVERITY_ORDER
  <2>1. x \in [RISK_SEVERITY_ORDER -> Nat] /\ r \in [RISK_SEVERITY_ORDER -> Nat]
    BY CalibratedAreWeights, OutputsAreWeights, CalibratorsAnswerWeights
  <2>2. QED
    BY <2>1, FusedAreWeights, ModelRiskIsLabel
<1> HIDE DEF fused, v
<1>6. /\ v.result.findings = findings /\ v.result.floor = HighestRuleSeverity(findings)
      /\ v.result.risk = FinalRisk(ModelRisk(fused), HighestRuleSeverity(findings))
      /\ v.result.action = Action(v.result.risk, v.result.anomaly, v.result.floor)
      /\ v.result.source = RiskSource(v.result.risk, HighestRuleSeverity(findings))
  BY <1>4 DEF FuseSession
<1>7. findings \in SUBSET FindingIds
  BY DEF ExtractRuleFindings
<1>8. Floored(v)
  BY <1>4, <1>5, <1>6, <1>7, FusedIsFloored
<1>r. v.result.risk \in RISK_SEVERITY_ORDER
  BY <1>5, <1>6 DEF FinalRisk, HighestRuleSeverity
<1>9. verdict' = {v} /\ Record' = Record
  BY <1>1, <1>3 DEF v, Record
<1>10. TypeOK'
  BY <1>1, <1>9 DEF IndInv, TypeOK
<1>11. OneRecord'
  BY <1>1, <1>2, <1>9 DEF OneRecord
<1>12. AuthorizedIsValid'
  BY <1>1 DEF AuthorizedIsValid, ExtractionIsValid
<1>13. \A w \in verdict' : OnRecord(w)' /\ Floored(w)
  BY <1>4, <1>6, <1>8, <1>r, <1>9 DEF OnRecord
<1>14. QED
  BY <1>1, <1>10, <1>11, <1>12, <1>13 DEF IndInv, Floored

(* The record stays as it is, and no verdict is new.                       *)
LEMMA RecordStays ==
  ASSUME IndInv, TypeOK', UNCHANGED <<origin, sent, captured, session>>,
         verdict' \subseteq verdict, stage \notin {"capturing", "invalid"},
         stage' # "invalid"
  PROVE  IndInv'
<1>1. Record' = Record
  BY DEF Record
<1>2. OneRecord'
  BY <1>1 DEF IndInv, OneRecord
<1>3. AuthorizedIsValid'
  BY DEF AuthorizedIsValid, ExtractionIsValid
<1>4. \A v \in verdict' : OnRecord(v)' /\ Floored(v)
  BY <1>1 DEF IndInv, OnRecord
<1>5. QED
  BY <1>2, <1>3, <1>4 DEF IndInv, Floored

LEMMA NextInv == ASSUME IndInv, Next PROVE IndInv'
<1>1. CASE Pass \/ Lose
  BY <1>1, PacketInv
<1>2. CASE ExtractAuthorized
  BY <1>2, ExtractAuthorizedInv
<1>3. CASE ExtractNothing
  BY <1>3, ExtractNothingInv
<1>4. CASE ExtractLab
  BY <1>4, ExtractLabInv
<1>5. CASE Generate
  BY <1>5, GenerateInv
<1>6. CASE \E p \in Payloads : Submit(p)
  BY <1>6, SubmitInv
<1>7. CASE NotScored
  <2>1. TypeOK'
    BY <1>7 DEF IndInv, TypeOK, NotScored
  <2>2. QED
    BY <1>7, <2>1, RecordStays DEF NotScored
<1>8. CASE Infer
  BY <1>8, InferInv
<1>9. CASE Answer
  <2>1. stage' \in {"degraded", "complete"} /\ stage = "scored"
          /\ UNCHANGED <<origin, sent, captured, session, payload, verdict>>
    BY <1>9 DEF IndInv, OnRecord, Answer
  <2>2. TypeOK'
    BY <2>1 DEF IndInv, TypeOK
  <2>3. QED
    BY <2>1, <2>2, RecordStays
<1>10. CASE PersistFails
  <2>1. TypeOK'
    BY <1>10 DEF IndInv, TypeOK, PersistFails
  <2>2. QED
    BY <1>10, <2>1, RecordStays DEF PersistFails
<1>11. CASE Retry
  <2>1. TypeOK'
    BY <1>11 DEF IndInv, TypeOK, Retry
  <2>2. stage \notin {"capturing", "invalid"} /\ stage' # "invalid"
          /\ UNCHANGED <<origin, sent, captured, session, verdict>>
    BY <1>11 DEF Retry
  <2>3. QED
    BY <2>1, <2>2, RecordStays
<1>12. QED
  BY <1>1, <1>2, <1>3, <1>4, <1>5, <1>6, <1>7, <1>8, <1>9, <1>10, <1>11 DEF Next

LEMMA StutterInv == ASSUME IndInv, UNCHANGED vars PROVE IndInv'
<1>1. Record' = Record
  BY DEF vars, Record
<1>2. TypeOK'
  BY DEF vars, IndInv, TypeOK
<1>3. OneRecord' /\ AuthorizedIsValid'
  BY <1>1 DEF vars, IndInv, OneRecord, AuthorizedIsValid, ExtractionIsValid
<1>4. \A v \in verdict' : OnRecord(v)' /\ Floored(v)
  BY <1>1 DEF vars, IndInv, OnRecord
<1>5. QED
  BY <1>2, <1>3, <1>4 DEF vars, IndInv, Floored

(* The inductive invariant holds in every reachable state.                 *)
THEOREM Invariance == Spec => []IndInv
<1>1. IndInv /\ [Next]_vars => IndInv'
  BY NextInv, StutterInv
<1>2. QED
  BY InitInv, <1>1, PTL DEF Spec

(* A capture holds packets that were sent and misses at most MaxLost; a    *)
(* session has a record, a payload and a verdict in the stages that it     *)
(* should, across refusals, failures and retries.                          *)
THEOREM TypeCorrect == Spec => []TypeOK
<1>1. IndInv => TypeOK
  BY DEF IndInv
<1>2. QED
  BY <1>1, Invariance, PTL

(* Whatever connection is captured, whichever of its packets are lost and  *)
(* wherever the capture ends, the extractor makes a record that passes its *)
(* own validators (ml/pcap.py against ml/schema.py).                       *)
THEOREM AuthorizedCapturesAreValid == Spec => []AuthorizedIsValid
<1>1. IndInv => AuthorizedIsValid
  BY DEF IndInv
<1>2. QED
  BY <1>1, Invariance, PTL

(* For all that models, calibrators and weights may answer, a verdict is   *)
(* never below the severity of a finding nor below the models' risk, and   *)
(* names the source that decided it (ml/fusion.py).                        *)
THEOREM VerdictsKeepFloor == Spec => []FloorKept
<1>1. IndInv => FloorKept
  BY DEF IndInv, FloorKept, Floored
<1>2. QED
  BY <1>1, Invariance, PTL

(* What the rules find is never shown as sound on the dashboard, and what  *)
(* it shows as weak has a finding or a key that is not RSA (ml/rules.py    *)
(* against api/schemas.py).                                                *)
THEOREM PosturesAgree == Spec => []PostureAgrees
<1>1. ASSUME IndInv PROVE PostureAgrees
  <2>1. ASSUME NEW v \in verdict
        PROVE  /\ v.result.findings = ExtractRuleFindings(Record.features)
               /\ v.posture = CryptographicPosture(Record.features)
               /\ ValidateTlsFields(Record.features)
    BY <1>1 DEF IndInv, OnRecord, OneRecord, TypeOK
  <2>2. QED
    BY <2>1, PostureOfFindings DEF PostureAgrees
<1>2. QED
  BY <1>1, Invariance, PTL
=============================================================================
