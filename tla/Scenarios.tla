----------------------------- MODULE Scenarios -----------------------------
(***************************************************************************)
(* The scenario catalogue and the generator of synthetic records           *)
(* (ml/dataset.py): what a scenario's record shows, how it is labelled and *)
(* in which bucket of a dataset it is generated.                           *)
(***************************************************************************)
EXTENDS Session

Ok ==
  [protocol |-> "SMTP", starttls_advertised |-> TRUE, starttls_used |-> TRUE,
   handshake_success |-> TRUE, handshake_failures |-> 0,
   renegotiation_count |-> 0, tls_version |-> {"TLS1.3"},
   cipher_suite |-> {"TLS_AES_256_GCM_SHA384"}, cipher_family |-> {"AES-GCM"},
   key_exchange |-> {"ECDHE"}, signature_algorithm |-> {"RSA-PSS"},
   forward_secrecy |-> {TRUE}, cert_present |-> {TRUE}, cert_valid |-> {TRUE},
   cert_expired |-> {FALSE}, cert_expires_in_days |-> {241},
   cert_chain_valid |-> {TRUE}, hostname_mismatch |-> {FALSE},
   cert_key_algorithm |-> {"RSA"}, cert_key_length_bits |-> {2048},
   cert_signature_algorithm |-> {"SHA256-RSA"}]

(* A session over TLS 1.2 and older, with the suite it negotiated.         *)
Tls(version, suite, family, signature) ==
  [Ok EXCEPT !.tls_version = {version}, !.cipher_suite = {suite},
             !.cipher_family = {family}, !.signature_algorithm = {signature}]
Tls12 ==
  Tls("TLS1.2", "TLS_ECDHE_RSA_WITH_AES_128_GCM_SHA256", "AES-GCM", "SHA256-RSA")
ChaCha12 ==
  Tls("TLS1.2", "TLS_ECDHE_RSA_WITH_CHACHA20_POLY1305_SHA256",
      "CHACHA20-POLY1305", "SHA256-RSA")
ChaCha13 ==
  Tls("TLS1.3", "TLS_CHACHA20_POLY1305_SHA256", "CHACHA20-POLY1305", "RSA-PSS")
NoSecrecy(f) ==
  [f EXCEPT !.key_exchange = {"RSA"}, !.forward_secrecy = {FALSE}]
Ecdsa(f) ==
  [f EXCEPT !.signature_algorithm = {"ECDSA"}, !.cert_key_algorithm = {"ECDSA"},
            !.cert_key_length_bits = {256},
            !.cert_signature_algorithm = {"SHA256-ECDSA"}]
Rsa(f, bits) == [f EXCEPT !.cert_key_length_bits = {bits}]
Expired(f, days) ==
  [f EXCEPT !.cert_valid = {FALSE}, !.cert_expired = {TRUE},
            !.cert_expires_in_days = {days}]
BadChain(f) == [f EXCEPT !.cert_valid = {FALSE}, !.cert_chain_valid = {FALSE}]
Mismatch(f) == [f EXCEPT !.hostname_mismatch = {TRUE}]
Expiring(days) == [Ok EXCEPT !.cert_expires_in_days = {days}]
Failed(failures) ==
  [NoTls EXCEPT !.starttls_advertised = TRUE, !.starttls_used = TRUE,
                !.handshake_failures = failures]

(* An entry: its label, the findings it is expected to raise, the version  *)
(* of its lab profile and the features of its record.                      *)
Entry(risk, anomaly, expected, version, f) ==
  [risk |-> risk, anomaly |-> anomaly, expected |-> expected,
   version |-> version, features |-> f]
Normal(version, f) == Entry(Informational, 0, {}, version, f)

NormalTls ==
  [normal_tls13_valid |-> Normal("TLS1.3", Ok),
   normal_tls12_valid |-> Normal("TLS1.2", Tls12),
   starttls_used_successfully |-> Normal("TLS1.3", Ok),
   normal_tls13_aes128 |->
     Normal("TLS1.3", [Ok EXCEPT !.cipher_suite = {"TLS_AES_128_GCM_SHA256"}]),
   normal_tls12_aes256 |->
     Normal("TLS1.2", [Tls12 EXCEPT
       !.cipher_suite = {"TLS_ECDHE_RSA_WITH_AES_256_GCM_SHA384"}]),
   normal_tls13_ecdsa |-> Normal("TLS1.3", Ecdsa(Ok))]

NormalKeys ==
  [normal_tls12_rsa4096 |-> Normal("TLS1.2", Rsa(Tls12, 4096)),
   normal_tls12_ecdsa |->
     Normal("TLS1.2", [Ecdsa(Tls12) EXCEPT
       !.cipher_suite = {"TLS_ECDHE_ECDSA_WITH_AES_128_GCM_SHA256"}]),
   normal_tls13_rsa4096 |-> Normal("TLS1.3", Rsa(Ok, 4096)),
   starttls_used_tls12 |-> Normal("TLS1.2", Tls12),
   normal_tls12_aes_cbc |->
     Normal("TLS1.2", Tls("TLS1.2", "TLS_ECDHE_RSA_WITH_AES_128_CBC_SHA256",
                          "AES-CBC", "SHA256-RSA"))]

WeakTls ==
  [deprecated_tls |->
     Entry(Critical, 1, {"TLS-001", "FS-001"}, "TLS1.0",
           NoSecrecy(Tls("TLS1.0", "TLS_RSA_WITH_AES_128_CBC_SHA",
                         "AES-CBC", "SHA1-RSA"))),
   weak_cipher |->
     Entry(Critical, 1, {"TLS-002", "FS-001"}, "TLS1.2",
           NoSecrecy(Tls("TLS1.2", "TLS_RSA_WITH_3DES_EDE_CBC_SHA",
                         "3DES", "SHA1-RSA"))),
   invalid_chain_repeated_failures |->
     Entry(Critical, 1, {"CRIT-001", "CERT-003", "ANOM-001"}, "TLS1.3",
           [BadChain(Ok) EXCEPT !.handshake_failures = 3]),
   rsa_no_forward_secrecy |->
     Entry(High, 1, {"FS-001"}, "TLS1.2",
           NoSecrecy([Tls12 EXCEPT
             !.cipher_suite = {"TLS_RSA_WITH_AES_128_GCM_SHA256"}]))]

ExpiredCertificates ==
  [expired_certificate |->
     Entry(High, 1, {"CERT-001"}, "TLS1.3", Expired(Ok, -12)),
   expired_certificate_tls12 |->
     Entry(High, 1, {"CERT-001"}, "TLS1.2", Expired(Tls12, -12)),
   expired_certificate_ecdsa |->
     Entry(High, 1, {"CERT-001"}, "TLS1.3", Expired(Ecdsa(Ok), -18))]

BadCertificates ==
  [invalid_certificate_chain |->
     Entry(High, 1, {"CERT-003"}, "TLS1.3", BadChain(Ok)),
   invalid_certificate_chain_tls12 |->
     Entry(High, 1, {"CERT-003"}, "TLS1.2", BadChain(Tls12)),
   hostname_mismatch |-> Entry(High, 1, {"CERT-004"}, "TLS1.3", Mismatch(Ok)),
   hostname_mismatch_tls12 |->
     Entry(High, 1, {"CERT-004"}, "TLS1.2", Mismatch(Tls12)),
   weak_rsa_key |-> Entry(High, 1, {"CERT-002"}, "TLS1.3", Rsa(Ok, 1024)),
   weak_rsa_key_tls12 |->
     Entry(High, 1, {"CERT-002"}, "TLS1.2", Rsa(Tls12, 1024))]

FailedHandshakes ==
  [starttls_advertised_unused |->
     Entry(High, 1, {"STLS-001"}, "TLS1.3",
           [Failed(0) EXCEPT !.starttls_used = FALSE]),
   starttls_handshake_failure |->
     Entry(High, 1, {"STLS-002"}, "TLS1.3", Failed(1)),
   repeated_handshake_failures |->
     Entry(High, 1, {"ANOM-001"}, "TLS1.3", Failed(4))]

UnusualTls ==
  [unusual_cipher_negotiation |-> Entry(Medium, 1, {"ANOM-002"}, "TLS1.2", ChaCha12),
   unexpected_tls_version |->
     Entry(Medium, 1, {"ANOM-003"}, "TLS1.1",
           Tls("TLS1.1", "TLS_ECDHE_RSA_WITH_AES_128_CBC_SHA",
               "AES-CBC", "SHA1-RSA")),
   uncommon_chacha20_negotiation |->
     Entry(Medium, 1, {"ANOM-002"}, "TLS1.3", ChaCha13),
   uncommon_chacha20_ecdsa |->
     Entry(Medium, 1, {"ANOM-002"}, "TLS1.3", Ecdsa(ChaCha13)),
   unusual_chacha20_rsa4096 |->
     Entry(Medium, 1, {"ANOM-002"}, "TLS1.2", Rsa(ChaCha12, 4096)),
   multiple_renegotiations |->
     Entry(High, 1, {"ANOM-004"}, "TLS1.2",
           [Tls12 EXCEPT !.renegotiation_count = 3])]

ExpiringCertificates ==
  [certificate_expiry_advisory |-> Entry(Low, 0, {}, "TLS1.3", Expiring(75)),
   certificate_expiry_warning |-> Entry(Low, 0, {}, "TLS1.3", Expiring(45)),
   certificate_expires_soon |-> Entry(Low, 0, {}, "TLS1.3", Expiring(14))]

CombinedWeaknesses ==
  [combined_critical_weaknesses |->
     Entry(Critical, 1, {"TLS-001", "TLS-002", "CERT-001"}, "TLS1.0",
           Rsa(Expired(NoSecrecy(Tls("TLS1.0", "TLS_RSA_WITH_3DES_EDE_CBC_SHA",
                                     "3DES", "SHA1-RSA")), -30), 1024)),
   expired_hostname_mismatch |->
     Entry(High, 1, {"CERT-001", "CERT-004"}, "TLS1.3", Mismatch(Expired(Ok, -9))),
   weak_rsa_no_forward_secrecy |->
     Entry(High, 1, {"CERT-002", "FS-001"}, "TLS1.2",
           Rsa(NoSecrecy([Tls12 EXCEPT
             !.cipher_suite = {"TLS_RSA_WITH_AES_128_GCM_SHA256"}]), 1024)),
   expired_invalid_chain |->
     Entry(High, 1, {"CERT-001", "CERT-003"}, "TLS1.3",
           BadChain(Expired(Ok, -21)))]

ScenarioIds ==
  DOMAIN NormalTls \cup DOMAIN NormalKeys \cup DOMAIN WeakTls
    \cup DOMAIN ExpiredCertificates \cup DOMAIN BadCertificates
    \cup DOMAIN FailedHandshakes \cup DOMAIN UnusualTls
    \cup DOMAIN ExpiringCertificates \cup DOMAIN CombinedWeaknesses
CATALOG ==
  [id \in ScenarioIds |->
     CASE id \in DOMAIN NormalTls -> NormalTls[id]
       [] id \in DOMAIN NormalKeys -> NormalKeys[id]
       [] id \in DOMAIN WeakTls -> WeakTls[id]
       [] id \in DOMAIN ExpiredCertificates -> ExpiredCertificates[id]
       [] id \in DOMAIN BadCertificates -> BadCertificates[id]
       [] id \in DOMAIN FailedHandshakes -> FailedHandshakes[id]
       [] id \in DOMAIN UnusualTls -> UnusualTls[id]
       [] id \in DOMAIN ExpiringCertificates -> ExpiringCertificates[id]
       [] id \in DOMAIN CombinedWeaknesses -> CombinedWeaknesses[id]]

(* The bucket a scenario is generated in.                                  *)
Bucket(id) ==
  IF id \in DOMAIN NormalTls \cup DOMAIN NormalKeys THEN "normal"
  ELSE IF id \in DOMAIN UnusualTls \cup {"repeated_handshake_failures"}
       THEN "behavioral_anomaly"
  ELSE IF id \in DOMAIN CombinedWeaknesses \cup {"invalid_chain_repeated_failures"}
       THEN "combined"
  ELSE "single_weakness"

(* A mutant of the next: a failed handshake may count no failure.          *)
BuildFeaturesFromNone(id) ==
  LET f == CATALOG[id].features
  IN CASE id \in {"repeated_handshake_failures",
                  "invalid_chain_repeated_failures"} ->
            {[f EXCEPT !.handshake_failures = n] : n \in 3..8}
       [] id = "starttls_handshake_failure" ->
            {[f EXCEPT !.handshake_failures = n] : n \in 0..3}
       [] id = "multiple_renegotiations" ->
            {[f EXCEPT !.renegotiation_count = n] : n \in 2..6}
       [] OTHER -> {f}

(* The records the generator may build of scenario id: three counters are  *)
(* drawn anew for every record.                                            *)
BuildFeatures(id) ==
  LET f == CATALOG[id].features
  IN CASE id \in {"repeated_handshake_failures",
                  "invalid_chain_repeated_failures"} ->
            {[f EXCEPT !.handshake_failures = n] : n \in 3..8}
       [] id = "starttls_handshake_failure" ->
            {[f EXCEPT !.handshake_failures = n] : n \in 1..3}
       [] id = "multiple_renegotiations" ->
            {[f EXCEPT !.renegotiation_count = n] : n \in 2..6}
       [] OTHER -> {f}

(* _build_record: the evidence is the scenario's, whatever fields it names. *)
BuildRecord(id, environment, f) ==
  [features |-> f,
   provenance |->
     [source_type |-> "synthetic_feature", scenario_id |-> id,
      environment_id |-> environment, parameter_hash |-> {},
      generator_seed |-> {0},
      evidence_refs |-> {[source |-> "scenario", packets |-> {}, fields |-> DOMAIN f]}],
   labels |-> [risk |-> CATALOG[id].risk, anomaly |-> CATALOG[id].anomaly,
               expected |-> CATALOG[id].expected]]
=============================================================================
