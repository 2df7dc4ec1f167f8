---------------------- MODULE PipelineCatalogueProofs ----------------------
(* Theorems about the scenario catalogue in Pipeline: the records generated  *)
(* from it and the lab runs made of it keep what its labels promise, for any *)
(* models, calibrations, weights and protocols.                              *)
EXTENDS PipelineWireProofs

(***************************************************************************)
(* The catalogue: the nine tables it is made of have no scenario in common.*)
(***************************************************************************)
LEMMA Domains ==
  /\ DOMAIN NormalTls = {"normal_tls13_valid", "normal_tls12_valid",
                         "starttls_used_successfully", "normal_tls13_aes128",
                         "normal_tls12_aes256", "normal_tls13_ecdsa"}
  /\ DOMAIN NormalKeys = {"normal_tls12_rsa4096", "normal_tls12_ecdsa",
                          "normal_tls13_rsa4096", "starttls_used_tls12",
                          "normal_tls12_aes_cbc"}
  /\ DOMAIN WeakTls = {"deprecated_tls", "weak_cipher",
                       "invalid_chain_repeated_failures", "rsa_no_forward_secrecy"}
  /\ DOMAIN ExpiredCertificates = {"expired_certificate", "expired_certificate_tls12",
                                   "expired_certificate_ecdsa"}
  /\ DOMAIN BadCertificates = {"invalid_certificate_chain",
                               "invalid_certificate_chain_tls12", "hostname_mismatch",
                               "hostname_mismatch_tls12", "weak_rsa_key",
                               "weak_rsa_key_tls12"}
  /\ DOMAIN FailedHandshakes = {"starttls_advertised_unused",
                                "starttls_handshake_failure",
                                "repeated_handshake_failures"}
  /\ DOMAIN UnusualTls = {"unusual_cipher_negotiation", "unexpected_tls_version",
                          "uncommon_chacha20_negotiation", "uncommon_chacha20_ecdsa",
                          "unusual_chacha20_rsa4096", "multiple_renegotiations"}
  /\ DOMAIN ExpiringCertificates = {"certificate_expiry_advisory",
                                    "certificate_expiry_warning",
                                    "certificate_expires_soon"}
  /\ DOMAIN CombinedWeaknesses = {"combined_critical_weaknesses",
                                  "expired_hostname_mismatch",
                                  "weak_rsa_no_forward_secrecy",
                                  "expired_invalid_chain"}
BY DEF NormalTls, NormalKeys, WeakTls, ExpiredCertificates,
       BadCertificates, FailedHandshakes, UnusualTls, ExpiringCertificates,
             CombinedWeaknesses

LEMMA Apart ==
  /\ DOMAIN NormalKeys \cap DOMAIN NormalTls = {}
  /\ DOMAIN WeakTls \cap (DOMAIN NormalTls \cup DOMAIN NormalKeys) = {}
  /\ DOMAIN ExpiredCertificates
       \cap (DOMAIN NormalTls \cup DOMAIN NormalKeys \cup DOMAIN WeakTls) = {}
  /\ DOMAIN BadCertificates
       \cap (DOMAIN NormalTls \cup DOMAIN NormalKeys \cup DOMAIN WeakTls
              \cup DOMAIN ExpiredCertificates) = {}
  /\ DOMAIN FailedHandshakes
       \cap (DOMAIN NormalTls \cup DOMAIN NormalKeys \cup DOMAIN WeakTls
              \cup DOMAIN ExpiredCertificates \cup DOMAIN BadCertificates) = {}
  /\ DOMAIN UnusualTls
       \cap (DOMAIN NormalTls \cup DOMAIN NormalKeys \cup DOMAIN WeakTls
              \cup DOMAIN ExpiredCertificates \cup DOMAIN BadCertificates
              \cup DOMAIN FailedHandshakes) = {}
  /\ DOMAIN ExpiringCertificates
       \cap (DOMAIN NormalTls \cup DOMAIN NormalKeys \cup DOMAIN WeakTls
              \cup DOMAIN ExpiredCertificates \cup DOMAIN BadCertificates
              \cup DOMAIN FailedHandshakes \cup DOMAIN UnusualTls) = {}
  /\ DOMAIN CombinedWeaknesses
       \cap (DOMAIN NormalTls \cup DOMAIN NormalKeys \cup DOMAIN WeakTls
              \cup DOMAIN ExpiredCertificates \cup DOMAIN BadCertificates
              \cup DOMAIN FailedHandshakes \cup DOMAIN UnusualTls
              \cup DOMAIN ExpiringCertificates) = {}
BY Domains

LEMMA Entries ==
  /\ \A id \in DOMAIN NormalTls : id \in ScenarioIds /\ CATALOG[id] = NormalTls[id]
  /\ \A id \in DOMAIN NormalKeys : id \in ScenarioIds /\ CATALOG[id] = NormalKeys[id]
  /\ \A id \in DOMAIN WeakTls : id \in ScenarioIds /\ CATALOG[id] = WeakTls[id]
  /\ \A id \in DOMAIN ExpiredCertificates :
       id \in ScenarioIds /\ CATALOG[id] = ExpiredCertificates[id]
  /\ \A id \in DOMAIN BadCertificates :
       id \in ScenarioIds /\ CATALOG[id] = BadCertificates[id]
  /\ \A id \in DOMAIN FailedHandshakes :
       id \in ScenarioIds /\ CATALOG[id] = FailedHandshakes[id]
  /\ \A id \in DOMAIN UnusualTls : id \in ScenarioIds /\ CATALOG[id] = UnusualTls[id]
  /\ \A id \in DOMAIN ExpiringCertificates :
       id \in ScenarioIds /\ CATALOG[id] = ExpiringCertificates[id]
  /\ \A id \in DOMAIN CombinedWeaknesses :
       id \in ScenarioIds /\ CATALOG[id] = CombinedWeaknesses[id]
BY Apart DEF CATALOG, ScenarioIds

(***************************************************************************)
(* The rules, one predicate for each.  A rule reads the fields it names as *)
(* its evidence and, for FS-001, whether the handshake succeeded.          *)
(***************************************************************************)
Tls001(f) == f.tls_version \cap Deprecated # {}
Tls002(f) == f.cipher_family \cap Broken # {}
Fs001(f) == f.handshake_success /\ f.forward_secrecy = {FALSE}
Cert001(f) == f.cert_expired = {TRUE}
Cert002(f) == f.cert_key_algorithm = {"RSA"} /\ HasShortKey(f)
Cert003(f) == f.cert_chain_valid = {FALSE}
Crit001(f) == f.cert_chain_valid = {FALSE} /\ f.handshake_failures >= 3
Cert004(f) == f.hostname_mismatch = {TRUE}
Stls001(f) == f.starttls_advertised /\ ~f.starttls_used
Stls002(f) == f.starttls_used /\ ~f.handshake_success /\ f.handshake_failures > 0
Anom001(f) == f.handshake_failures >= 3
Anom002(f) == f.cipher_family \cap {"RC4", "CHACHA20-POLY1305"} # {}
Anom003(f) == f.tls_version = {"TLS1.1"}
Anom004(f) == f.renegotiation_count >= 2

LEMMA Atoms == ASSUME NEW f, NEW id
  PROVE Raises(id, f) <=>
  \/ id = "TLS-001" /\ Tls001(f)
  \/ id = "TLS-002" /\ Tls002(f)
  \/ id = "FS-001" /\ Fs001(f)
  \/ id = "CERT-001" /\ Cert001(f)
  \/ id = "CERT-002" /\ Cert002(f)
  \/ id = "CERT-003" /\ Cert003(f)
  \/ id = "CRIT-001" /\ Crit001(f)
  \/ id = "CERT-004" /\ Cert004(f)
  \/ id = "STLS-001" /\ Stls001(f)
  \/ id = "STLS-002" /\ Stls002(f)
  \/ id = "ANOM-001" /\ Anom001(f)
  \/ id = "ANOM-002" /\ Anom002(f)
  \/ id = "ANOM-003" /\ Anom003(f)
  \/ id = "ANOM-004" /\ Anom004(f)
BY Zenon DEF Raises, Tls001, Tls002, Fs001, Cert001, Cert002, Cert003, Crit001,
   Cert004, Stls001, Stls002, Anom001, Anom002, Anom003, Anom004

LEMMA Atoms2 == ASSUME NEW f
  PROVE
  /\ Raises("TLS-001", f) <=> Tls001(f)
  /\ Raises("TLS-002", f) <=> Tls002(f)
  /\ Raises("FS-001", f) <=> Fs001(f)
  /\ Raises("CERT-001", f) <=> Cert001(f)
  /\ Raises("CERT-002", f) <=> Cert002(f)
  /\ Raises("CERT-003", f) <=> Cert003(f)
  /\ Raises("CRIT-001", f) <=> Crit001(f)
  /\ Raises("CERT-004", f) <=> Cert004(f)
  /\ Raises("STLS-001", f) <=> Stls001(f)
  /\ Raises("STLS-002", f) <=> Stls002(f)
  /\ Raises("ANOM-001", f) <=> Anom001(f)
  /\ Raises("ANOM-002", f) <=> Anom002(f)
  /\ Raises("ANOM-003", f) <=> Anom003(f)
  /\ Raises("ANOM-004", f) <=> Anom004(f)
BY Atoms, SMT

LEMMA FieldsTold ==
  /\ FieldsOf("TLS-001") = {"tls_version"}
  /\ FieldsOf("TLS-002") = {"cipher_suite", "cipher_family"}
  /\ FieldsOf("FS-001") = {"key_exchange", "forward_secrecy"}
  /\ FieldsOf("CERT-001") = {"cert_expired", "cert_expires_in_days"}
  /\ FieldsOf("CERT-002") = {"cert_key_algorithm", "cert_key_length_bits"}
  /\ FieldsOf("CERT-003") = {"cert_chain_valid"}
  /\ FieldsOf("CRIT-001") = {"cert_chain_valid", "handshake_failures"}
  /\ FieldsOf("CERT-004") = {"hostname_mismatch"}
  /\ FieldsOf("STLS-001") = {"starttls_advertised", "starttls_used"}
  /\ FieldsOf("STLS-002") = {"starttls_used", "handshake_success", "handshake_failures"}
  /\ FieldsOf("ANOM-001") = {"handshake_failures"}
  /\ FieldsOf("ANOM-002") = {"cipher_suite", "cipher_family"}
  /\ FieldsOf("ANOM-003") = {"tls_version"}
  /\ FieldsOf("ANOM-004") = {"renegotiation_count"}
BY DEF FieldsOf

Same(f, g, fields) == \A x \in fields : f[x] = g[x]

LEMMA RulesRead ==
  ASSUME NEW f, NEW g, f.handshake_success = g.handshake_success
  PROVE  \A id \in FindingIds : Same(f, g, FieldsOf(id)) => (Raises(id,
        f) <=> Raises(id, g))
<1>1. Same(f, g, FieldsOf("TLS-001")) => (Tls001(f) <=> Tls001(g))
  BY FieldsTold DEF Same, Tls001
<1>2. Same(f, g, FieldsOf("TLS-002")) => (Tls002(f) <=> Tls002(g))
  BY FieldsTold DEF Same, Tls002
<1>3. Same(f, g, FieldsOf("FS-001")) => (Fs001(f) <=> Fs001(g))
  BY FieldsTold DEF Same, Fs001
<1>4. Same(f, g, FieldsOf("CERT-001")) => (Cert001(f) <=> Cert001(g))
  BY FieldsTold DEF Same, Cert001
<1>5. Same(f, g, FieldsOf("CERT-002")) => (Cert002(f) <=> Cert002(g))
  BY FieldsTold DEF Same, Cert002, HasShortKey
<1>6. Same(f, g, FieldsOf("CERT-003")) => (Cert003(f) <=> Cert003(g))
  BY FieldsTold DEF Same, Cert003
<1>7. Same(f, g, FieldsOf("CRIT-001")) => (Crit001(f) <=> Crit001(g))
  BY FieldsTold DEF Same, Crit001
<1>8. Same(f, g, FieldsOf("CERT-004")) => (Cert004(f) <=> Cert004(g))
  BY FieldsTold DEF Same, Cert004
<1>9. Same(f, g, FieldsOf("STLS-001")) => (Stls001(f) <=> Stls001(g))
  BY FieldsTold DEF Same, Stls001
<1>10. Same(f, g, FieldsOf("STLS-002")) => (Stls002(f) <=> Stls002(g))
  BY FieldsTold DEF Same, Stls002
<1>11. Same(f, g, FieldsOf("ANOM-001")) => (Anom001(f) <=> Anom001(g))
  BY FieldsTold DEF Same, Anom001
<1>12. Same(f, g, FieldsOf("ANOM-002")) => (Anom002(f) <=> Anom002(g))
  BY FieldsTold DEF Same, Anom002
<1>13. Same(f, g, FieldsOf("ANOM-003")) => (Anom003(f) <=> Anom003(g))
  BY FieldsTold DEF Same, Anom003
<1>14. Same(f, g, FieldsOf("ANOM-004")) => (Anom004(f) <=> Anom004(g))
  BY FieldsTold DEF Same, Anom004
<1>15. QED
  BY <1>1, <1>2, <1>3, <1>4, <1>5, <1>6, <1>7, <1>8, <1>9, <1>10, <1>11, <1>12, <1>13,
     <1>14, Atoms2 DEF FindingIds

(***************************************************************************)
(* What the rules find of a record in which a handshake completed, and how *)
(* each change that a scenario makes to such a record changes it.          *)
(***************************************************************************)
Features ==
  {"protocol", "starttls_advertised", "starttls_used", "handshake_success",
   "handshake_failures", "renegotiation_count"} \cup TlsFields
     \cup CertificateMetadata \cup {"cert_present"}

(* The features of a completed handshake with a certificate.               *)
Negotiated(f) ==
  /\ DOMAIN f = Features
  /\ f.handshake_success /\ f.starttls_used
  /\ \A field \in TlsFields : f[field] # {}
  /\ f.cert_present = {TRUE}
  /\ ~(f.cert_expired = {TRUE} /\ f.cert_valid = {TRUE})

(* f is g but for the fields that are changed.                             *)
Differs(g, f, changed) ==
  /\ DOMAIN f = Features /\ DOMAIN g = Features
  /\ \A field \in Features \ changed : g[field] = f[field]

Raising(f, key, found) ==
  Negotiated(f) /\ f.cert_key_algorithm = {key} /\ ExtractRuleFindings(f) = found

LEMMA OthersRaised ==
  ASSUME NEW f, NEW g, NEW changed, Differs(g, f, changed),
         "handshake_success" \notin changed
  PROVE  \A id \in FindingIds : FieldsOf(id) \cap changed = {} =>
           (Raises(id, g) <=> Raises(id, f))
<1>1. "handshake_success" \in Features
  BY DEF Features
<1>2. f.handshake_success = g.handshake_success
  BY <1>1 DEF Differs
<1>3. \A id \in FindingIds : FieldsOf(id) \subseteq Features
  BY FieldsTold DEF FindingIds, Features, TlsFields, CertificateMetadata
<1>4. \A id \in FindingIds : FieldsOf(id) \cap changed = {} => Same(g, f, FieldsOf(id))
  BY <1>3 DEF Differs, Same
<1>5. QED
  BY <1>2, <1>4, RulesRead

(* A change of fields that keeps a record in one piece.                    *)
LEMMA StaysNegotiated ==
  ASSUME NEW f, NEW g, NEW changed, Differs(g, f, changed), Negotiated(f),
         changed \cap {"handshake_success", "starttls_used", "cert_present"} = {},
         \A field \in changed \cap TlsFields : g[field] # {},
         {"cert_expired", "cert_valid"} \cap changed = {} \/ g.cert_valid # {TRUE}
  PROVE  Negotiated(g)
<1>1. {"handshake_success", "starttls_used", "cert_present", "cert_expired",
        "cert_valid"}
        \cup TlsFields \subseteq Features
  BY DEF Features, TlsFields, CertificateMetadata
<1>2. g.handshake_success /\ g.starttls_used
  BY <1>1 DEF Negotiated, Differs
<1>3. g.cert_present = {TRUE}
  BY <1>1 DEF Negotiated, Differs
<1>4. \A field \in TlsFields : g[field] # {}
  BY <1>1 DEF Negotiated, Differs
<1>5. ~(g.cert_expired = {TRUE} /\ g.cert_valid = {TRUE})
  BY <1>1 DEF Negotiated, Differs
<1>6. QED
  BY <1>2, <1>3, <1>4, <1>5 DEF Negotiated, Differs

LEMMA FeaturesOfOk ==
  DOMAIN Ok = Features /\ DOMAIN NoTls = Features
BY DEF Ok, NoTls, Features, TlsFields, CertificateMetadata

LEMMA OkRaises == Raising(Ok, "RSA", {})
<1>1. Negotiated(Ok)
  <2>0. /\ Ok.tls_version # {} /\ Ok.cipher_suite # {} /\ Ok.cipher_family # {}
        /\ Ok.key_exchange # {} /\ Ok.signature_algorithm # {}
        /\ Ok.forward_secrecy # {}
    BY DEF Ok
  <2>1. \A field \in TlsFields : Ok[field] # {}
    BY <2>0 DEF TlsFields
  <2>2. Ok.cert_valid = {TRUE} /\ Ok.cert_expired = {FALSE} /\ {FALSE} # {TRUE}
    BY DEF Ok
  <2>3. QED
    BY <2>1, <2>2, FeaturesOfOk DEF Negotiated, Ok
<1>2. ~Tls001(Ok) /\ ~Anom003(Ok)
  BY DEF Tls001, Anom003, Ok, Deprecated
<1>3. ~Tls002(Ok) /\ ~Anom002(Ok)
  BY DEF Tls002, Anom002, Ok, Broken
<1>4. ~Fs001(Ok)
  BY DEF Fs001, Ok
<1>5. ~Cert001(Ok)
  BY DEF Cert001, Ok
<1>6. ~Cert002(Ok)
  BY DEF Cert002, Ok, HasShortKey
<1>7. ~Cert003(Ok) /\ ~Crit001(Ok)
  BY DEF Cert003, Crit001, Ok
<1>8. ~Cert004(Ok)
  BY DEF Cert004, Ok
<1>9. ~Stls001(Ok) /\ ~Stls002(Ok) /\ ~Anom001(Ok) /\ ~Anom004(Ok)
  BY DEF Stls001, Stls002, Anom001, Anom004, Ok
<1>10. \A id \in FindingIds : ~Raises(id, Ok)
  BY <1>2, <1>3, <1>4, <1>5, <1>6, <1>7, <1>8, <1>9, Atoms2 DEF FindingIds
<1>11. QED
  BY <1>1, <1>10 DEF Raising, ExtractRuleFindings, Ok

LEMMA NoSecrecyRaises ==
  ASSUME NEW f, NEW key, NEW found, Raising(f, key, found)
  PROVE  Raising(NoSecrecy(f), key, found \cup {"FS-001"})
<1> DEFINE g == NoSecrecy(f)
<1>1. Differs(g, f, {"key_exchange", "forward_secrecy"})
  BY DEF Raising, Negotiated, NoSecrecy, Differs
<1>2. g.key_exchange = {"RSA"} /\ g.forward_secrecy = {FALSE}
        /\ g.cert_key_algorithm = f.cert_key_algorithm
        /\ g.handshake_success = f.handshake_success
  BY DEF Raising, Negotiated, NoSecrecy, Features, TlsFields, CertificateMetadata
<1>3. HIDE DEF g
<1>4. Negotiated(g)
  BY <1>1, <1>2, StaysNegotiated DEF Raising
<1>5. Fs001(g)
  BY <1>2 DEF Fs001, Raising, Negotiated
<1>6. \A id \in FindingIds \ {"FS-001"} : Raises(id, g) <=> Raises(id, f)
  BY <1>1, OthersRaised, FieldsTold DEF FindingIds
<1>7. QED
  BY <1>2, <1>4, <1>5, <1>6, Atoms2 DEF Raising, ExtractRuleFindings, FindingIds, g

LEMMA SuiteRaises ==
  ASSUME NEW f, NEW key, NEW found, Raising(f, key, found), NEW suite
  PROVE  Raising([f EXCEPT !.cipher_suite = {suite}], key, found)
<1> DEFINE g == [f EXCEPT !.cipher_suite = {suite}]
<1>1. Differs(g, f, {"cipher_suite"})
  BY DEF Raising, Negotiated, Differs
<1>2. g.cipher_suite = {suite} /\ g.cipher_family = f.cipher_family
        /\ g.cert_key_algorithm = f.cert_key_algorithm
  BY DEF Raising, Negotiated, Features, TlsFields, CertificateMetadata
<1>3. HIDE DEF g
<1>4. Negotiated(g)
  <2> DEFINE changed == {"cipher_suite"}
  <2>1. \A field \in changed \cap TlsFields : g[field] # {}
    BY <1>2 DEF TlsFields
  <2>2. changed \cap {"handshake_success", "starttls_used", "cert_present"} = {}
    OBVIOUS
  <2>3. {"cert_expired", "cert_valid"} \cap changed = {} \/ g.cert_valid # {TRUE}
    BY <1>2
  <2>4. Differs(g, f, changed)
    BY <1>1
  <2>5. Negotiated(f)
    BY DEF Raising
  <2>6. HIDE DEF changed
  <2>7. QED
    BY <2>1, <2>2, <2>3, <2>4, <2>5, StaysNegotiated
<1>5. (Tls002(g) <=> Tls002(f)) /\ (Anom002(g) <=> Anom002(f))
  BY <1>2 DEF Tls002, Anom002
<1>6. \A id \in FindingIds \ {"TLS-002", "ANOM-002"} : Raises(id, g) <=> Raises(id, f)
  BY <1>1, OthersRaised, FieldsTold DEF FindingIds
<1>7. QED
  BY <1>2, <1>4, <1>5, <1>6, Atoms2
  DEF Raising, ExtractRuleFindings, FindingIds, g

LEMMA ExpiringRaises ==
  ASSUME NEW f, NEW key, NEW found, Raising(f, key, found), NEW days
  PROVE  Raising([f EXCEPT !.cert_expires_in_days = {days}], key, found)
<1> DEFINE g == [f EXCEPT !.cert_expires_in_days = {days}]
<1>1. Differs(g, f, {"cert_expires_in_days"})
  BY DEF Raising, Negotiated, Differs
<1>2. g.cert_expired = f.cert_expired /\ g.cert_valid = f.cert_valid
        /\ g.cert_key_algorithm = f.cert_key_algorithm
  BY DEF Raising, Negotiated, Features, TlsFields, CertificateMetadata
<1>3. HIDE DEF g
<1>4. Negotiated(g)
  <2> DEFINE changed == {"cert_expires_in_days"}
  <2>1. \A field \in changed \cap TlsFields : g[field] # {}
    BY <1>2 DEF TlsFields
  <2>2. changed \cap {"handshake_success", "starttls_used", "cert_present"} = {}
    OBVIOUS
  <2>3. {"cert_expired", "cert_valid"} \cap changed = {} \/ g.cert_valid # {TRUE}
    BY <1>2
  <2>4. Differs(g, f, changed)
    BY <1>1
  <2>5. Negotiated(f)
    BY DEF Raising
  <2>6. HIDE DEF changed
  <2>7. QED
    BY <2>1, <2>2, <2>3, <2>4, <2>5, StaysNegotiated
<1>5. Cert001(g) <=> Cert001(f)
  BY <1>2 DEF Cert001
<1>6. \A id \in FindingIds \ {"CERT-001"} : Raises(id, g) <=> Raises(id, f)
  BY <1>1, OthersRaised, FieldsTold DEF FindingIds
<1>7. QED
  BY <1>2, <1>4, <1>5, <1>6, Atoms2
  DEF Raising, ExtractRuleFindings, FindingIds, g

LEMMA EcdsaRaises ==
  ASSUME NEW f, NEW key, NEW found, Raising(f, key, found)
  PROVE  Raising(Ecdsa(f), "ECDSA", found \ {"CERT-002"})
<1> DEFINE g == Ecdsa(f)
<1>1. Differs(g, f, {"signature_algorithm", "cert_key_algorithm",
                      "cert_key_length_bits", "cert_signature_algorithm"})
  BY DEF Raising, Negotiated, Ecdsa, Differs
<1>2. g.signature_algorithm = {"ECDSA"} /\ g.cert_key_algorithm = {"ECDSA"}
  BY DEF Raising, Negotiated, Ecdsa, Features, TlsFields, CertificateMetadata
<1>3. HIDE DEF g
<1>4. Negotiated(g)
  <2> DEFINE changed == {"signature_algorithm", "cert_key_algorithm",
                         "cert_key_length_bits", "cert_signature_algorithm"}
  <2>1. \A field \in changed \cap TlsFields : g[field] # {}
    BY <1>2 DEF TlsFields
  <2>2. changed \cap {"handshake_success", "starttls_used", "cert_present"} = {}
    OBVIOUS
  <2>3. {"cert_expired", "cert_valid"} \cap changed = {} \/ g.cert_valid # {TRUE}
    BY <1>2
  <2>4. Differs(g, f, changed)
    BY <1>1
  <2>5. Negotiated(f)
    BY DEF Raising
  <2>6. HIDE DEF changed
  <2>7. QED
    BY <2>1, <2>2, <2>3, <2>4, <2>5, StaysNegotiated
<1>5. ~Cert002(g)
  BY <1>2 DEF Cert002
<1>6. \A id \in FindingIds \ {"CERT-002"} : Raises(id, g) <=> Raises(id, f)
  BY <1>1, OthersRaised, FieldsTold DEF FindingIds
<1>7. QED
  BY <1>2, <1>4, <1>5, <1>6, Atoms2
  DEF Raising, ExtractRuleFindings, FindingIds, g

LEMMA RsaStays ==
  ASSUME NEW f, NEW bits, Negotiated(f)
  PROVE  Negotiated(Rsa(f, bits))
<1> DEFINE g == Rsa(f, bits)
           changed == {"cert_key_length_bits"}
<1>1. Differs(g, f, changed)
  BY DEF Negotiated, Rsa, Differs
<1>2. \A field \in changed \cap TlsFields : g[field] # {}
  BY DEF TlsFields
<1>3. changed \cap {"handshake_success", "starttls_used", "cert_present"} = {}
  OBVIOUS
<1>4. {"cert_expired", "cert_valid"} \cap changed = {}
  OBVIOUS
<1>5. HIDE DEF changed, g
<1>6. Negotiated(g)
  BY <1>1, <1>2, <1>3, <1>4, StaysNegotiated
<1>7. QED
  BY <1>6 DEF g

LEMMA LongKeyRaises ==
  ASSUME NEW f, NEW key, NEW found, Raising(f, key, found), NEW bits \in Nat,
        bits >= 2048
  PROVE  Raising(Rsa(f, bits), key, found \ {"CERT-002"})
<1> DEFINE g == Rsa(f, bits)
<1>1. Differs(g, f, {"cert_key_length_bits"})
  BY DEF Raising, Negotiated, Rsa, Differs
<1>2. g.cert_key_length_bits = {bits} /\ g.cert_key_algorithm = f.cert_key_algorithm
  BY DEF Raising, Negotiated, Rsa, Features, TlsFields, CertificateMetadata
<1>3. HIDE DEF g
<1>4. Negotiated(g)
  BY RsaStays DEF Raising, g
<1>5. ~Cert002(g)
  BY <1>2 DEF Cert002, HasShortKey
<1>6. \A id \in FindingIds \ {"CERT-002"} : Raises(id, g) <=> Raises(id, f)
  BY <1>1, OthersRaised, FieldsTold DEF FindingIds
<1>7. QED
  BY <1>2, <1>4, <1>5, <1>6, Atoms2
  DEF Raising, ExtractRuleFindings, FindingIds, g

LEMMA ShortKeyRaises ==
  ASSUME NEW f, NEW key, NEW found, Raising(f, key, found), key = "RSA",
        NEW bits \in Nat, bits < 2048
  PROVE  Raising(Rsa(f, bits), key, found \cup {"CERT-002"})
<1> DEFINE g == Rsa(f, bits)
<1>1. Differs(g, f, {"cert_key_length_bits"})
  BY DEF Raising, Negotiated, Rsa, Differs
<1>2. g.cert_key_length_bits = {bits} /\ g.cert_key_algorithm = f.cert_key_algorithm
  BY DEF Raising, Negotiated, Rsa, Features, TlsFields, CertificateMetadata
<1>3. HIDE DEF g
<1>4. Negotiated(g)
  BY RsaStays DEF Raising, g
<1>5. Cert002(g)
  BY <1>2 DEF Cert002, HasShortKey, Raising
<1>6. \A id \in FindingIds \ {"CERT-002"} : Raises(id, g) <=> Raises(id, f)
  BY <1>1, OthersRaised, FieldsTold DEF FindingIds
<1>7. QED
  BY <1>2, <1>4, <1>5, <1>6, Atoms2
  DEF Raising, ExtractRuleFindings, FindingIds, g

LEMMA ExpiredRaises ==
  ASSUME NEW f, NEW key, NEW found, Raising(f, key, found), NEW days
  PROVE  Raising(Expired(f, days), key, found \cup {"CERT-001"})
<1> DEFINE g == Expired(f, days)
<1>1. Differs(g, f, {"cert_valid", "cert_expired", "cert_expires_in_days"})
  BY DEF Raising, Negotiated, Expired, Differs
<1>2. g.cert_valid = {FALSE} /\ g.cert_expired = {TRUE}
        /\ g.cert_key_algorithm = f.cert_key_algorithm
  BY DEF Raising, Negotiated, Expired, Features, TlsFields, CertificateMetadata
<1>3. HIDE DEF g
<1>4. Negotiated(g)
  <2> DEFINE changed == {"cert_valid", "cert_expired", "cert_expires_in_days"}
  <2>1. \A field \in changed \cap TlsFields : g[field] # {}
    BY <1>2 DEF TlsFields
  <2>2. changed \cap {"handshake_success", "starttls_used", "cert_present"} = {}
    OBVIOUS
  <2>3. {"cert_expired", "cert_valid"} \cap changed = {} \/ g.cert_valid # {TRUE}
    BY <1>2
  <2>4. Differs(g, f, changed)
    BY <1>1
  <2>5. Negotiated(f)
    BY DEF Raising
  <2>6. HIDE DEF changed
  <2>7. QED
    BY <2>1, <2>2, <2>3, <2>4, <2>5, StaysNegotiated
<1>5. Cert001(g)
  BY <1>2 DEF Cert001
<1>6. \A id \in FindingIds \ {"CERT-001"} : Raises(id, g) <=> Raises(id, f)
  BY <1>1, OthersRaised, FieldsTold DEF FindingIds
<1>7. QED
  BY <1>2, <1>4, <1>5, <1>6, Atoms2
  DEF Raising, ExtractRuleFindings, FindingIds, g

LEMMA BadChainRaises ==
  ASSUME NEW f, NEW key, NEW found, Raising(f, key, found), f.handshake_failures = 0
  PROVE  Raising(BadChain(f), key, (found \cup {"CERT-003"}) \ {"CRIT-001"})
<1> DEFINE g == BadChain(f)
<1>1. Differs(g, f, {"cert_valid", "cert_chain_valid"})
  BY DEF Raising, Negotiated, BadChain, Differs
<1>2. g.cert_valid = {FALSE} /\ g.cert_chain_valid = {FALSE}
        /\ g.handshake_failures = f.handshake_failures
              /\ g.cert_key_algorithm = f.cert_key_algorithm
  BY DEF Raising, Negotiated, BadChain, Features, TlsFields, CertificateMetadata
<1>3. HIDE DEF g
<1>4. Negotiated(g)
  <2> DEFINE changed == {"cert_valid", "cert_chain_valid"}
  <2>1. \A field \in changed \cap TlsFields : g[field] # {}
    BY <1>2 DEF TlsFields
  <2>2. changed \cap {"handshake_success", "starttls_used", "cert_present"} = {}
    OBVIOUS
  <2>3. {"cert_expired", "cert_valid"} \cap changed = {} \/ g.cert_valid # {TRUE}
    BY <1>2
  <2>4. Differs(g, f, changed)
    BY <1>1
  <2>5. Negotiated(f)
    BY DEF Raising
  <2>6. HIDE DEF changed
  <2>7. QED
    BY <2>1, <2>2, <2>3, <2>4, <2>5, StaysNegotiated
<1>5. Cert003(g) /\ ~Crit001(g)
  BY <1>2 DEF Cert003, Crit001
<1>6. \A id \in FindingIds \ {"CERT-003", "CRIT-001"} : Raises(id, g) <=> Raises(id, f)
  BY <1>1, OthersRaised, FieldsTold DEF FindingIds
<1>7. QED
  BY <1>2, <1>4, <1>5, <1>6, Atoms2
  DEF Raising, ExtractRuleFindings, FindingIds, g

LEMMA MismatchRaises ==
  ASSUME NEW f, NEW key, NEW found, Raising(f, key, found)
  PROVE  Raising(Mismatch(f), key, found \cup {"CERT-004"})
<1> DEFINE g == Mismatch(f)
<1>1. Differs(g, f, {"hostname_mismatch"})
  BY DEF Raising, Negotiated, Mismatch, Differs
<1>2. g.hostname_mismatch = {TRUE} /\ g.cert_key_algorithm = f.cert_key_algorithm
  BY DEF Raising, Negotiated, Mismatch, Features, TlsFields, CertificateMetadata
<1>3. HIDE DEF g
<1>4. Negotiated(g)
  <2> DEFINE changed == {"hostname_mismatch"}
  <2>1. \A field \in changed \cap TlsFields : g[field] # {}
    BY <1>2 DEF TlsFields
  <2>2. changed \cap {"handshake_success", "starttls_used", "cert_present"} = {}
    OBVIOUS
  <2>3. {"cert_expired", "cert_valid"} \cap changed = {} \/ g.cert_valid # {TRUE}
    BY <1>2
  <2>4. Differs(g, f, changed)
    BY <1>1
  <2>5. Negotiated(f)
    BY DEF Raising
  <2>6. HIDE DEF changed
  <2>7. QED
    BY <2>1, <2>2, <2>3, <2>4, <2>5, StaysNegotiated
<1>5. Cert004(g)
  BY <1>2 DEF Cert004
<1>6. \A id \in FindingIds \ {"CERT-004"} : Raises(id, g) <=> Raises(id, f)
  BY <1>1, OthersRaised, FieldsTold DEF FindingIds
<1>7. QED
  BY <1>2, <1>4, <1>5, <1>6, Atoms2
  DEF Raising, ExtractRuleFindings, FindingIds, g

LEMMA FailuresRaise ==
  ASSUME NEW f, NEW key, NEW found, Raising(f, key, found), NEW n \in Nat, n >= 3,
        "CERT-003" \in found
  PROVE  Raising([f EXCEPT !.handshake_failures = n], key, (found \cup {"CRIT-001",
        "ANOM-001"}) \ {"STLS-002"})
<1> DEFINE g == [f EXCEPT !.handshake_failures = n]
<1>1. Differs(g, f, {"handshake_failures"})
  BY DEF Raising, Negotiated, Differs
<1>2. g.handshake_failures = n /\ g.handshake_success = f.handshake_success
        /\ g.cert_chain_valid = f.cert_chain_valid
              /\ g.cert_key_algorithm = f.cert_key_algorithm
  BY DEF Raising, Negotiated, Features, TlsFields, CertificateMetadata
<1>3. HIDE DEF g
<1>4. Negotiated(g)
  <2> DEFINE changed == {"handshake_failures"}
  <2>1. \A field \in changed \cap TlsFields : g[field] # {}
    BY <1>2 DEF TlsFields
  <2>2. changed \cap {"handshake_success", "starttls_used", "cert_present"} = {}
    OBVIOUS
  <2>3. {"cert_expired", "cert_valid"} \cap changed = {} \/ g.cert_valid # {TRUE}
    BY <1>2
  <2>4. Differs(g, f, changed)
    BY <1>1
  <2>5. Negotiated(f)
    BY DEF Raising
  <2>6. HIDE DEF changed
  <2>7. QED
    BY <2>1, <2>2, <2>3, <2>4, <2>5, StaysNegotiated
<1>5. Cert003(f)
  BY Atoms2 DEF Raising, ExtractRuleFindings
<1>6. Crit001(g) /\ Anom001(g) /\ ~Stls002(g)
  BY <1>2, <1>5 DEF Cert003, Crit001, Anom001, Stls002, Raising, Negotiated
<1>7. \A id \in FindingIds \ {"CRIT-001", "STLS-002", "ANOM-001"} : Raises(id,
        g) <=> Raises(id, f)
  BY <1>1, OthersRaised, FieldsTold DEF FindingIds
<1>8. QED
  BY <1>2, <1>4, <1>5, <1>6, <1>7, Atoms2
  DEF Raising, ExtractRuleFindings, FindingIds, g

LEMMA RenegotiationsRaise ==
  ASSUME NEW f, NEW key, NEW found, Raising(f, key, found), NEW n \in Nat, n >= 2
  PROVE  Raising([f EXCEPT !.renegotiation_count = n], key, found \cup {"ANOM-004"})
<1> DEFINE g == [f EXCEPT !.renegotiation_count = n]
<1>1. Differs(g, f, {"renegotiation_count"})
  BY DEF Raising, Negotiated, Differs
<1>2. g.renegotiation_count = n /\ g.cert_key_algorithm = f.cert_key_algorithm
  BY DEF Raising, Negotiated, Features, TlsFields, CertificateMetadata
<1>3. HIDE DEF g
<1>4. Negotiated(g)
  <2> DEFINE changed == {"renegotiation_count"}
  <2>1. \A field \in changed \cap TlsFields : g[field] # {}
    BY <1>2 DEF TlsFields
  <2>2. changed \cap {"handshake_success", "starttls_used", "cert_present"} = {}
    OBVIOUS
  <2>3. {"cert_expired", "cert_valid"} \cap changed = {} \/ g.cert_valid # {TRUE}
    BY <1>2
  <2>4. Differs(g, f, changed)
    BY <1>1
  <2>5. Negotiated(f)
    BY DEF Raising
  <2>6. HIDE DEF changed
  <2>7. QED
    BY <2>1, <2>2, <2>3, <2>4, <2>5, StaysNegotiated
<1>5. Anom004(g)
  BY <1>2 DEF Anom004
<1>6. \A id \in FindingIds \ {"ANOM-004"} : Raises(id, g) <=> Raises(id, f)
  BY <1>1, OthersRaised, FieldsTold DEF FindingIds
<1>7. QED
  BY <1>2, <1>4, <1>5, <1>6, Atoms2
  DEF Raising, ExtractRuleFindings, FindingIds, g

(***************************************************************************)
(* What the rules find of the sessions the scenarios start from.           *)
(***************************************************************************)
(* The findings that rest on the version and the cipher.                   *)
Negotiation == {"TLS-001", "TLS-002", "ANOM-002", "ANOM-003"}

LEMMA TlsRaises ==
  ASSUME NEW version, NEW suite, NEW family, NEW signature, NEW found,
         found \subseteq Negotiation,
         "TLS-001" \in found <=> version \in Deprecated,
         "ANOM-003" \in found <=> version = "TLS1.1",
         "TLS-002" \in found <=> family \in Broken,
         "ANOM-002" \in found <=> family \in {"RC4", "CHACHA20-POLY1305"}
  PROVE  Raising(Tls(version, suite, family, signature), "RSA", found)
<1> DEFINE g == Tls(version, suite, family, signature)
           f == Ok
           changed == {"tls_version", "cipher_suite", "cipher_family",
                       "signature_algorithm"}
<1>1. Differs(g, f, changed)
  BY FeaturesOfOk DEF Tls, Differs
<1>2. g.tls_version = {version} /\ g.cipher_suite = {suite}
        /\ g.cipher_family = {family}
        /\ g.signature_algorithm = {signature}
        /\ g.cert_key_algorithm = f.cert_key_algorithm
  BY FeaturesOfOk DEF Tls, Features, TlsFields, CertificateMetadata
<1>3. Raising(f, "RSA", {})
  BY OkRaises
<1>4. HIDE DEF g, f
<1>5. Negotiated(g)
  <2>1. \A field \in changed \cap TlsFields : g[field] # {}
    BY <1>2
  <2>2. changed \cap {"handshake_success", "starttls_used", "cert_present"} = {}
    OBVIOUS
  <2>3. {"cert_expired", "cert_valid"} \cap changed = {}
    OBVIOUS
  <2>5. Negotiated(f)
    BY <1>3 DEF Raising
  <2>6. HIDE DEF changed
  <2>7. QED
    BY <2>1, <2>2, <2>3, <2>5, <1>1, StaysNegotiated
<1>6. /\ Tls001(g) <=> "TLS-001" \in found
      /\ Anom003(g) <=> "ANOM-003" \in found
  BY <1>2 DEF Tls001, Anom003
<1>7. /\ Tls002(g) <=> "TLS-002" \in found
      /\ Anom002(g) <=> "ANOM-002" \in found
  BY <1>2 DEF Tls002, Anom002
<1>8. \A id \in FindingIds \ Negotiation : FieldsOf(id) \cap changed = {}
  BY FieldsTold DEF FindingIds, Negotiation
<1>9. \A id \in FindingIds \ Negotiation : Raises(id, g) <=> Raises(id, f)
  <2>1. "handshake_success" \notin changed
    OBVIOUS
  <2>2. HIDE DEF changed
  <2>3. QED
    BY <1>1, <1>8, <2>1, OthersRaised
<1>10. ExtractRuleFindings(g) = found
  <2>1. \A id \in FindingIds \ Negotiation : ~Raises(id, g)
    BY <1>3, <1>9 DEF Raising, ExtractRuleFindings
  <2>2. \A id \in Negotiation : Raises(id, g) <=> id \in found
    BY <1>6, <1>7, Atoms2 DEF Negotiation
  <2>3. Negotiation \subseteq FindingIds
    BY DEF Negotiation, FindingIds
  <2>4. QED
    BY <2>1, <2>2, <2>3 DEF ExtractRuleFindings
<1>11. QED
  BY <1>2, <1>3, <1>5, <1>10 DEF Raising, g

(* The negotiations of the catalogue.                                      *)
LEMMA Tls12Raises == Raising(Tls12, "RSA", {})
BY TlsRaises DEF Tls12, Negotiation, Deprecated, Broken
LEMMA ChaCha12Raises == Raising(ChaCha12, "RSA", {"ANOM-002"})
BY TlsRaises DEF ChaCha12, Negotiation, Deprecated, Broken
LEMMA ChaCha13Raises == Raising(ChaCha13, "RSA", {"ANOM-002"})
BY TlsRaises DEF ChaCha13, Negotiation, Deprecated, Broken
LEMMA OldTlsRaises ==
  ASSUME NEW suite, NEW signature
  PROVE  /\ Raising(Tls("TLS1.2", suite, "AES-CBC", signature), "RSA", {})
         /\ Raising(Tls("TLS1.1", suite, "AES-CBC", signature), "RSA",
                    {"TLS-001", "ANOM-003"})
         /\ Raising(Tls("TLS1.0", suite, "AES-CBC", signature), "RSA", {"TLS-001"})
         /\ Raising(Tls("TLS1.2", suite, "3DES", signature), "RSA", {"TLS-002"})
         /\ Raising(Tls("TLS1.0", suite, "3DES", signature), "RSA",
                    {"TLS-001", "TLS-002"})
BY TlsRaises DEF Negotiation, Deprecated, Broken

LEMMA FailedRaises ==
  ASSUME NEW n \in Nat
  PROVE  /\ DOMAIN Failed(n) = Features
         /\ ValidateTlsFields(Failed(n)) /\ ValidateCertificateFields(Failed(n))
         /\ ExtractRuleFindings(Failed(n)) =
              (IF n > 0 THEN {"STLS-002"} ELSE {})
                    \cup (IF n >= 3 THEN {"ANOM-001"} ELSE {})
<1> DEFINE g == Failed(n)
<1>1. /\ g.tls_version = {} /\ g.cipher_suite = {} /\ g.cipher_family = {}
      /\ g.key_exchange = {} /\ g.signature_algorithm = {} /\ g.forward_secrecy = {}
      /\ g.starttls_advertised = TRUE /\ g.starttls_used = TRUE
      /\ g.handshake_success = FALSE /\ g.handshake_failures = n
      /\ g.renegotiation_count = 0
  BY DEF Failed, NoTls
<1>2. /\ g.cert_valid = {} /\ g.cert_expired = {} /\ g.cert_expires_in_days = {}
      /\ g.cert_chain_valid = {} /\ g.hostname_mismatch = {}
      /\ g.cert_key_algorithm = {} /\ g.cert_key_length_bits = {}
      /\ g.cert_signature_algorithm = {}
  BY DEF Failed, NoTls
<1>3. DOMAIN g = Features
  BY FeaturesOfOk DEF Failed
<1>4. HIDE DEF g
<1>5. ~Tls001(g) /\ ~Anom003(g) /\ ~Tls002(g) /\ ~Anom002(g)
  BY <1>1 DEF Tls001, Anom003, Tls002, Anom002
<1>6. ~Fs001(g) /\ ~Cert001(g) /\ ~Cert002(g)
  BY <1>1, <1>2 DEF Fs001, Cert001, Cert002
<1>7. ~Cert003(g) /\ ~Crit001(g) /\ ~Cert004(g)
  BY <1>2 DEF Cert003, Crit001, Cert004
<1>8. ~Stls001(g) /\ (Stls002(g) <=> n > 0) /\ (Anom001(g) <=> n >= 3) /\ ~Anom004(g)
  BY <1>1 DEF Stls001, Stls002, Anom001, Anom004
<1>9. ExtractRuleFindings(g) = (IF n > 0 THEN {"STLS-002"} ELSE {})
                                 \cup (IF n >= 3 THEN {"ANOM-001"} ELSE {})
  <2>1. \A id \in FindingIds : Raises(id, g) <=>
          \/ id = "STLS-002" /\ n > 0
          \/ id = "ANOM-001" /\ n >= 3
    BY <1>5, <1>6, <1>7, <1>8, Atoms2 DEF FindingIds
  <2>2. {"STLS-002", "ANOM-001"} \subseteq FindingIds
    BY DEF FindingIds
  <2>3. QED
    BY <2>1, <2>2 DEF ExtractRuleFindings
<1>10. ValidateTlsFields(g)
  BY <1>1 DEF ValidateTlsFields, TlsFields
<1>11. ValidateCertificateFields(g)
  BY <1>2 DEF ValidateCertificateFields, CertificateMetadata
<1>12. QED
  BY <1>3, <1>9, <1>10, <1>11 DEF g

(***************************************************************************)
(* What the rules find of the catalogue, entry by entry.                   *)
(***************************************************************************)
Shows(id, risk, expected, found) ==
  /\ CATALOG[id].risk = risk /\ CATALOG[id].expected = expected
  /\ \E key : Raising(CATALOG[id].features, key, found)

LEMMA EntryParts ==
  ASSUME NEW risk, NEW anomaly, NEW expected, NEW version, NEW f
  PROVE  /\ Entry(risk, anomaly, expected, version, f).risk = risk
         /\ Entry(risk, anomaly, expected, version, f).expected = expected
         /\ Entry(risk, anomaly, expected, version, f).version = version
         /\ Entry(risk, anomaly, expected, version, f).features = f
BY DEF Entry

LEMMA NormalTlsShow ==
  /\ Shows("normal_tls13_valid", Informational, {}, {})
  /\ Shows("normal_tls12_valid", Informational, {}, {})
  /\ Shows("starttls_used_successfully", Informational, {}, {})
  /\ Shows("normal_tls13_aes128", Informational, {}, {})
  /\ Shows("normal_tls12_aes256", Informational, {}, {})
  /\ Shows("normal_tls13_ecdsa", Informational, {}, {})
<1>1. Shows("normal_tls13_valid", Informational, {}, {})
  <2>1. Raising(Ok, "RSA", {})
    BY OkRaises
  <2>2. /\ CATALOG["normal_tls13_valid"].risk = Informational
        /\ CATALOG["normal_tls13_valid"].expected = {}
        /\ CATALOG["normal_tls13_valid"].features = Ok
    BY Domains, Entries, EntryParts DEF NormalTls, Normal
  <2>3. QED
    BY <2>1, <2>2 DEF Shows
<1>2. Shows("normal_tls12_valid", Informational, {}, {})
  <2>1. Raising(Tls12, "RSA", {})
    BY Tls12Raises
  <2>2. /\ CATALOG["normal_tls12_valid"].risk = Informational
        /\ CATALOG["normal_tls12_valid"].expected = {}
        /\ CATALOG["normal_tls12_valid"].features = Tls12
    BY Domains, Entries, EntryParts DEF NormalTls, Normal
  <2>3. QED
    BY <2>1, <2>2 DEF Shows
<1>3. Shows("starttls_used_successfully", Informational, {}, {})
  <2>1. Raising(Ok, "RSA", {})
    BY OkRaises
  <2>2. /\ CATALOG["starttls_used_successfully"].risk = Informational
        /\ CATALOG["starttls_used_successfully"].expected = {}
        /\ CATALOG["starttls_used_successfully"].features = Ok
    BY Domains, Entries, EntryParts DEF NormalTls, Normal
  <2>3. QED
    BY <2>1, <2>2 DEF Shows
<1>4. Shows("normal_tls13_aes128", Informational, {}, {})
  <2>1. Raising(Ok, "RSA", {})
    BY OkRaises
  <2>2. Raising([Ok EXCEPT !.cipher_suite = {"TLS_AES_128_GCM_SHA256"}], "RSA", {})
    BY <2>1, SuiteRaises
  <2>3. /\ CATALOG["normal_tls13_aes128"].risk = Informational
        /\ CATALOG["normal_tls13_aes128"].expected = {}
        /\ CATALOG["normal_tls13_aes128"].features = [Ok EXCEPT
              !.cipher_suite = {"TLS_AES_128_GCM_SHA256"}]
    BY Domains, Entries, EntryParts DEF NormalTls, Normal
  <2>4. QED
    BY <2>2, <2>3 DEF Shows
<1>5. Shows("normal_tls12_aes256", Informational, {}, {})
  <2>1. Raising(Tls12, "RSA", {})
    BY Tls12Raises
  <2>2. Raising([Tls12 EXCEPT
          !.cipher_suite = {"TLS_ECDHE_RSA_WITH_AES_256_GCM_SHA384"}], "RSA", {})
    BY <2>1, SuiteRaises
  <2>3. /\ CATALOG["normal_tls12_aes256"].risk = Informational
        /\ CATALOG["normal_tls12_aes256"].expected = {}
        /\ CATALOG["normal_tls12_aes256"].features = [Tls12 EXCEPT
              !.cipher_suite = {"TLS_ECDHE_RSA_WITH_AES_256_GCM_SHA384"}]
    BY Domains, Entries, EntryParts DEF NormalTls, Normal
  <2>4. QED
    BY <2>2, <2>3 DEF Shows
<1>6. Shows("normal_tls13_ecdsa", Informational, {}, {})
  <2>1. Raising(Ok, "RSA", {})
    BY OkRaises
  <2>2. {} \ {"CERT-002"} = {}
    OBVIOUS
  <2>3. Raising(Ecdsa(Ok), "ECDSA", {})
    BY <2>1, <2>2, EcdsaRaises
  <2>4. /\ CATALOG["normal_tls13_ecdsa"].risk = Informational
        /\ CATALOG["normal_tls13_ecdsa"].expected = {}
        /\ CATALOG["normal_tls13_ecdsa"].features = Ecdsa(Ok)
    BY Domains, Entries, EntryParts DEF NormalTls, Normal
  <2>5. QED
    BY <2>3, <2>4 DEF Shows
<1>7. QED
  BY <1>1, <1>2, <1>3, <1>4, <1>5, <1>6

LEMMA NormalKeysShow ==
  /\ Shows("normal_tls12_rsa4096", Informational, {}, {})
  /\ Shows("normal_tls12_ecdsa", Informational, {}, {})
  /\ Shows("normal_tls13_rsa4096", Informational, {}, {})
  /\ Shows("starttls_used_tls12", Informational, {}, {})
  /\ Shows("normal_tls12_aes_cbc", Informational, {}, {})
<1>1. Shows("normal_tls12_rsa4096", Informational, {}, {})
  <2>1. Raising(Tls12, "RSA", {})
    BY Tls12Raises
  <2>2. {} \ {"CERT-002"} = {}
    OBVIOUS
  <2>3. Raising(Rsa(Tls12, 4096), "RSA", {})
    BY <2>1, <2>2, LongKeyRaises
  <2>4. /\ CATALOG["normal_tls12_rsa4096"].risk = Informational
        /\ CATALOG["normal_tls12_rsa4096"].expected = {}
        /\ CATALOG["normal_tls12_rsa4096"].features = Rsa(Tls12, 4096)
    BY Domains, Entries, EntryParts DEF NormalKeys, Normal
  <2>5. QED
    BY <2>3, <2>4 DEF Shows
<1>2. Shows("normal_tls12_ecdsa", Informational, {}, {})
  <2>1. Raising(Tls12, "RSA", {})
    BY Tls12Raises
  <2>2. {} \ {"CERT-002"} = {}
    OBVIOUS
  <2>3. Raising(Ecdsa(Tls12), "ECDSA", {})
    BY <2>1, <2>2, EcdsaRaises
  <2>4. Raising([Ecdsa(Tls12) EXCEPT
          !.cipher_suite = {"TLS_ECDHE_ECDSA_WITH_AES_128_GCM_SHA256"}], "ECDSA", {})
    BY <2>3, SuiteRaises
  <2>5. /\ CATALOG["normal_tls12_ecdsa"].risk = Informational
        /\ CATALOG["normal_tls12_ecdsa"].expected = {}
        /\ CATALOG["normal_tls12_ecdsa"].features = [Ecdsa(Tls12) EXCEPT
              !.cipher_suite = {"TLS_ECDHE_ECDSA_WITH_AES_128_GCM_SHA256"}]
    BY Domains, Entries, EntryParts DEF NormalKeys, Normal
  <2>6. QED
    BY <2>4, <2>5 DEF Shows
<1>3. Shows("normal_tls13_rsa4096", Informational, {}, {})
  <2>1. Raising(Ok, "RSA", {})
    BY OkRaises
  <2>2. {} \ {"CERT-002"} = {}
    OBVIOUS
  <2>3. Raising(Rsa(Ok, 4096), "RSA", {})
    BY <2>1, <2>2, LongKeyRaises
  <2>4. /\ CATALOG["normal_tls13_rsa4096"].risk = Informational
        /\ CATALOG["normal_tls13_rsa4096"].expected = {}
        /\ CATALOG["normal_tls13_rsa4096"].features = Rsa(Ok, 4096)
    BY Domains, Entries, EntryParts DEF NormalKeys, Normal
  <2>5. QED
    BY <2>3, <2>4 DEF Shows
<1>4. Shows("starttls_used_tls12", Informational, {}, {})
  <2>1. Raising(Tls12, "RSA", {})
    BY Tls12Raises
  <2>2. /\ CATALOG["starttls_used_tls12"].risk = Informational
        /\ CATALOG["starttls_used_tls12"].expected = {}
        /\ CATALOG["starttls_used_tls12"].features = Tls12
    BY Domains, Entries, EntryParts DEF NormalKeys, Normal
  <2>3. QED
    BY <2>1, <2>2 DEF Shows
<1>5. Shows("normal_tls12_aes_cbc", Informational, {}, {})
  <2>1. Raising(Tls("TLS1.2", "TLS_ECDHE_RSA_WITH_AES_128_CBC_SHA256", "AES-CBC",
          "SHA256-RSA"), "RSA", {})
    BY OldTlsRaises
  <2>2. /\ CATALOG["normal_tls12_aes_cbc"].risk = Informational
        /\ CATALOG["normal_tls12_aes_cbc"].expected = {}
        /\ CATALOG["normal_tls12_aes_cbc"].features = Tls("TLS1.2",
              "TLS_ECDHE_RSA_WITH_AES_128_CBC_SHA256", "AES-CBC", "SHA256-RSA")
    BY Domains, Entries, EntryParts DEF NormalKeys, Normal
  <2>3. QED
    BY <2>1, <2>2 DEF Shows
<1>6. QED
  BY <1>1, <1>2, <1>3, <1>4, <1>5

LEMMA WeakTlsShow ==
  /\ Shows("deprecated_tls", Critical, {"TLS-001", "FS-001"}, {"TLS-001", "FS-001"})
  /\ Shows("weak_cipher", Critical, {"TLS-002", "FS-001"}, {"TLS-002", "FS-001"})
  /\ Shows("rsa_no_forward_secrecy", High, {"FS-001"}, {"FS-001"})
<1>1. Shows("deprecated_tls", Critical, {"TLS-001", "FS-001"}, {"TLS-001", "FS-001"})
  <2>1. Raising(Tls("TLS1.0", "TLS_RSA_WITH_AES_128_CBC_SHA", "AES-CBC", "SHA1-RSA"),
          "RSA", {"TLS-001"})
    BY OldTlsRaises
  <2>2. {"TLS-001"} \cup {"FS-001"} = {"TLS-001", "FS-001"}
    OBVIOUS
  <2>3. Raising(NoSecrecy(Tls("TLS1.0", "TLS_RSA_WITH_AES_128_CBC_SHA", "AES-CBC",
          "SHA1-RSA")), "RSA", {"TLS-001", "FS-001"})
    BY <2>1, <2>2, NoSecrecyRaises
  <2>4. /\ CATALOG["deprecated_tls"].risk = Critical
        /\ CATALOG["deprecated_tls"].expected = {"TLS-001", "FS-001"}
        /\ CATALOG["deprecated_tls"].features = NoSecrecy(Tls("TLS1.0",
              "TLS_RSA_WITH_AES_128_CBC_SHA", "AES-CBC", "SHA1-RSA"))
    BY Domains, Entries, EntryParts DEF WeakTls
  <2>5. QED
    BY <2>3, <2>4 DEF Shows
<1>2. Shows("weak_cipher", Critical, {"TLS-002", "FS-001"}, {"TLS-002", "FS-001"})
  <2>1. Raising(Tls("TLS1.2", "TLS_RSA_WITH_3DES_EDE_CBC_SHA", "3DES", "SHA1-RSA"),
          "RSA", {"TLS-002"})
    BY OldTlsRaises
  <2>2. {"TLS-002"} \cup {"FS-001"} = {"TLS-002", "FS-001"}
    OBVIOUS
  <2>3. Raising(NoSecrecy(Tls("TLS1.2", "TLS_RSA_WITH_3DES_EDE_CBC_SHA", "3DES",
          "SHA1-RSA")), "RSA", {"TLS-002", "FS-001"})
    BY <2>1, <2>2, NoSecrecyRaises
  <2>4. /\ CATALOG["weak_cipher"].risk = Critical
        /\ CATALOG["weak_cipher"].expected = {"TLS-002", "FS-001"}
        /\ CATALOG["weak_cipher"].features = NoSecrecy(Tls("TLS1.2",
              "TLS_RSA_WITH_3DES_EDE_CBC_SHA", "3DES", "SHA1-RSA"))
    BY Domains, Entries, EntryParts DEF WeakTls
  <2>5. QED
    BY <2>3, <2>4 DEF Shows
<1>3. Shows("rsa_no_forward_secrecy", High, {"FS-001"}, {"FS-001"})
  <2>1. Raising(Tls12, "RSA", {})
    BY Tls12Raises
  <2>2. Raising([Tls12 EXCEPT !.cipher_suite = {"TLS_RSA_WITH_AES_128_GCM_SHA256"}],
          "RSA", {})
    BY <2>1, SuiteRaises
  <2>3. {} \cup {"FS-001"} = {"FS-001"}
    OBVIOUS
  <2>4. Raising(NoSecrecy([Tls12 EXCEPT
          !.cipher_suite = {"TLS_RSA_WITH_AES_128_GCM_SHA256"}]), "RSA", {"FS-001"})
    BY <2>2, <2>3, NoSecrecyRaises
  <2>5. /\ CATALOG["rsa_no_forward_secrecy"].risk = High
        /\ CATALOG["rsa_no_forward_secrecy"].expected = {"FS-001"}
        /\ CATALOG["rsa_no_forward_secrecy"].features = NoSecrecy([Tls12 EXCEPT
              !.cipher_suite = {"TLS_RSA_WITH_AES_128_GCM_SHA256"}])
    BY Domains, Entries, EntryParts DEF WeakTls
  <2>6. QED
    BY <2>4, <2>5 DEF Shows
<1>4. QED
  BY <1>1, <1>2, <1>3

LEMMA ExpiredCertificatesShow ==
  /\ Shows("expired_certificate", High, {"CERT-001"}, {"CERT-001"})
  /\ Shows("expired_certificate_tls12", High, {"CERT-001"}, {"CERT-001"})
  /\ Shows("expired_certificate_ecdsa", High, {"CERT-001"}, {"CERT-001"})
<1>1. Shows("expired_certificate", High, {"CERT-001"}, {"CERT-001"})
  <2>1. Raising(Ok, "RSA", {})
    BY OkRaises
  <2>2. {} \cup {"CERT-001"} = {"CERT-001"}
    OBVIOUS
  <2>3. Raising(Expired(Ok, -12), "RSA", {"CERT-001"})
    BY <2>1, <2>2, ExpiredRaises
  <2>4. /\ CATALOG["expired_certificate"].risk = High
        /\ CATALOG["expired_certificate"].expected = {"CERT-001"}
        /\ CATALOG["expired_certificate"].features = Expired(Ok, -12)
    BY Domains, Entries, EntryParts DEF ExpiredCertificates
  <2>5. QED
    BY <2>3, <2>4 DEF Shows
<1>2. Shows("expired_certificate_tls12", High, {"CERT-001"}, {"CERT-001"})
  <2>1. Raising(Tls12, "RSA", {})
    BY Tls12Raises
  <2>2. {} \cup {"CERT-001"} = {"CERT-001"}
    OBVIOUS
  <2>3. Raising(Expired(Tls12, -12), "RSA", {"CERT-001"})
    BY <2>1, <2>2, ExpiredRaises
  <2>4. /\ CATALOG["expired_certificate_tls12"].risk = High
        /\ CATALOG["expired_certificate_tls12"].expected = {"CERT-001"}
        /\ CATALOG["expired_certificate_tls12"].features = Expired(Tls12, -12)
    BY Domains, Entries, EntryParts DEF ExpiredCertificates
  <2>5. QED
    BY <2>3, <2>4 DEF Shows
<1>3. Shows("expired_certificate_ecdsa", High, {"CERT-001"}, {"CERT-001"})
  <2>1. Raising(Ok, "RSA", {})
    BY OkRaises
  <2>2. {} \ {"CERT-002"} = {}
    OBVIOUS
  <2>3. Raising(Ecdsa(Ok), "ECDSA", {})
    BY <2>1, <2>2, EcdsaRaises
  <2>4. {} \cup {"CERT-001"} = {"CERT-001"}
    OBVIOUS
  <2>5. Raising(Expired(Ecdsa(Ok), -18), "ECDSA", {"CERT-001"})
    BY <2>3, <2>4, ExpiredRaises
  <2>6. /\ CATALOG["expired_certificate_ecdsa"].risk = High
        /\ CATALOG["expired_certificate_ecdsa"].expected = {"CERT-001"}
        /\ CATALOG["expired_certificate_ecdsa"].features = Expired(Ecdsa(Ok), -18)
    BY Domains, Entries, EntryParts DEF ExpiredCertificates
  <2>7. QED
    BY <2>5, <2>6 DEF Shows
<1>4. QED
  BY <1>1, <1>2, <1>3

LEMMA BadCertificatesShow ==
  /\ Shows("invalid_certificate_chain", High, {"CERT-003"}, {"CERT-003"})
  /\ Shows("invalid_certificate_chain_tls12", High, {"CERT-003"}, {"CERT-003"})
  /\ Shows("hostname_mismatch", High, {"CERT-004"}, {"CERT-004"})
  /\ Shows("hostname_mismatch_tls12", High, {"CERT-004"}, {"CERT-004"})
  /\ Shows("weak_rsa_key", High, {"CERT-002"}, {"CERT-002"})
  /\ Shows("weak_rsa_key_tls12", High, {"CERT-002"}, {"CERT-002"})
<1>1. Shows("invalid_certificate_chain", High, {"CERT-003"}, {"CERT-003"})
  <2>1. Raising(Ok, "RSA", {})
    BY OkRaises
  <2>2. ({} \cup {"CERT-003"}) \ {"CRIT-001"} = {"CERT-003"}
    OBVIOUS
  <2>3. Ok.handshake_failures = 0
    BY DEF Ok, Tls12, Tls, Expired
  <2>4. Raising(BadChain(Ok), "RSA", {"CERT-003"})
    BY <2>1, <2>2, <2>3, BadChainRaises
  <2>5. /\ CATALOG["invalid_certificate_chain"].risk = High
        /\ CATALOG["invalid_certificate_chain"].expected = {"CERT-003"}
        /\ CATALOG["invalid_certificate_chain"].features = BadChain(Ok)
    BY Domains, Entries, EntryParts DEF BadCertificates
  <2>6. QED
    BY <2>4, <2>5 DEF Shows
<1>2. Shows("invalid_certificate_chain_tls12", High, {"CERT-003"}, {"CERT-003"})
  <2>1. Raising(Tls12, "RSA", {})
    BY Tls12Raises
  <2>2. ({} \cup {"CERT-003"}) \ {"CRIT-001"} = {"CERT-003"}
    OBVIOUS
  <2>3. Tls12.handshake_failures = 0
    BY DEF Ok, Tls12, Tls, Expired
  <2>4. Raising(BadChain(Tls12), "RSA", {"CERT-003"})
    BY <2>1, <2>2, <2>3, BadChainRaises
  <2>5. /\ CATALOG["invalid_certificate_chain_tls12"].risk = High
        /\ CATALOG["invalid_certificate_chain_tls12"].expected = {"CERT-003"}
        /\ CATALOG["invalid_certificate_chain_tls12"].features = BadChain(Tls12)
    BY Domains, Entries, EntryParts DEF BadCertificates
  <2>6. QED
    BY <2>4, <2>5 DEF Shows
<1>3. Shows("hostname_mismatch", High, {"CERT-004"}, {"CERT-004"})
  <2>1. Raising(Ok, "RSA", {})
    BY OkRaises
  <2>2. {} \cup {"CERT-004"} = {"CERT-004"}
    OBVIOUS
  <2>3. Raising(Mismatch(Ok), "RSA", {"CERT-004"})
    BY <2>1, <2>2, MismatchRaises
  <2>4. /\ CATALOG["hostname_mismatch"].risk = High
        /\ CATALOG["hostname_mismatch"].expected = {"CERT-004"}
        /\ CATALOG["hostname_mismatch"].features = Mismatch(Ok)
    BY Domains, Entries, EntryParts DEF BadCertificates
  <2>5. QED
    BY <2>3, <2>4 DEF Shows
<1>4. Shows("hostname_mismatch_tls12", High, {"CERT-004"}, {"CERT-004"})
  <2>1. Raising(Tls12, "RSA", {})
    BY Tls12Raises
  <2>2. {} \cup {"CERT-004"} = {"CERT-004"}
    OBVIOUS
  <2>3. Raising(Mismatch(Tls12), "RSA", {"CERT-004"})
    BY <2>1, <2>2, MismatchRaises
  <2>4. /\ CATALOG["hostname_mismatch_tls12"].risk = High
        /\ CATALOG["hostname_mismatch_tls12"].expected = {"CERT-004"}
        /\ CATALOG["hostname_mismatch_tls12"].features = Mismatch(Tls12)
    BY Domains, Entries, EntryParts DEF BadCertificates
  <2>5. QED
    BY <2>3, <2>4 DEF Shows
<1>5. Shows("weak_rsa_key", High, {"CERT-002"}, {"CERT-002"})
  <2>1. Raising(Ok, "RSA", {})
    BY OkRaises
  <2>2. {} \cup {"CERT-002"} = {"CERT-002"}
    OBVIOUS
  <2>3. Raising(Rsa(Ok, 1024), "RSA", {"CERT-002"})
    BY <2>1, <2>2, ShortKeyRaises
  <2>4. /\ CATALOG["weak_rsa_key"].risk = High
        /\ CATALOG["weak_rsa_key"].expected = {"CERT-002"}
        /\ CATALOG["weak_rsa_key"].features = Rsa(Ok, 1024)
    BY Domains, Entries, EntryParts DEF BadCertificates
  <2>5. QED
    BY <2>3, <2>4 DEF Shows
<1>6. Shows("weak_rsa_key_tls12", High, {"CERT-002"}, {"CERT-002"})
  <2>1. Raising(Tls12, "RSA", {})
    BY Tls12Raises
  <2>2. {} \cup {"CERT-002"} = {"CERT-002"}
    OBVIOUS
  <2>3. Raising(Rsa(Tls12, 1024), "RSA", {"CERT-002"})
    BY <2>1, <2>2, ShortKeyRaises
  <2>4. /\ CATALOG["weak_rsa_key_tls12"].risk = High
        /\ CATALOG["weak_rsa_key_tls12"].expected = {"CERT-002"}
        /\ CATALOG["weak_rsa_key_tls12"].features = Rsa(Tls12, 1024)
    BY Domains, Entries, EntryParts DEF BadCertificates
  <2>5. QED
    BY <2>3, <2>4 DEF Shows
<1>7. QED
  BY <1>1, <1>2, <1>3, <1>4, <1>5, <1>6

LEMMA UnusualTlsShow ==
  /\ Shows("unusual_cipher_negotiation", Medium, {"ANOM-002"}, {"ANOM-002"})
  /\ Shows("unexpected_tls_version", Medium, {"ANOM-003"}, {"TLS-001", "ANOM-003"})
  /\ Shows("uncommon_chacha20_negotiation", Medium, {"ANOM-002"}, {"ANOM-002"})
  /\ Shows("uncommon_chacha20_ecdsa", Medium, {"ANOM-002"}, {"ANOM-002"})
  /\ Shows("unusual_chacha20_rsa4096", Medium, {"ANOM-002"}, {"ANOM-002"})
<1>1. Shows("unusual_cipher_negotiation", Medium, {"ANOM-002"}, {"ANOM-002"})
  <2>1. Raising(ChaCha12, "RSA", {"ANOM-002"})
    BY ChaCha12Raises
  <2>2. /\ CATALOG["unusual_cipher_negotiation"].risk = Medium
        /\ CATALOG["unusual_cipher_negotiation"].expected = {"ANOM-002"}
        /\ CATALOG["unusual_cipher_negotiation"].features = ChaCha12
    BY Domains, Entries, EntryParts DEF UnusualTls
  <2>3. QED
    BY <2>1, <2>2 DEF Shows
<1>2. Shows("unexpected_tls_version", Medium, {"ANOM-003"}, {"TLS-001", "ANOM-003"})
  <2>1. Raising(Tls("TLS1.1", "TLS_ECDHE_RSA_WITH_AES_128_CBC_SHA", "AES-CBC",
          "SHA1-RSA"), "RSA", {"TLS-001", "ANOM-003"})
    BY OldTlsRaises
  <2>2. /\ CATALOG["unexpected_tls_version"].risk = Medium
        /\ CATALOG["unexpected_tls_version"].expected = {"ANOM-003"}
        /\ CATALOG["unexpected_tls_version"].features = Tls("TLS1.1",
              "TLS_ECDHE_RSA_WITH_AES_128_CBC_SHA", "AES-CBC", "SHA1-RSA")
    BY Domains, Entries, EntryParts DEF UnusualTls
  <2>3. QED
    BY <2>1, <2>2 DEF Shows
<1>3. Shows("uncommon_chacha20_negotiation", Medium, {"ANOM-002"}, {"ANOM-002"})
  <2>1. Raising(ChaCha13, "RSA", {"ANOM-002"})
    BY ChaCha13Raises
  <2>2. /\ CATALOG["uncommon_chacha20_negotiation"].risk = Medium
        /\ CATALOG["uncommon_chacha20_negotiation"].expected = {"ANOM-002"}
        /\ CATALOG["uncommon_chacha20_negotiation"].features = ChaCha13
    BY Domains, Entries, EntryParts DEF UnusualTls
  <2>3. QED
    BY <2>1, <2>2 DEF Shows
<1>4. Shows("uncommon_chacha20_ecdsa", Medium, {"ANOM-002"}, {"ANOM-002"})
  <2>1. Raising(ChaCha13, "RSA", {"ANOM-002"})
    BY ChaCha13Raises
  <2>2. {"ANOM-002"} \ {"CERT-002"} = {"ANOM-002"}
    OBVIOUS
  <2>3. Raising(Ecdsa(ChaCha13), "ECDSA", {"ANOM-002"})
    BY <2>1, <2>2, EcdsaRaises
  <2>4. /\ CATALOG["uncommon_chacha20_ecdsa"].risk = Medium
        /\ CATALOG["uncommon_chacha20_ecdsa"].expected = {"ANOM-002"}
        /\ CATALOG["uncommon_chacha20_ecdsa"].features = Ecdsa(ChaCha13)
    BY Domains, Entries, EntryParts DEF UnusualTls
  <2>5. QED
    BY <2>3, <2>4 DEF Shows
<1>5. Shows("unusual_chacha20_rsa4096", Medium, {"ANOM-002"}, {"ANOM-002"})
  <2>1. Raising(ChaCha12, "RSA", {"ANOM-002"})
    BY ChaCha12Raises
  <2>2. {"ANOM-002"} \ {"CERT-002"} = {"ANOM-002"}
    OBVIOUS
  <2>3. Raising(Rsa(ChaCha12, 4096), "RSA", {"ANOM-002"})
    BY <2>1, <2>2, LongKeyRaises
  <2>4. /\ CATALOG["unusual_chacha20_rsa4096"].risk = Medium
        /\ CATALOG["unusual_chacha20_rsa4096"].expected = {"ANOM-002"}
        /\ CATALOG["unusual_chacha20_rsa4096"].features = Rsa(ChaCha12, 4096)
    BY Domains, Entries, EntryParts DEF UnusualTls
  <2>5. QED
    BY <2>3, <2>4 DEF Shows
<1>6. QED
  BY <1>1, <1>2, <1>3, <1>4, <1>5

LEMMA ExpiringCertificatesShow ==
  /\ Shows("certificate_expiry_advisory", Low, {}, {})
  /\ Shows("certificate_expiry_warning", Low, {}, {})
  /\ Shows("certificate_expires_soon", Low, {}, {})
<1>1. Shows("certificate_expiry_advisory", Low, {}, {})
  <2>1. Raising(Ok, "RSA", {})
    BY OkRaises
  <2>2. Raising([Ok EXCEPT !.cert_expires_in_days = {75}], "RSA", {})
    BY <2>1, ExpiringRaises
  <2>3. /\ CATALOG["certificate_expiry_advisory"].risk = Low
        /\ CATALOG["certificate_expiry_advisory"].expected = {}
        /\ CATALOG["certificate_expiry_advisory"].features = [Ok EXCEPT
              !.cert_expires_in_days = {75}]
    BY Domains, Entries, EntryParts DEF ExpiringCertificates, Expiring
  <2>4. QED
    BY <2>2, <2>3 DEF Shows
<1>2. Shows("certificate_expiry_warning", Low, {}, {})
  <2>1. Raising(Ok, "RSA", {})
    BY OkRaises
  <2>2. Raising([Ok EXCEPT !.cert_expires_in_days = {45}], "RSA", {})
    BY <2>1, ExpiringRaises
  <2>3. /\ CATALOG["certificate_expiry_warning"].risk = Low
        /\ CATALOG["certificate_expiry_warning"].expected = {}
        /\ CATALOG["certificate_expiry_warning"].features = [Ok EXCEPT
              !.cert_expires_in_days = {45}]
    BY Domains, Entries, EntryParts DEF ExpiringCertificates, Expiring
  <2>4. QED
    BY <2>2, <2>3 DEF Shows
<1>3. Shows("certificate_expires_soon", Low, {}, {})
  <2>1. Raising(Ok, "RSA", {})
    BY OkRaises
  <2>2. Raising([Ok EXCEPT !.cert_expires_in_days = {14}], "RSA", {})
    BY <2>1, ExpiringRaises
  <2>3. /\ CATALOG["certificate_expires_soon"].risk = Low
        /\ CATALOG["certificate_expires_soon"].expected = {}
        /\ CATALOG["certificate_expires_soon"].features = [Ok EXCEPT
              !.cert_expires_in_days = {14}]
    BY Domains, Entries, EntryParts DEF ExpiringCertificates, Expiring
  <2>4. QED
    BY <2>2, <2>3 DEF Shows
<1>4. QED
  BY <1>1, <1>2, <1>3

LEMMA CombinedWeaknessesShow ==
  /\ Shows("combined_critical_weaknesses", Critical, {"TLS-001", "TLS-002",
        "CERT-001"}, {"TLS-001", "TLS-002", "FS-001", "CERT-001", "CERT-002"})
  /\ Shows("expired_hostname_mismatch", High, {"CERT-001", "CERT-004"}, {"CERT-001",
        "CERT-004"})
  /\ Shows("weak_rsa_no_forward_secrecy", High, {"CERT-002", "FS-001"}, {"FS-001",
        "CERT-002"})
  /\ Shows("expired_invalid_chain", High, {"CERT-001", "CERT-003"}, {"CERT-001",
        "CERT-003"})
<1>1. Shows("combined_critical_weaknesses", Critical, {"TLS-001", "TLS-002",
        "CERT-001"}, {"TLS-001", "TLS-002", "FS-001", "CERT-001", "CERT-002"})
  <2>1. Raising(Tls("TLS1.0", "TLS_RSA_WITH_3DES_EDE_CBC_SHA", "3DES", "SHA1-RSA"),
          "RSA", {"TLS-001", "TLS-002"})
    BY OldTlsRaises
  <2>2. {"TLS-001", "TLS-002"} \cup {"FS-001"} = {"TLS-001", "TLS-002", "FS-001"}
    OBVIOUS
  <2>3. Raising(NoSecrecy(Tls("TLS1.0", "TLS_RSA_WITH_3DES_EDE_CBC_SHA", "3DES",
          "SHA1-RSA")), "RSA", {"TLS-001", "TLS-002", "FS-001"})
    BY <2>1, <2>2, NoSecrecyRaises
  <2>4. {"TLS-001", "TLS-002", "FS-001"} \cup {"CERT-001"} = {"TLS-001", "TLS-002",
          "FS-001", "CERT-001"}
    OBVIOUS
  <2>5. Raising(Expired(NoSecrecy(Tls("TLS1.0", "TLS_RSA_WITH_3DES_EDE_CBC_SHA",
          "3DES", "SHA1-RSA")), -30), "RSA", {"TLS-001", "TLS-002", "FS-001",
          "CERT-001"})
    BY <2>3, <2>4, ExpiredRaises
  <2>6. {"TLS-001", "TLS-002", "FS-001", "CERT-001"} \cup {"CERT-002"} = {"TLS-001",
          "TLS-002", "FS-001", "CERT-001", "CERT-002"}
    OBVIOUS
  <2>7. Raising(Rsa(Expired(NoSecrecy(Tls("TLS1.0", "TLS_RSA_WITH_3DES_EDE_CBC_SHA",
          "3DES", "SHA1-RSA")), -30), 1024), "RSA", {"TLS-001", "TLS-002", "FS-001",
          "CERT-001", "CERT-002"})
    BY <2>5, <2>6, ShortKeyRaises
  <2>8. /\ CATALOG["combined_critical_weaknesses"].risk = Critical
        /\ CATALOG["combined_critical_weaknesses"].expected = {"TLS-001", "TLS-002",
          "CERT-001"}
        /\ CATALOG["combined_critical_weaknesses"].features = Rsa(Expired(NoSecrecy(Tls("TLS1.0", "TLS_RSA_WITH_3DES_EDE_CBC_SHA", "3DES", "SHA1-RSA")), -30), 1024)
    BY Domains, Entries, EntryParts DEF CombinedWeaknesses
  <2>9. QED
    BY <2>7, <2>8 DEF Shows
<1>2. Shows("expired_hostname_mismatch", High, {"CERT-001", "CERT-004"}, {"CERT-001",
        "CERT-004"})
  <2>1. Raising(Ok, "RSA", {})
    BY OkRaises
  <2>2. {} \cup {"CERT-001"} = {"CERT-001"}
    OBVIOUS
  <2>3. Raising(Expired(Ok, -9), "RSA", {"CERT-001"})
    BY <2>1, <2>2, ExpiredRaises
  <2>4. {"CERT-001"} \cup {"CERT-004"} = {"CERT-001", "CERT-004"}
    OBVIOUS
  <2>5. Raising(Mismatch(Expired(Ok, -9)), "RSA", {"CERT-001", "CERT-004"})
    BY <2>3, <2>4, MismatchRaises
  <2>6. /\ CATALOG["expired_hostname_mismatch"].risk = High
        /\ CATALOG["expired_hostname_mismatch"].expected = {"CERT-001", "CERT-004"}
        /\ CATALOG["expired_hostname_mismatch"].features = Mismatch(Expired(Ok, -9))
    BY Domains, Entries, EntryParts DEF CombinedWeaknesses
  <2>7. QED
    BY <2>5, <2>6 DEF Shows
<1>3. Shows("weak_rsa_no_forward_secrecy", High, {"CERT-002", "FS-001"}, {"FS-001",
        "CERT-002"})
  <2>1. Raising(Tls12, "RSA", {})
    BY Tls12Raises
  <2>2. Raising([Tls12 EXCEPT !.cipher_suite = {"TLS_RSA_WITH_AES_128_GCM_SHA256"}],
          "RSA", {})
    BY <2>1, SuiteRaises
  <2>3. {} \cup {"FS-001"} = {"FS-001"}
    OBVIOUS
  <2>4. Raising(NoSecrecy([Tls12 EXCEPT
          !.cipher_suite = {"TLS_RSA_WITH_AES_128_GCM_SHA256"}]), "RSA", {"FS-001"})
    BY <2>2, <2>3, NoSecrecyRaises
  <2>5. {"FS-001"} \cup {"CERT-002"} = {"FS-001", "CERT-002"}
    OBVIOUS
  <2>6. Raising(Rsa(NoSecrecy([Tls12 EXCEPT
          !.cipher_suite = {"TLS_RSA_WITH_AES_128_GCM_SHA256"}]), 1024), "RSA",
          {"FS-001", "CERT-002"})
    BY <2>4, <2>5, ShortKeyRaises
  <2>7. /\ CATALOG["weak_rsa_no_forward_secrecy"].risk = High
        /\ CATALOG["weak_rsa_no_forward_secrecy"].expected = {"CERT-002", "FS-001"}
        /\ CATALOG["weak_rsa_no_forward_secrecy"].features = Rsa(NoSecrecy([Tls12 EXCEPT !.cipher_suite = {"TLS_RSA_WITH_AES_128_GCM_SHA256"}]), 1024)
    BY Domains, Entries, EntryParts DEF CombinedWeaknesses
  <2>8. QED
    BY <2>6, <2>7 DEF Shows
<1>4. Shows("expired_invalid_chain", High, {"CERT-001", "CERT-003"}, {"CERT-001",
        "CERT-003"})
  <2>1. Raising(Ok, "RSA", {})
    BY OkRaises
  <2>2. {} \cup {"CERT-001"} = {"CERT-001"}
    OBVIOUS
  <2>3. Raising(Expired(Ok, -21), "RSA", {"CERT-001"})
    BY <2>1, <2>2, ExpiredRaises
  <2>4. ({"CERT-001"} \cup {"CERT-003"}) \ {"CRIT-001"} = {"CERT-001", "CERT-003"}
    OBVIOUS
  <2>5. Expired(Ok, -21).handshake_failures = 0
    BY DEF Ok, Tls12, Tls, Expired
  <2>6. Raising(BadChain(Expired(Ok, -21)), "RSA", {"CERT-001", "CERT-003"})
    BY <2>3, <2>4, <2>5, BadChainRaises
  <2>7. /\ CATALOG["expired_invalid_chain"].risk = High
        /\ CATALOG["expired_invalid_chain"].expected = {"CERT-001", "CERT-003"}
        /\ CATALOG["expired_invalid_chain"].features = BadChain(Expired(Ok, -21))
    BY Domains, Entries, EntryParts DEF CombinedWeaknesses
  <2>8. QED
    BY <2>6, <2>7 DEF Shows
<1>5. QED
  BY <1>1, <1>2, <1>3, <1>4

(***************************************************************************)
(* Every record the generator may build passes the validators, and the     *)
(* counters it draws change only the rules that read them.                 *)
(***************************************************************************)
LEMMA NegotiatedIsValid ==
  ASSUME NEW f, Negotiated(f)
  PROVE  ValidateTlsFields(f) /\ ValidateCertificateFields(f)
BY DEF Negotiated, ValidateTlsFields, ValidateCertificateFields

(* A record that a scenario's records may be, and what its rules find.     *)
Finds(f, found) ==
  /\ DOMAIN f = Features
  /\ ValidateTlsFields(f) /\ ValidateCertificateFields(f)
  /\ ExtractRuleFindings(f) = found

LEMMA RaisingFinds ==
  ASSUME NEW f, NEW key, NEW found, Raising(f, key, found)
  PROVE  Finds(f, found)
BY NegotiatedIsValid DEF Raising, Finds, Negotiated

LEMMA UnusedFinds == Finds([Failed(0) EXCEPT !.starttls_used = FALSE], {"STLS-001"})
<1> DEFINE f == Failed(0)
           g == [f EXCEPT !.starttls_used = FALSE]
<1>1. DOMAIN f = Features /\ ValidateTlsFields(f) /\ ValidateCertificateFields(f)
        /\ ExtractRuleFindings(f) = {}
  BY FailedRaises
<1>2. f.handshake_success = FALSE /\ f.starttls_advertised = TRUE
        /\ f.handshake_failures = 0
  BY DEF Failed, NoTls
<1>3. HIDE DEF f
<1>4. Differs(g, f, {"starttls_used"})
  BY <1>1 DEF Differs
<1>5. g.starttls_used = FALSE
  BY <1>1 DEF Features
<1>6. HIDE DEF g
<1>7. g.starttls_advertised = TRUE /\ g.handshake_success = FALSE
        /\ g.cert_present = f.cert_present /\ g.cert_expired = f.cert_expired
        /\ g.cert_valid = f.cert_valid
  BY <1>2, <1>4 DEF Differs, Features, TlsFields, CertificateMetadata
<1>8. ValidateTlsFields(g)
  BY <1>1, <1>2, <1>4, <1>7 DEF ValidateTlsFields, Differs, Features, TlsFields
<1>9. ValidateCertificateFields(g)
  <2>1. \A field \in CertificateMetadata : g[field] = f[field]
    BY <1>4 DEF Differs, Features, CertificateMetadata
  <2>2. QED
    BY <1>1, <1>7, <2>1 DEF ValidateCertificateFields
<1>10. Stls001(g) /\ ~Stls002(g)
  BY <1>5, <1>7 DEF Stls001, Stls002
<1>11. \A id \in FindingIds \ {"STLS-001", "STLS-002"} : Raises(id, g) <=> Raises(id, f)
  BY <1>4, OthersRaised, FieldsTold DEF FindingIds
<1>12. ExtractRuleFindings(g) = {"STLS-001"}
  BY <1>1, <1>10, <1>11, Atoms2 DEF ExtractRuleFindings, FindingIds
<1>13. QED
  BY <1>4, <1>8, <1>9, <1>12 DEF Finds, Differs, g, f

LEMMA FailedAgain ==
  ASSUME NEW n, NEW m
  PROVE  [Failed(n) EXCEPT !.handshake_failures = m] = Failed(m)
BY DEF Failed

(* The catalogue's four scenarios whose counters are drawn.                *)
LEMMA CountersShow ==
  /\ \A f \in BuildFeatures("starttls_handshake_failure") :
       ExtractRuleFindings(f) \in {{"STLS-002"}, {"STLS-002", "ANOM-001"}}
         /\ Finds(f, ExtractRuleFindings(f))
  /\ \A f \in BuildFeatures("repeated_handshake_failures") :
       Finds(f, {"STLS-002", "ANOM-001"})
  /\ \A f \in BuildFeatures("invalid_chain_repeated_failures") :
       Finds(f, {"CERT-003", "CRIT-001", "ANOM-001"})
  /\ \A f \in BuildFeatures("multiple_renegotiations") : Finds(f, {"ANOM-004"})
<1>1. ASSUME NEW f \in BuildFeatures("starttls_handshake_failure")
      PROVE  ExtractRuleFindings(f) \in {{"STLS-002"}, {"STLS-002", "ANOM-001"}}
               /\ Finds(f, ExtractRuleFindings(f))
  <2>1. CATALOG["starttls_handshake_failure"].features = Failed(1)
    BY Domains, Entries, EntryParts DEF FailedHandshakes
  <2>2. PICK n \in 1..3 : f = Failed(n)
    BY <2>1, FailedAgain DEF BuildFeatures
  <2>3. n \in Nat /\ n > 0
    OBVIOUS
  <2>4. QED
    BY <2>2, <2>3, FailedRaises DEF Finds
<1>2. ASSUME NEW f \in BuildFeatures("repeated_handshake_failures")
      PROVE  Finds(f, {"STLS-002", "ANOM-001"})
  <2>1. CATALOG["repeated_handshake_failures"].features = Failed(4)
    BY Domains, Entries, EntryParts DEF FailedHandshakes
  <2>2. PICK n \in 3..8 : f = Failed(n)
    BY <2>1, FailedAgain DEF BuildFeatures
  <2>3. n \in Nat /\ n > 0 /\ n >= 3
    OBVIOUS
  <2>4. ExtractRuleFindings(f) = {"STLS-002"} \cup {"ANOM-001"}
    BY <2>2, <2>3, FailedRaises
  <2>5. QED
    BY <2>2, <2>3, <2>4, FailedRaises DEF Finds
<1>3. ASSUME NEW f \in BuildFeatures("invalid_chain_repeated_failures")
      PROVE  Finds(f, {"CERT-003", "CRIT-001", "ANOM-001"})
  <2> DEFINE chain == BadChain(Ok)
             Three(n) == [chain EXCEPT !.handshake_failures = n]
             found == {"CERT-003", "CRIT-001", "ANOM-001"}
  <2>1. CATALOG["invalid_chain_repeated_failures"].features = Three(3)
    BY Domains, Entries, EntryParts DEF WeakTls
  <2>2. PICK n \in 3..8 : f = [Three(3) EXCEPT !.handshake_failures = n]
    BY <2>1 DEF BuildFeatures
  <2>3. Ok.handshake_failures = 0
    BY DEF Ok
  <2>4. Raising(chain, "RSA", ({} \cup {"CERT-003"}) \ {"CRIT-001"})
    BY <2>3, OkRaises, BadChainRaises
  <2>5. ({} \cup {"CERT-003"}) \ {"CRIT-001"} = {"CERT-003"}
    OBVIOUS
  <2>6. Raising(chain, "RSA", {"CERT-003"})
    BY <2>4, <2>5
  <2>7. n \in Nat /\ n >= 3
    OBVIOUS
  <2>8. f = Three(n)
    BY <2>2
  <2>9. ({"CERT-003"} \cup {"CRIT-001", "ANOM-001"}) \ {"STLS-002"} = found
    OBVIOUS
  <2>10. HIDE DEF chain
  <2>11. Raising(Three(n), "RSA", found)
    BY <2>6, <2>7, <2>9, FailuresRaise
  <2>12. QED
    BY <2>8, <2>11, RaisingFinds
<1>4. ASSUME NEW f \in BuildFeatures("multiple_renegotiations")
      PROVE  Finds(f, {"ANOM-004"})
  <2> DEFINE Renegotiated(n) == [Tls12 EXCEPT !.renegotiation_count = n]
  <2>1. CATALOG["multiple_renegotiations"].features = Renegotiated(3)
    BY Domains, Entries, EntryParts DEF UnusualTls
  <2>2. PICK n \in 2..6 : f = [Renegotiated(3) EXCEPT !.renegotiation_count = n]
    BY <2>1 DEF BuildFeatures
  <2>3. f = Renegotiated(n)
    BY <2>2
  <2>4. n \in Nat /\ n >= 2 /\ {} \cup {"ANOM-004"} = {"ANOM-004"}
    OBVIOUS
  <2>5. Raising(Renegotiated(n), "RSA", {"ANOM-004"})
    BY <2>4, Tls12Raises, RenegotiationsRaise
  <2>6. QED
    BY <2>3, <2>5, RaisingFinds
<1>5. QED
  BY <1>1, <1>2, <1>3, <1>4

(***************************************************************************)
(* What a label and a bucket promise, and that the findings keep it.       *)
(***************************************************************************)
(* What the label and the bucket of scenario id promise of the findings.   *)
Promised(id, found) ==
  /\ CATALOG[id].expected \subseteq found
  /\ IF HighestRuleSeverity(found) = {} THEN CATALOG[id].risk <= Low
     ELSE CATALOG[id].risk \in HighestRuleSeverity(found) \/ id = "unexpected_tls_version"
  /\ Bucket(id) = "normal" => found = {}
  /\ Bucket(id) = "combined" => Cardinality(found) >= 2
  /\ Bucket(id) = "behavioral_anomaly" =>
       found \cap {"ANOM-001", "ANOM-002", "ANOM-003", "ANOM-004"} # {}

LEMMA FloorOf ==
  ASSUME NEW found \in SUBSET FindingIds, NEW id \in found,
         \A other \in found : Severity(other) <= Severity(id)
  PROVE  HighestRuleSeverity(found) = {Severity(id)}
<1>1. Severity(id) \in RISK_SEVERITY_ORDER
  BY Severities DEF RISK_SEVERITY_ORDER, Informational, Medium, High, Critical
<1>2. Severity(id) \in HighestRuleSeverity(found)
  BY <1>1 DEF HighestRuleSeverity
<1>3. QED
  BY <1>2, FloorIsHighest

LEMMA SeverityTold ==
  /\ \A id \in {"TLS-001", "TLS-002", "CRIT-001"} : Severity(id) = 4
  /\ \A id \in {"ANOM-002", "ANOM-003"} : Severity(id) = 2
  /\ \A id \in {"FS-001", "CERT-001", "CERT-002", "CERT-003", "CERT-004", "STLS-001",
                "STLS-002", "ANOM-001", "ANOM-004"} : Severity(id) = 3
BY DEF Severity, Critical, Medium, High

(* The highest severity of findings that are all given.                    *)
LEMMA FloorsTold ==
  ASSUME NEW found \in SUBSET FindingIds
  PROVE  /\ found = {} => HighestRuleSeverity(found) = {}
         /\ found \cap {"TLS-001", "TLS-002", "CRIT-001"} # {} =>
              HighestRuleSeverity(found) = {Critical}
         /\ found \cap {"TLS-001", "TLS-002", "CRIT-001"} = {}
              /\ found \ {"ANOM-002", "ANOM-003"} # {} =>
              HighestRuleSeverity(found) = {High}
         /\ found \subseteq {"ANOM-002", "ANOM-003"} /\ found # {} =>
              HighestRuleSeverity(found) = {Medium}
<1>0. FindingIds = {"TLS-001", "TLS-002", "CRIT-001"} \cup {"ANOM-002", "ANOM-003"}
        \cup {"FS-001", "CERT-001", "CERT-002", "CERT-003", "CERT-004", "STLS-001",
              "STLS-002", "ANOM-001", "ANOM-004"}
  BY DEF FindingIds
<1>1. found = {} => HighestRuleSeverity(found) = {}
  BY FloorIsHighest
<1>2. \A id \in found : Severity(id) \in 2..4
  BY Severities DEF Medium, High, Critical
<1>3. ASSUME found \cap {"TLS-001", "TLS-002", "CRIT-001"} # {}
      PROVE  HighestRuleSeverity(found) = {Critical}
  <2>1. PICK id \in found : id \in {"TLS-001", "TLS-002", "CRIT-001"}
    BY <1>3
  <2>2. Severity(id) = 4 /\ \A other \in found : Severity(other) <= Severity(id)
    BY <2>1, <1>2, SeverityTold
  <2>3. QED
    BY <2>2, FloorOf DEF Critical
<1>4. ASSUME found \cap {"TLS-001", "TLS-002", "CRIT-001"} = {},
             found \ {"ANOM-002", "ANOM-003"} # {}
      PROVE  HighestRuleSeverity(found) = {High}
  <2>1. PICK id \in found : id \notin {"ANOM-002", "ANOM-003"}
    BY <1>4
  <2>2. Severity(id) = 3
    BY <2>1, <1>4, <1>0, SeverityTold
  <2>3. \A other \in found : Severity(other) <= 3
    BY <1>4, <1>0, SeverityTold
  <2>4. QED
    BY <2>2, <2>3, FloorOf DEF High
<1>5. ASSUME found \subseteq {"ANOM-002", "ANOM-003"}, found # {}
      PROVE  HighestRuleSeverity(found) = {Medium}
  <2>1. PICK id \in found : TRUE
    BY <1>5
  <2>2. Severity(id) = 2 /\ \A other \in found : Severity(other) <= 2
    BY <2>1, <1>5, SeverityTold
  <2>3. QED
    BY <2>2, FloorOf DEF Medium
<1>6. QED
  BY <1>1, <1>3, <1>4, <1>5

Counted == {"repeated_handshake_failures", "invalid_chain_repeated_failures",
            "starttls_handshake_failure", "multiple_renegotiations"}

(* Every record of scenario id passes its validators and its rules find    *)
(* what the scenario promises.                                             *)
Sound(id) ==
  \A f \in BuildFeatures(id) :
    /\ Finds(f, ExtractRuleFindings(f))
    /\ Promised(id, ExtractRuleFindings(f))

LEMMA FindsThem ==
  ASSUME NEW f, NEW found, Finds(f, found)
  PROVE  ExtractRuleFindings(f) = found
BY DEF Finds

LEMMA ShownIsSound ==
  ASSUME NEW id, id \notin Counted, NEW risk, NEW expected, NEW found,
         Shows(id, risk, expected, found), Promised(id, found)
  PROVE  Sound(id)
<1>1. BuildFeatures(id) = {CATALOG[id].features}
  BY DEF BuildFeatures, Counted
<1>2. Finds(CATALOG[id].features, found)
  BY RaisingFinds DEF Shows
<1>3. ExtractRuleFindings(CATALOG[id].features) = found
  BY <1>2, FindsThem
<1>4. QED
  BY <1>1, <1>2, <1>3 DEF Sound

LEMMA Buckets ==
  /\ \A id \in DOMAIN NormalTls \cup DOMAIN NormalKeys : Bucket(id) = "normal"
  /\ \A id \in DOMAIN UnusualTls \cup {"repeated_handshake_failures"} :
       Bucket(id) = "behavioral_anomaly"
  /\ \A id \in DOMAIN CombinedWeaknesses \cup {"invalid_chain_repeated_failures"} :
       Bucket(id) = "combined"
  /\ \A id \in {"deprecated_tls", "weak_cipher", "rsa_no_forward_secrecy",
                "starttls_advertised_unused", "starttls_handshake_failure"}
         \cup DOMAIN ExpiredCertificates \cup DOMAIN BadCertificates
         \cup DOMAIN ExpiringCertificates : Bucket(id) = "single_weakness"
BY Domains DEF Bucket

LEMMA FindingsFinite == IsFiniteSet(FindingIds)
<1>1. ASSUME NEW S, IsFiniteSet(S), NEW a, NEW b, NEW c, NEW d, NEW e
      PROVE  IsFiniteSet(S \cup {a, b, c, d, e})
  <2>1. IsFiniteSet({a}) /\ IsFiniteSet({b}) /\ IsFiniteSet({c}) /\ IsFiniteSet({d})
          /\ IsFiniteSet({e})
    BY FS_Singleton
  <2>2. IsFiniteSet({a} \cup {b}) /\ IsFiniteSet({c} \cup {d})
    BY <2>1, FS_Union
  <2>3. IsFiniteSet(({a} \cup {b}) \cup ({c} \cup {d}))
    BY <2>2, FS_Union
  <2>4. IsFiniteSet((({a} \cup {b}) \cup ({c} \cup {d})) \cup {e})
    BY <2>1, <2>3, FS_Union
  <2>5. {a, b, c, d, e} = (({a} \cup {b}) \cup ({c} \cup {d})) \cup {e}
    OBVIOUS
  <2>6. QED
    BY <1>1, <2>4, <2>5, FS_Union
<1> DEFINE A == {} \cup {"TLS-001", "TLS-002", "FS-001", "CERT-001", "CERT-002"}
           B == A \cup {"CERT-003", "CERT-004", "CRIT-001", "STLS-001", "STLS-002"}
           C == B \cup {"ANOM-001", "ANOM-002", "ANOM-003", "ANOM-004", "ANOM-004"}
<1>2. FindingIds = C
  BY DEF FindingIds
<1>3. IsFiniteSet(A)
  BY <1>1, FS_EmptySet
<1>4. IsFiniteSet(B)
  <2> HIDE DEF A
  <2>1. QED
    BY <1>1, <1>3
<1>5. IsFiniteSet(C)
  <2> HIDE DEF B
  <2>1. QED
    BY <1>1, <1>4
<1>6. QED
  BY <1>2, <1>5

LEMMA NoPromiseBroken ==
  ASSUME NEW id, NEW found \in SUBSET FindingIds, CATALOG[id].expected \subseteq found,
         \/ found = {} /\ CATALOG[id].risk \in {Informational, Low}
         \/ found \cap {"TLS-001", "TLS-002", "CRIT-001"} # {}
              /\ (CATALOG[id].risk = Critical \/ id = "unexpected_tls_version")
         \/ found \cap {"TLS-001", "TLS-002", "CRIT-001"} = {}
              /\ found \ {"ANOM-002", "ANOM-003"} # {} /\ CATALOG[id].risk = High
         \/ found \subseteq {"ANOM-002", "ANOM-003"} /\ found # {}
              /\ CATALOG[id].risk = Medium,
         \/ Bucket(id) = "normal" /\ found = {}
         \/ Bucket(id) = "combined" /\ \E a, b \in found : a # b
         \/ Bucket(id) = "behavioral_anomaly"
              /\ found \cap {"ANOM-001", "ANOM-002", "ANOM-003", "ANOM-004"} # {}
         \/ Bucket(id) = "single_weakness"
  PROVE  Promised(id, found)
<1>1. IF HighestRuleSeverity(found) = {} THEN CATALOG[id].risk <= Low
      ELSE CATALOG[id].risk \in HighestRuleSeverity(found) \/ id = "unexpected_tls_version"
  BY FloorsTold DEF Informational, Low
<1>2. Bucket(id) = "combined" => Cardinality(found) >= 2
  <2> SUFFICES ASSUME Bucket(id) = "combined" PROVE Cardinality(found) >= 2
    OBVIOUS
  <2>1. PICK a, b \in found : a # b
    OBVIOUS
  <2>2. IsFiniteSet(found)
    BY FindingsFinite, FS_Subset
  <2>3. {a, b} = {a} \cup {b} /\ b \notin {a}
    BY <2>1
  <2>4. IsFiniteSet({a}) /\ Cardinality({a}) = 1
    BY FS_Singleton
  <2>5. Cardinality({a, b}) = 2
    <3>1. Cardinality({a} \cup {b}) = Cardinality({a}) + 1
      BY <2>3, <2>4, FS_AddElement
    <3>2. QED
      BY <2>3, <2>4, <3>1
  <2>6. {a, b} \subseteq found
    OBVIOUS
  <2>7. Cardinality({a, b}) <= Cardinality(found) /\ Cardinality(found) \in Nat
    BY <2>2, <2>6, FS_Subset, FS_CardinalityType
  <2>8. QED
    BY <2>5, <2>7
<1>3. QED
  BY <1>1, <1>2 DEF Promised

LEMMA ExpectedShown ==
  ASSUME NEW id, NEW risk, NEW expected, NEW found, Shows(id, risk, expected, found)
  PROVE  CATALOG[id].risk = risk /\ CATALOG[id].expected = expected
           /\ found \subseteq FindingIds
<1>1. PICK key : Raising(CATALOG[id].features, key, found)
  BY DEF Shows
<1>2. found \subseteq FindingIds
  BY <1>1 DEF Raising, ExtractRuleFindings
<1>3. QED
  BY <1>2 DEF Shows

LEMMA NormalTlsSound == \A id \in DOMAIN NormalTls : Sound(id)
<1> SUFFICES ASSUME NEW id \in DOMAIN NormalTls PROVE Sound(id)
  OBVIOUS
<1>1. Shows(id, Informational, {}, {}) /\ id \notin Counted
  BY Domains, NormalTlsShow DEF Counted
<1>2. CATALOG[id].risk = Informational /\ CATALOG[id].expected = {}
        /\ {} \subseteq FindingIds
  BY <1>1, ExpectedShown
<1>3. Promised(id, {})
  BY <1>2, Buckets, NoPromiseBroken
<1>4. QED
  BY <1>1, <1>3, ShownIsSound

LEMMA NormalKeysSound == \A id \in DOMAIN NormalKeys : Sound(id)
<1> SUFFICES ASSUME NEW id \in DOMAIN NormalKeys PROVE Sound(id)
  OBVIOUS
<1>1. Shows(id, Informational, {}, {}) /\ id \notin Counted
  BY Domains, NormalKeysShow DEF Counted
<1>2. CATALOG[id].risk = Informational /\ CATALOG[id].expected = {}
        /\ {} \subseteq FindingIds
  BY <1>1, ExpectedShown
<1>3. Promised(id, {})
  BY <1>2, Buckets, NoPromiseBroken
<1>4. QED
  BY <1>1, <1>3, ShownIsSound

LEMMA ExpiringCertificatesSound == \A id \in DOMAIN ExpiringCertificates : Sound(id)
<1> SUFFICES ASSUME NEW id \in DOMAIN ExpiringCertificates PROVE Sound(id)
  OBVIOUS
<1>1. Shows(id, Low, {}, {}) /\ id \notin Counted
  BY Domains, ExpiringCertificatesShow DEF Counted
<1>2. CATALOG[id].risk = Low /\ CATALOG[id].expected = {}
        /\ {} \subseteq FindingIds
  BY <1>1, ExpectedShown
<1>3. Promised(id, {})
  BY <1>2, Buckets, NoPromiseBroken
<1>4. QED
  BY <1>1, <1>3, ShownIsSound

LEMMA WeakTlsSound ==
  \A id \in {"deprecated_tls", "weak_cipher", "rsa_no_forward_secrecy"} : Sound(id)
<1>1. Sound("deprecated_tls")
  <2> DEFINE id == "deprecated_tls"
             found == {"TLS-001", "FS-001"}
  <2>1. Shows(id, Critical, {"TLS-001", "FS-001"}, found) /\ id \notin Counted
    BY WeakTlsShow DEF Counted
  <2>2. /\ CATALOG[id].risk = Critical
        /\ CATALOG[id].expected = {"TLS-001", "FS-001"}
          /\ found \subseteq FindingIds
    BY <2>1, ExpectedShown
  <2>3. Promised(id, found)
    BY <2>2, Domains, Buckets, NoPromiseBroken
  <2>4. QED
    BY <2>1, <2>3, ShownIsSound
<1>2. Sound("weak_cipher")
  <2> DEFINE id == "weak_cipher"
             found == {"TLS-002", "FS-001"}
  <2>1. Shows(id, Critical, {"TLS-002", "FS-001"}, found) /\ id \notin Counted
    BY WeakTlsShow DEF Counted
  <2>2. /\ CATALOG[id].risk = Critical
        /\ CATALOG[id].expected = {"TLS-002", "FS-001"}
          /\ found \subseteq FindingIds
    BY <2>1, ExpectedShown
  <2>3. Promised(id, found)
    BY <2>2, Domains, Buckets, NoPromiseBroken
  <2>4. QED
    BY <2>1, <2>3, ShownIsSound
<1>3. Sound("rsa_no_forward_secrecy")
  <2> DEFINE id == "rsa_no_forward_secrecy"
             found == {"FS-001"}
  <2>1. Shows(id, High, {"FS-001"}, found) /\ id \notin Counted
    BY WeakTlsShow DEF Counted
  <2>2. /\ CATALOG[id].risk = High
        /\ CATALOG[id].expected = {"FS-001"}
          /\ found \subseteq FindingIds
    BY <2>1, ExpectedShown
  <2>3. Promised(id, found)
    BY <2>2, Domains, Buckets, NoPromiseBroken
  <2>4. QED
    BY <2>1, <2>3, ShownIsSound
<1>4. QED
  BY <1>1, <1>2, <1>3

LEMMA ExpiredCertificatesSound == \A id \in DOMAIN ExpiredCertificates : Sound(id)
<1> SUFFICES ASSUME NEW id \in DOMAIN ExpiredCertificates PROVE Sound(id)
  OBVIOUS
<1>1. Shows(id, High, {"CERT-001"}, {"CERT-001"}) /\ id \notin Counted
  BY Domains, ExpiredCertificatesShow DEF Counted
<1>2. CATALOG[id].risk = High /\ CATALOG[id].expected = {"CERT-001"}
        /\ {"CERT-001"} \subseteq FindingIds
  BY <1>1, ExpectedShown
<1>3. Promised(id, {"CERT-001"})
  BY <1>2, Buckets, NoPromiseBroken
<1>4. QED
  BY <1>1, <1>3, ShownIsSound

LEMMA BadCertificatesSound ==
  \A id \in {"invalid_certificate_chain", "invalid_certificate_chain_tls12",
        "hostname_mismatch", "hostname_mismatch_tls12", "weak_rsa_key",
        "weak_rsa_key_tls12"} : Sound(id)
<1>1. Sound("invalid_certificate_chain")
  <2> DEFINE id == "invalid_certificate_chain"
             found == {"CERT-003"}
  <2>1. Shows(id, High, {"CERT-003"}, found) /\ id \notin Counted
    BY BadCertificatesShow DEF Counted
  <2>2. /\ CATALOG[id].risk = High
        /\ CATALOG[id].expected = {"CERT-003"}
          /\ found \subseteq FindingIds
    BY <2>1, ExpectedShown
  <2>3. Promised(id, found)
    BY <2>2, Domains, Buckets, NoPromiseBroken
  <2>4. QED
    BY <2>1, <2>3, ShownIsSound
<1>2. Sound("invalid_certificate_chain_tls12")
  <2> DEFINE id == "invalid_certificate_chain_tls12"
             found == {"CERT-003"}
  <2>1. Shows(id, High, {"CERT-003"}, found) /\ id \notin Counted
    BY BadCertificatesShow DEF Counted
  <2>2. /\ CATALOG[id].risk = High
        /\ CATALOG[id].expected = {"CERT-003"}
          /\ found \subseteq FindingIds
    BY <2>1, ExpectedShown
  <2>3. Promised(id, found)
    BY <2>2, Domains, Buckets, NoPromiseBroken
  <2>4. QED
    BY <2>1, <2>3, ShownIsSound
<1>3. Sound("hostname_mismatch")
  <2> DEFINE id == "hostname_mismatch"
             found == {"CERT-004"}
  <2>1. Shows(id, High, {"CERT-004"}, found) /\ id \notin Counted
    BY BadCertificatesShow DEF Counted
  <2>2. /\ CATALOG[id].risk = High
        /\ CATALOG[id].expected = {"CERT-004"}
          /\ found \subseteq FindingIds
    BY <2>1, ExpectedShown
  <2>3. Promised(id, found)
    BY <2>2, Domains, Buckets, NoPromiseBroken
  <2>4. QED
    BY <2>1, <2>3, ShownIsSound
<1>4. Sound("hostname_mismatch_tls12")
  <2> DEFINE id == "hostname_mismatch_tls12"
             found == {"CERT-004"}
  <2>1. Shows(id, High, {"CERT-004"}, found) /\ id \notin Counted
    BY BadCertificatesShow DEF Counted
  <2>2. /\ CATALOG[id].risk = High
        /\ CATALOG[id].expected = {"CERT-004"}
          /\ found \subseteq FindingIds
    BY <2>1, ExpectedShown
  <2>3. Promised(id, found)
    BY <2>2, Domains, Buckets, NoPromiseBroken
  <2>4. QED
    BY <2>1, <2>3, ShownIsSound
<1>5. Sound("weak_rsa_key")
  <2> DEFINE id == "weak_rsa_key"
             found == {"CERT-002"}
  <2>1. Shows(id, High, {"CERT-002"}, found) /\ id \notin Counted
    BY BadCertificatesShow DEF Counted
  <2>2. /\ CATALOG[id].risk = High
        /\ CATALOG[id].expected = {"CERT-002"}
          /\ found \subseteq FindingIds
    BY <2>1, ExpectedShown
  <2>3. Promised(id, found)
    BY <2>2, Domains, Buckets, NoPromiseBroken
  <2>4. QED
    BY <2>1, <2>3, ShownIsSound
<1>6. Sound("weak_rsa_key_tls12")
  <2> DEFINE id == "weak_rsa_key_tls12"
             found == {"CERT-002"}
  <2>1. Shows(id, High, {"CERT-002"}, found) /\ id \notin Counted
    BY BadCertificatesShow DEF Counted
  <2>2. /\ CATALOG[id].risk = High
        /\ CATALOG[id].expected = {"CERT-002"}
          /\ found \subseteq FindingIds
    BY <2>1, ExpectedShown
  <2>3. Promised(id, found)
    BY <2>2, Domains, Buckets, NoPromiseBroken
  <2>4. QED
    BY <2>1, <2>3, ShownIsSound
<1>7. QED
  BY <1>1, <1>2, <1>3, <1>4, <1>5, <1>6

LEMMA UnusualTlsSound ==
  \A id \in {"unusual_cipher_negotiation", "unexpected_tls_version",
        "uncommon_chacha20_negotiation", "uncommon_chacha20_ecdsa",
        "unusual_chacha20_rsa4096"} : Sound(id)
<1>1. Sound("unusual_cipher_negotiation")
  <2> DEFINE id == "unusual_cipher_negotiation"
             found == {"ANOM-002"}
  <2>1. Shows(id, Medium, {"ANOM-002"}, found) /\ id \notin Counted
    BY UnusualTlsShow DEF Counted
  <2>2. /\ CATALOG[id].risk = Medium
        /\ CATALOG[id].expected = {"ANOM-002"}
          /\ found \subseteq FindingIds
    BY <2>1, ExpectedShown
  <2>3. Promised(id, found)
    BY <2>2, Domains, Buckets, NoPromiseBroken
  <2>4. QED
    BY <2>1, <2>3, ShownIsSound
<1>2. Sound("unexpected_tls_version")
  <2> DEFINE id == "unexpected_tls_version"
             found == {"TLS-001", "ANOM-003"}
  <2>1. Shows(id, Medium, {"ANOM-003"}, found) /\ id \notin Counted
    BY UnusualTlsShow DEF Counted
  <2>2. /\ CATALOG[id].risk = Medium
        /\ CATALOG[id].expected = {"ANOM-003"}
          /\ found \subseteq FindingIds
    BY <2>1, ExpectedShown
  <2>3. Promised(id, found)
    BY <2>2, Domains, Buckets, NoPromiseBroken
  <2>4. QED
    BY <2>1, <2>3, ShownIsSound
<1>3. Sound("uncommon_chacha20_negotiation")
  <2> DEFINE id == "uncommon_chacha20_negotiation"
             found == {"ANOM-002"}
  <2>1. Shows(id, Medium, {"ANOM-002"}, found) /\ id \notin Counted
    BY UnusualTlsShow DEF Counted
  <2>2. /\ CATALOG[id].risk = Medium
        /\ CATALOG[id].expected = {"ANOM-002"}
          /\ found \subseteq FindingIds
    BY <2>1, ExpectedShown
  <2>3. Promised(id, found)
    BY <2>2, Domains, Buckets, NoPromiseBroken
  <2>4. QED
    BY <2>1, <2>3, ShownIsSound
<1>4. Sound("uncommon_chacha20_ecdsa")
  <2> DEFINE id == "uncommon_chacha20_ecdsa"
             found == {"ANOM-002"}
  <2>1. Shows(id, Medium, {"ANOM-002"}, found) /\ id \notin Counted
    BY UnusualTlsShow DEF Counted
  <2>2. /\ CATALOG[id].risk = Medium
        /\ CATALOG[id].expected = {"ANOM-002"}
          /\ found \subseteq FindingIds
    BY <2>1, ExpectedShown
  <2>3. Promised(id, found)
    BY <2>2, Domains, Buckets, NoPromiseBroken
  <2>4. QED
    BY <2>1, <2>3, ShownIsSound
<1>5. Sound("unusual_chacha20_rsa4096")
  <2> DEFINE id == "unusual_chacha20_rsa4096"
             found == {"ANOM-002"}
  <2>1. Shows(id, Medium, {"ANOM-002"}, found) /\ id \notin Counted
    BY UnusualTlsShow DEF Counted
  <2>2. /\ CATALOG[id].risk = Medium
        /\ CATALOG[id].expected = {"ANOM-002"}
          /\ found \subseteq FindingIds
    BY <2>1, ExpectedShown
  <2>3. Promised(id, found)
    BY <2>2, Domains, Buckets, NoPromiseBroken
  <2>4. QED
    BY <2>1, <2>3, ShownIsSound
<1>6. QED
  BY <1>1, <1>2, <1>3, <1>4, <1>5

LEMMA CombinedWeaknessesSound ==
  \A id \in {"combined_critical_weaknesses", "expired_hostname_mismatch",
        "weak_rsa_no_forward_secrecy", "expired_invalid_chain"} : Sound(id)
<1>1. Sound("combined_critical_weaknesses")
  <2> DEFINE id == "combined_critical_weaknesses"
             found == {"TLS-001", "TLS-002", "FS-001", "CERT-001", "CERT-002"}
  <2>1. Shows(id, Critical, {"TLS-001", "TLS-002", "CERT-001"}, found)
          /\ id \notin Counted
    BY CombinedWeaknessesShow DEF Counted
  <2>2. /\ CATALOG[id].risk = Critical
        /\ CATALOG[id].expected = {"TLS-001", "TLS-002", "CERT-001"}
          /\ found \subseteq FindingIds
    BY <2>1, ExpectedShown
  <2>3. Promised(id, found)
    BY <2>2, Domains, Buckets, NoPromiseBroken
  <2>4. QED
    BY <2>1, <2>3, ShownIsSound
<1>2. Sound("expired_hostname_mismatch")
  <2> DEFINE id == "expired_hostname_mismatch"
             found == {"CERT-001", "CERT-004"}
  <2>1. Shows(id, High, {"CERT-001", "CERT-004"}, found) /\ id \notin Counted
    BY CombinedWeaknessesShow DEF Counted
  <2>2. /\ CATALOG[id].risk = High
        /\ CATALOG[id].expected = {"CERT-001", "CERT-004"}
          /\ found \subseteq FindingIds
    BY <2>1, ExpectedShown
  <2>3. Promised(id, found)
    BY <2>2, Domains, Buckets, NoPromiseBroken
  <2>4. QED
    BY <2>1, <2>3, ShownIsSound
<1>3. Sound("weak_rsa_no_forward_secrecy")
  <2> DEFINE id == "weak_rsa_no_forward_secrecy"
             found == {"FS-001", "CERT-002"}
  <2>1. Shows(id, High, {"CERT-002", "FS-001"}, found) /\ id \notin Counted
    BY CombinedWeaknessesShow DEF Counted
  <2>2. /\ CATALOG[id].risk = High
        /\ CATALOG[id].expected = {"CERT-002", "FS-001"}
          /\ found \subseteq FindingIds
    BY <2>1, ExpectedShown
  <2>3. Promised(id, found)
    BY <2>2, Domains, Buckets, NoPromiseBroken
  <2>4. QED
    BY <2>1, <2>3, ShownIsSound
<1>4. Sound("expired_invalid_chain")
  <2> DEFINE id == "expired_invalid_chain"
             found == {"CERT-001", "CERT-003"}
  <2>1. Shows(id, High, {"CERT-001", "CERT-003"}, found) /\ id \notin Counted
    BY CombinedWeaknessesShow DEF Counted
  <2>2. /\ CATALOG[id].risk = High
        /\ CATALOG[id].expected = {"CERT-001", "CERT-003"}
          /\ found \subseteq FindingIds
    BY <2>1, ExpectedShown
  <2>3. Promised(id, found)
    BY <2>2, Domains, Buckets, NoPromiseBroken
  <2>4. QED
    BY <2>1, <2>3, ShownIsSound
<1>5. QED
  BY <1>1, <1>2, <1>3, <1>4

LEMMA CountedSound ==
  \A id \in Counted \cup {"starttls_advertised_unused"} : Sound(id)
<1>1. Sound("starttls_advertised_unused")
  <2> DEFINE id == "starttls_advertised_unused"
             found == {"STLS-001"}
  <2>1. CATALOG[id].features = [Failed(0) EXCEPT !.starttls_used = FALSE]
          /\ CATALOG[id].risk = High /\ CATALOG[id].expected = found
    BY Domains, Entries, EntryParts DEF FailedHandshakes
  <2>2. BuildFeatures(id) = {CATALOG[id].features}
    BY DEF BuildFeatures
  <2>3. found \subseteq FindingIds
    BY DEF FindingIds
  <2>4. Promised(id, found)
    BY <2>1, <2>3, Buckets, NoPromiseBroken
  <2>5. Finds(CATALOG[id].features, found)
    BY <2>1, UnusedFinds
  <2>6. ExtractRuleFindings(CATALOG[id].features) = found
    BY <2>5, FindsThem
  <2>7. QED
    BY <2>2, <2>4, <2>5, <2>6 DEF Sound
<1>2. Sound("starttls_handshake_failure")
  <2> DEFINE id == "starttls_handshake_failure"
  <2>1. /\ CATALOG[id].risk = High
        /\ CATALOG[id].expected = {"STLS-002"}
    BY Domains, Entries, EntryParts DEF FailedHandshakes
  <2>2. ASSUME NEW found \in {{"STLS-002"}, {"STLS-002", "ANOM-001"}}
        PROVE  Promised(id, found)
    <3>1. found \subseteq FindingIds
      BY DEF FindingIds
    <3>2. QED
      BY <2>1, <3>1, Buckets, NoPromiseBroken
  <2>3. QED
    BY <2>2, CountersShow DEF Sound
<1>3. Sound("repeated_handshake_failures")
  <2> DEFINE id == "repeated_handshake_failures"
             found == {"STLS-002", "ANOM-001"}
  <2>1. /\ CATALOG[id].risk = High
        /\ CATALOG[id].expected = {"ANOM-001"}
    BY Domains, Entries, EntryParts DEF FailedHandshakes
  <2>2. found \subseteq FindingIds
    BY DEF FindingIds
  <2>3. Promised(id, found)
    BY <2>1, <2>2, Buckets, NoPromiseBroken
  <2>4. QED
    BY <2>3, CountersShow, FindsThem DEF Sound
<1>4. Sound("invalid_chain_repeated_failures")
  <2> DEFINE id == "invalid_chain_repeated_failures"
             found == {"CERT-003", "CRIT-001", "ANOM-001"}
  <2>1. /\ CATALOG[id].risk = Critical
        /\ CATALOG[id].expected = {"CRIT-001", "CERT-003", "ANOM-001"}
    BY Domains, Entries, EntryParts DEF WeakTls
  <2>2. found \subseteq FindingIds
    BY DEF FindingIds
  <2>3. Promised(id, found)
    BY <2>1, <2>2, Buckets, NoPromiseBroken
  <2>4. QED
    BY <2>3, CountersShow, FindsThem DEF Sound
<1>5. Sound("multiple_renegotiations")
  <2> DEFINE id == "multiple_renegotiations"
             found == {"ANOM-004"}
  <2>1. /\ CATALOG[id].risk = High
        /\ CATALOG[id].expected = found
    BY Domains, Entries, EntryParts DEF UnusualTls
  <2>2. found \subseteq FindingIds
    BY DEF FindingIds
  <2>3. Promised(id, found)
    BY <2>1, <2>2, Domains, Buckets, NoPromiseBroken
  <2>4. QED
    BY <2>3, CountersShow, FindsThem DEF Sound
<1>6. QED
  BY <1>1, <1>2, <1>3, <1>4, <1>5 DEF Counted

LEMMA CatalogueIsSound == \A id \in ScenarioIds : Sound(id)
<1>1. \A id \in DOMAIN NormalTls \cup DOMAIN NormalKeys : Sound(id)
  BY NormalTlsSound, NormalKeysSound
<1>2. \A id \in DOMAIN WeakTls \cup DOMAIN ExpiredCertificates : Sound(id)
  BY Domains, WeakTlsSound, CountedSound, ExpiredCertificatesSound DEF Counted
<1>3. \A id \in DOMAIN BadCertificates \cup DOMAIN FailedHandshakes : Sound(id)
  BY Domains, BadCertificatesSound, CountedSound DEF Counted
<1>4. \A id \in DOMAIN UnusualTls \cup DOMAIN ExpiringCertificates : Sound(id)
  BY Domains, UnusualTlsSound, CountedSound, ExpiringCertificatesSound DEF Counted
<1>5. \A id \in DOMAIN CombinedWeaknesses : Sound(id)
  BY Domains, CombinedWeaknessesSound
<1>6. QED
  BY <1>1, <1>2, <1>3, <1>4, <1>5 DEF ScenarioIds

(***************************************************************************)
(* The invariants of Pipeline.                                             *)
(***************************************************************************)
LEMMA OriginListed ==
  ASSUME OriginKnown
  PROVE  /\ origin.source = "synthetic_feature" => origin.scenario \in ScenarioIds
         /\ origin.source = "synthetic_pcap" =>
              \E id \in ScenarioIds, protocol \in LabProtocols :
                /\ ~Profile(id, "SMTP").requires_renegotiation
                /\ origin.scenario = id
                /\ origin.connection = {LabConnection(Profile(id, protocol))}
BY DEF OriginKnown, Authorized, Lab, Synthetic, Origin

(* The generator's record of a scenario passes the validators.             *)
LEMMA GeneratedIsValid ==
  ASSUME NEW id \in ScenarioIds, NEW f \in BuildFeatures(id)
  PROVE  ValidateSession(BuildRecord(id, "env", f))
<1> DEFINE e == [source |-> "scenario", packets |-> {}, fields |-> DOMAIN f]
           record == BuildRecord(id, "env", f)
<1>1. record.features = f
        /\ record.provenance =
             [source_type |-> "synthetic_feature", scenario_id |-> id,
              environment_id |-> "env", parameter_hash |-> {},
              generator_seed |-> {0}, evidence_refs |-> {e}]
  BY DEF BuildRecord
<1> HIDE DEF record
<1>2. DOMAIN f = Features /\ ValidateTlsFields(f) /\ ValidateCertificateFields(f)
  BY CatalogueIsSound DEF Sound, Finds
<1>3. ValidatePacketRange(e) /\ e.source = "scenario"
  BY <1>2 DEF ValidatePacketRange, Features
<1> HIDE DEF e
<1>4. record.provenance.evidence_refs = {e} /\ ValidateGeneratedSeed(record.provenance)
  BY <1>1, <1>3 DEF ValidateGeneratedSeed
<1>5. ValidateSession(record)
  BY <1>1, <1>2, <1>3, <1>4 DEF ValidateSession
<1>6. QED
  BY <1>5 DEF record

(* So does the extractor's record of a lab run.                            *)
LEMMA LabRecordIsValid ==
  ASSUME NEW rows, NEW n \in Nat, Len(rows) = n, n >= 1, NEW id, NEW protocol,
        NEW labels
  PROVE  ValidateSession(ExtractSession(rows, "synthetic_pcap", id, "lab", protocol,
                                        labels, TRUE))
<1> DEFINE e == [source |-> "pcap", fields |-> PcapFields,
                 packets |-> {[start |-> 1, end |-> Len(rows)]}]
           record == ExtractSession(rows, "synthetic_pcap", id, "lab", protocol,
                                    labels, TRUE)
<1>1. record.features = ExtractFeatures(rows, protocol, TRUE)
        /\ record.provenance =
             [source_type |-> "synthetic_pcap", scenario_id |-> id,
              environment_id |-> "lab", parameter_hash |-> {id},
              generator_seed |-> {0}, evidence_refs |-> {e}]
  BY DEF ExtractSession
<1> HIDE DEF record
<1>2. ValidatePacketRange(e)
  <2>1. \A r \in e.packets : r.start <= r.end
    OBVIOUS
  <2>2. e.packets # {} /\ e.fields # {}
    BY DEF PcapFields
  <2>3. QED
    BY <2>1, <2>2 DEF ValidatePacketRange
<1>3. e.source = "pcap"
  OBVIOUS
<1> HIDE DEF e
<1>4. record.provenance.evidence_refs = {e} /\ ValidateGeneratedSeed(record.provenance)
  BY <1>1, <1>3 DEF ValidateGeneratedSeed
<1>5. ValidateTlsFields(record.features) /\ ValidateCertificateFields(record.features)
  BY <1>1, TlsFieldsFollowHandshake
<1>6. ValidateSession(record)
  BY <1>2, <1>4, <1>5 DEF ValidateSession
<1>7. QED
  BY <1>6 DEF record

(* A lab run has a greeting at least.                                      *)
LEMMA LabHasRows ==
  ASSUME IndInv, WireInv, origin.source = "synthetic_pcap",
         sent = Len(Packets(Connection))
  PROVE  /\ \E g, s : Whole(Connection, g, s, Rows)
         /\ ~Connection.implicit
         /\ Len(Rows) \in Nat /\ Len(Rows) >= 1
<1>1. captured = 1..sent /\ sent \in Nat
  BY DEF WireInv, LabWhole, IndInv
<1>2. PICK g, s : Laid(Connection, g, s) /\ s = Packets(Connection)
  BY DEF Laid
<1>3. DOMAIN Rows = 1..sent /\ \A i \in 1..sent : Rows[i] = Packets(Connection)[i]
  BY <1>1, WholeRows
<1>4. Whole(Connection, g, s, Rows)
  BY <1>1, <1>2, <1>3 DEF Whole
<1>5. PICK id \in ScenarioIds, protocol \in LabProtocols :
        origin.connection = {LabConnection(Profile(id, protocol))}
  BY OriginListed DEF WireInv
<1>6. Connection = LabConnection(Profile(id, protocol))
  BY <1>5 DEF Connection
<1>7. ~Connection.implicit
  BY <1>6 DEF LabConnection
<1>8. 1 \in DOMAIN Rows
  BY <1>4, <1>7, GreetingSeen
<1>9. Cardinality(captured) \in Nat
  BY CapturedIsFinite
<1>10. DOMAIN Rows = 1..Cardinality(captured) /\ Len(Rows) = Cardinality(captured)
  BY <1>9 DEF Rows
<1>11. QED
  BY <1>4, <1>7, <1>8, <1>9, <1>10

(* No record that the extractor or the generator builds is rejected by its *)
(* validators: a capture job fails for no record of its own                *)
(* (ml/pcap.py, ml/dataset.py:_build_record).                              *)
THEOREM ExtractionsAreValid == Spec => []ExtractionIsValid
<1>1. ASSUME IndInv, WireInv, ExtractionIsValid, Next PROVE ExtractionIsValid'
  <2> USE <1>1
  <2>1. CASE ExtractAuthorized
    <3>1. IndInv' /\ origin' = origin /\ origin.source = "authorized_capture"
      BY <2>1, ExtractAuthorizedInv DEF ExtractAuthorized, Extracted
    <3>2. QED
      BY <3>1 DEF IndInv, AuthorizedIsValid
  <2>2. CASE ExtractLab
    <3> DEFINE record == ExtractSession(Rows, "synthetic_pcap", origin.scenario, "lab",
                           Connection.protocol, LabLabels(origin.scenario), TRUE)
    <3>1. origin.source = "synthetic_pcap" /\ sent = Len(Packets(Connection))
            /\ Extracted(record)
      BY <2>2 DEF ExtractLab
    <3>2. ValidateSession(record)
      BY <3>1, LabHasRows, LabRecordIsValid
    <3>3. HIDE DEF record
    <3>4. QED
      BY <3>1, <3>2 DEF Extracted, ExtractionIsValid
  <2>3. CASE Generate
    <3>1. PICK f \in BuildFeatures(origin.scenario) :
            Extracted(BuildRecord(origin.scenario, "env", f))
      BY <2>3 DEF Generate
    <3>2. origin.scenario \in ScenarioIds
      BY <2>3, OriginListed DEF Generate, WireInv
    <3>3. ValidateSession(BuildRecord(origin.scenario, "env", f))
      BY <3>2, GeneratedIsValid
    <3>4. QED
      BY <3>1, <3>3 DEF Extracted, ExtractionIsValid
  <2>4. CASE Pass \/ Lose \/ ExtractNothing \/ NotScored \/ Infer \/ PersistFails \/ Retry
    BY <2>4 DEF Pass, Lose, ExtractNothing, NotScored, Infer, PersistFails, Retry,
      ExtractionIsValid
  <2>5. CASE Answer
    BY <2>5 DEF Answer, ExtractionIsValid, IndInv, OnRecord
  <2>6. ASSUME NEW p \in Payloads, Submit(p) PROVE ExtractionIsValid'
    BY <2>6 DEF Submit, ExtractionIsValid
  <2>7. QED
    BY <2>1, <2>2, <2>3, <2>4, <2>5, <2>6 DEF Next
<1>2. Init => ExtractionIsValid
  BY DEF Init, ExtractionIsValid
<1>3. ExtractionIsValid /\ UNCHANGED vars => ExtractionIsValid'
  BY DEF ExtractionIsValid, vars
<1>4. IndInv /\ WireInv /\ ExtractionIsValid /\ [Next]_vars => ExtractionIsValid'
  BY <1>1, <1>3
<1>5. QED
  BY <1>2, <1>4, Invariance, WireInvariance, PTL DEF Spec

(* All verdicts there may be have the findings of the record.              *)
LEMMA FindingsOfRecord ==
  ASSUME IndInv, verdict # {}
  PROVE  Findings = ExtractRuleFindings(Record.features)
<1>1. \A v \in verdict : v.result.findings = ExtractRuleFindings(Record.features)
  BY VerdictOfRecord
<1>2. QED
  BY <1>1 DEF Findings

(* Of every record the generator may build, whatever counters it draws:    *)
(* the rules find what the catalogue's label promises                      *)
(* (ml/dataset.py:350-1271).                                               *)
THEOREM LabelsAreTrue == Spec => []LabelsFollowRules
<1>1. ASSUME IndInv, WireInv PROVE LabelsFollowRules
  <2> SUFFICES ASSUME verdict # {}, origin.source = "synthetic_feature"
               PROVE  LabelsFollowRules
    BY DEF LabelsFollowRules
  <2> USE <1>1
  <2> DEFINE id == origin.scenario
             found == ExtractRuleFindings(Record.features)
  <2>1. session # {}
    BY DEF IndInv, TypeOK
  <2>2. id \in ScenarioIds
    BY OriginListed DEF WireInv
  <2>3. Record.features \in BuildFeatures(id)
    BY <2>1 DEF WireInv, FromOrigin
  <2>4. Promised(id, found)
    BY <2>2, <2>3, CatalogueIsSound DEF Sound
  <2>5. Findings = found
    BY FindingsOfRecord
  <2>6. \A v \in verdict : v.result.floor = HighestRuleSeverity(found)
    BY VerdictOfRecord
  <2>7. HIDE DEF found
  <2>8. QED
    BY <2>4, <2>5, <2>6 DEF Promised, LabelsFollowRules
<1>2. QED
  BY <1>1, Invariance, WireInvariance, PTL

(***************************************************************************)
(* What a record shows of a lab run, captured whole.                       *)
(***************************************************************************)
(* The leaf is found where it can be read.                                 *)
LEMMA LeafFound ==
  ASSUME NEW c, NEW g, NEW s, NEW rows, Whole(c, g, s, rows),
         Rejected(c) \/ Connected(c), c.version # "TLS1.3" \/ c.keys
  PROVE  FirstCertificate(rows) # {} /\ Leaf1(rows) = c.certificate
<1>1. /\ g \in {0, 2} /\ Len(s) \in Nat /\ DOMAIN rows = 1..Len(s) /\ ~Silent(c)
      /\ (\A i \in 1..g : rows[i] \in Texts(c)) /\ rows[g + 1] = Hello
      /\ g + 2 \in DOMAIN rows /\ rows[g + 2] = ServerFlight(c)
  BY WholeShows DEF Rejected, Connected
<1>2. rows[g + 2].certificate = {c.certificate}
  BY <1>1 DEF ServerFlight, Packet
<1>3. rows[g + 1].certificate = {}
  BY <1>1 DEF Hello, Packet
<1>4. \A i \in 1..g : rows[i].certificate = {}
  BY <1>1, TextShows
<1>5. \A j \in 1..(g + 2) - 1 : rows[j].certificate = {}
  <2>1. \A j \in 1..(g + 2) - 1 : j \in 1..g \/ j = g + 1
    BY <1>1
  <2>2. QED
    BY <1>3, <1>4, <2>1
<1>6. c.certificate \in FirstCertificate(rows)
  BY <1>1, <1>2, <1>5 DEF FirstCertificate
<1>7. ASSUME NEW h \in FirstCertificate(rows) PROVE h = c.certificate
  <2>1. PICK i \in DOMAIN rows :
          h \in rows[i].certificate /\ \A j \in 1..i - 1 : rows[j].certificate = {}
    BY DEF FirstCertificate
  <2>2. ~(g + 2 \in 1..i - 1)
    BY <1>2, <2>1
  <2>3. ~(i \in 1..(g + 2) - 1)
    BY <1>5, <2>1
  <2>4. i = g + 2
    BY <1>1, <2>2, <2>3
  <2>5. QED
    BY <1>2, <2>1, <2>4
<1>8. QED
  BY <1>6, <1>7 DEF Leaf1

(* Nothing but text was exchanged.                                         *)
LEMMA SilenceSeen ==
  ASSUME NEW c, NEW g, NEW s, NEW rows, Whole(c, g, s, rows), Silent(c), ~c.implicit
  PROVE  /\ ~HasHandshakeType(rows, ClientHello) /\ ~HandshakeSuccess(rows)
         /\ HandshakeFailures(rows) = 0
         /\ (c.advertises => \E i \in DOMAIN rows : rows[i].text)
         /\ (~c.advertises
               /\ c.protocol = "POP3" => ~\E i \in DOMAIN rows : rows[i].text)
<1>1. /\ DOMAIN rows = 1..g /\ 1 \in DOMAIN rows
      /\ rows[1] = Text("server", c.advertises)
      /\ \A i \in DOMAIN rows : rows[i] \in Texts(c)
  BY WholeShows
<1>2. \A i \in DOMAIN rows : rows[i].types = {} /\ rows[i].fatal = FALSE
  BY <1>1, TextShows
<1>3. ~HasHandshakeType(rows, ClientHello) /\ ~HasHandshakeType(rows, ServerHello)
  BY <1>2 DEF HasHandshakeType
<1>4. ~HandshakeSuccess(rows)
  BY <1>3 DEF HandshakeSuccess, ClientHandshakeSucceeded
<1>5. FatalAlerts(rows) = {}
  BY <1>2 DEF FatalAlerts
<1>6. HandshakeFailures(rows) = 0
  BY <1>4, <1>5, FS_EmptySet DEF HandshakeFailures
<1>7. rows[1].text = c.advertises
  BY <1>1 DEF Text, Packet
<1>8. ASSUME ~c.advertises, c.protocol = "POP3", NEW i \in DOMAIN rows
        PROVE ~rows[i].text
  <2>1. rows[i] = Text("server", c.advertises)
          \/ rows[i] = Text("client", c.client # "plain" /\ c.protocol # "POP3")
    BY <1>1 DEF Texts
  <2>2. CASE rows[i] = Text("server", c.advertises)
    BY <1>8, <2>2 DEF Text, Packet
  <2>3. CASE rows[i] = Text("client", c.client # "plain" /\ c.protocol # "POP3")
    BY <1>8, <2>3 DEF Text, Packet
  <2>4. QED
    BY <2>1, <2>2, <2>3
<1>9. QED
  BY <1>1, <1>3, <1>4, <1>6, <1>7, <1>8

(* A client that rejects the certificate fails once at most.               *)
LEMMA RejectionCounted ==
  ASSUME NEW c, NEW g, NEW s, NEW rows, Whole(c, g, s, rows), Rejected(c)
  PROVE  HandshakeFailures(rows) \in {0, 1}
<1>1. /\ g \in {0, 2} /\ DOMAIN rows = 1..g + 3 /\ ~Silent(c)
      /\ (\A i \in 1..g : rows[i] \in Texts(c)) /\ rows[g + 1] = Hello
      /\ rows[g + 2] = ServerFlight(c)
  BY WholeShows DEF Rejected
<1>2. \A i \in 1..g : rows[i].fatal = FALSE
  BY <1>1, TextShows
<1>3. rows[g + 1].fatal = FALSE
  BY <1>1 DEF Hello, Packet
<1>4. rows[g + 2].fatal = FALSE
  BY <1>1, FlightShows
<1>5. \A i \in DOMAIN rows : i \in 1..g \/ i = g + 1 \/ i = g + 2 \/ i = g + 3
  BY <1>1
<1>6. FatalAlerts(rows) = {} \/ FatalAlerts(rows) = {g + 3}
  BY <1>2, <1>3, <1>4, <1>5 DEF FatalAlerts
<1>7. Cardinality(FatalAlerts(rows)) \in {0, 1}
  BY <1>6, FS_EmptySet, FS_Singleton
<1>8. QED
  BY <1>7 DEF HandshakeFailures

(* What a record shows of a connection that was captured whole.            *)
ShowsWhole(c, f) ==
  \E rows, g, s :
    /\ Whole(c, g, s, rows)
    /\ HandshakeShown(f, rows, c.protocol) /\ NegotiationShown(f, rows)
    /\ CertificateShown(f, rows, TRUE)

LEMMA SilentFeatures ==
  ASSUME NEW c, NEW f, ShowsWhole(c, f), Silent(c), ~c.implicit
  PROVE  /\ f.handshake_failures = 0 /\ ~f.handshake_success /\ ~f.starttls_used
         /\ (c.advertises => f.starttls_advertised)
         /\ (~c.advertises /\ c.protocol = "POP3" => ~f.starttls_advertised)
<1>1. PICK rows, g, s : Whole(c, g, s, rows) /\ HandshakeShown(f, rows, c.protocol)
  BY DEF ShowsWhole
<1>2. ~HasHandshakeType(rows, ClientHello) /\ ~HandshakeSuccess(rows)
  BY <1>1, SilenceSeen
<1>3. HandshakeFailures(rows) = 0
  BY <1>1, SilenceSeen
<1>4. c.advertises => \E i \in DOMAIN rows : rows[i].text
  BY <1>1, SilenceSeen
<1>5. ~c.advertises /\ c.protocol = "POP3" => ~\E i \in DOMAIN rows : rows[i].text
  BY <1>1, SilenceSeen
<1>6. QED
  BY <1>1, <1>2, <1>3, <1>4, <1>5 DEF HandshakeShown

LEMMA LeafFeatures ==
  ASSUME NEW c, NEW f, ShowsWhole(c, f), Rejected(c) \/ Connected(c),
         c.version # "TLS1.3" \/ c.keys
  PROVE  /\ f.cert_expired = {c.certificate.expired}
         /\ f.cert_key_algorithm = {IF c.certificate.key = "RSA" THEN "RSA" ELSE "UNKNOWN"}
         /\ f.cert_key_length_bits = {c.certificate.bits}
         /\ f.cert_chain_valid = {c.certificate.chain /\ ~c.certificate.expired}
         /\ f.hostname_mismatch = {c.certificate.mismatch}
<1>1. PICK rows, g, s : Whole(c, g, s, rows) /\ CertificateShown(f, rows, TRUE)
  BY DEF ShowsWhole
<1>2. FirstCertificate(rows) # {} /\ Leaf1(rows) = c.certificate
  BY <1>1, LeafFound
<1>3. QED
  BY <1>1, <1>2 DEF CertificateShown

LEMMA FamilyFeature ==
  ASSUME NEW c, NEW f, ShowsWhole(c, f), Rejected(c) \/ Connected(c)
  PROVE  f.cipher_family \subseteq {CipherFamily(CipherSuite(c.suite))}
<1>1. PICK rows, g, s : Whole(c, g, s, rows) /\ NegotiationShown(f, rows)
  BY DEF ShowsWhole
<1>2. Hello1(rows) = c
  BY <1>1, HelloFound
<1>3. QED
  BY <1>1, <1>2 DEF NegotiationShown

LEMMA CompletedFeatures ==
  ASSUME NEW c, NEW f, ShowsWhole(c, f), Connected(c), c.version # "TLS1.3" \/ c.keys
  PROVE  /\ f.handshake_success = TRUE
         /\ f.tls_version = {c.version}
         /\ f.forward_secrecy = {KeyExchange(c.version, CipherSuite(c.suite)) = "ECDHE"}
<1>1. PICK rows, g, s : /\ Whole(c, g, s, rows) /\ NegotiationShown(f, rows)
                        /\ HandshakeShown(f, rows, c.protocol)
  BY DEF ShowsWhole
<1>2. Hello1(rows) = c
  BY <1>1, HelloFound
<1>3. HandshakeSuccess(rows)
  BY <1>1, CompletionSeen
<1>4. QED
  BY <1>1, <1>2, <1>3 DEF NegotiationShown, HandshakeShown

LEMMA RejectedFeatures ==
  ASSUME NEW c, NEW f, ShowsWhole(c, f), Rejected(c)
  PROVE  f.handshake_failures \in {0, 1}
<1>1. PICK rows, g, s : Whole(c, g, s, rows) /\ HandshakeShown(f, rows, c.protocol)
  BY DEF ShowsWhole
<1>2. QED
  BY <1>1, RejectionCounted DEF HandshakeShown

(***************************************************************************)
(* The connections the lab makes of its scenarios.                         *)
(***************************************************************************)
Wordless ==
  {"starttls_advertised_unused", "starttls_handshake_failure",
   "repeated_handshake_failures"}

LabOf(id, protocol) == LabConnection(Profile(id, protocol))

LEMMA LabParts ==
  ASSUME NEW id, NEW protocol, NEW c, c = LabOf(id, protocol)
  PROVE  /\ c.protocol = protocol /\ ~c.implicit /\ ~c.refuses
         /\ (protocol # "POP3" => c.advertises) /\ (protocol = "POP3" => ~c.advertises)
         /\ (c.version # "TLS1.3" \/ c.keys)
         /\ (id \notin ChaChaIds => c.version = CATALOG[id].version)
<1> DEFINE p == Profile(id, protocol)
<1>1. p.protocol = protocol /\ (id \notin ChaChaIds => p.version = CATALOG[id].version)
  BY DEF Profile
<1> HIDE DEF p
<1>2. c = LabConnection(p)
  BY DEF LabOf, p
<1>3. /\ c.protocol = p.protocol /\ ~c.implicit /\ ~c.refuses
      /\ c.advertises = (p.protocol # "POP3") /\ c.version = p.version
  BY <1>2 DEF LabConnection
<1>4. c.version # "TLS1.3" \/ c.keys
  <2>1. c.version = p.version
          /\ c.keys = (p.service = "mail-core" \/ p.version = "TLS1.3")
    BY <1>2 DEF LabConnection
  <2>2. QED
    BY <2>1
<1>5. QED
  BY <1>1, <1>3, <1>4

(* A certificate of each mode.                                             *)
LeafOf(mode, d) ==
  /\ (mode = "expired" => d.expired = TRUE)
  /\ (mode # "expired" => d.expired = FALSE)
  /\ (mode = "unknown_ca" => d.chain = FALSE)
  /\ (mode = "hostname_mismatch" => d.mismatch = TRUE)
  /\ d.key = "RSA"
  /\ (mode = "weak_rsa" => d.bits = 1024)

LEMMA ProvisionedLeaf ==
  ASSUME NEW p, NEW mode, mode = p.certificate_mode, NEW d, d = ProvisionCertificate(p)
  PROVE  LeafOf(mode, d)
<1>1. ASSUME mode = "expired" PROVE d.expired = TRUE
  BY <1>1 DEF ProvisionCertificate
<1>2. ASSUME mode # "expired" PROVE d.expired = FALSE
  BY <1>2 DEF ProvisionCertificate
<1>3. ASSUME mode = "unknown_ca" PROVE d.chain = FALSE
  BY <1>3 DEF ProvisionCertificate
<1>4. ASSUME mode = "hostname_mismatch" PROVE d.mismatch = TRUE
  BY <1>4 DEF ProvisionCertificate
<1>5. d.key = "RSA" /\ (mode = "weak_rsa" => d.bits = 1024)
  BY DEF ProvisionCertificate
<1>6. QED
  BY <1>1, <1>2, <1>3, <1>4, <1>5, Zenon DEF LeafOf

LEMMA LabLeaf ==
  ASSUME NEW id, NEW protocol, NEW c, c = LabOf(id, protocol), NEW mode,
         mode = CertificateMode(id)
  PROVE  LeafOf(mode, c.certificate)
<1> DEFINE p == Profile(id, protocol)
<1>1. p.certificate_mode = mode
  BY DEF Profile
<1> HIDE DEF p
<1>2. c.certificate = ProvisionCertificate(p)
  BY DEF LabOf, p, LabConnection
<1>3. QED
  BY <1>1, <1>2, ProvisionedLeaf

LEMMA LabClient ==
  ASSUME NEW id, NEW protocol, NEW c, c = LabOf(id, protocol)
  PROVE  /\ (id \in Wordless => Silent(c))
         /\ (id \notin Wordless => Rejected(c) \/ Connected(c))
         /\ (id \notin Wordless
               /\ (id \in LegacyIds \/ CertificateMode(id) = "valid") =>
               Connected(c))
         /\ (id \notin Wordless /\ id \notin LegacyIds
               /\ CertificateMode(id) # "valid" =>
               Rejected(c))
<1> DEFINE p == Profile(id, protocol)
<1>1. /\ (id = "starttls_advertised_unused" => p.client_mode = "unused_starttls")
      /\ (id \in {"starttls_handshake_failure", "repeated_handshake_failures"} =>
            p.client_mode = "abort_starttls")
      /\ (id \notin Wordless => p.client_mode = "starttls")
  BY DEF Profile, Wordless
<1>2. p.service = (IF id \in LegacyIds THEN "legacy-lab" ELSE "mail-core")
        /\ p.certificate_mode = CertificateMode(id)
  BY DEF Profile
<1> HIDE DEF p
<1>3. c = LabConnection(p)
  BY DEF LabOf, p
<1>4. c.refuses = FALSE
  BY <1>3 DEF LabConnection
<1>5. c.client =
        CASE p.client_mode = "unused_starttls" -> "plain"
          [] p.client_mode = "abort_starttls" -> "aborts"
          [] OTHER -> IF p.service = "mail-core" /\ p.certificate_mode # "valid"
                      THEN "rejects" ELSE "completes"
  BY <1>3 DEF LabConnection
<1>6. id \in Wordless => c.client \in {"plain", "aborts"}
  BY <1>1, <1>5 DEF Wordless
<1>7. id \notin Wordless =>
        c.client = IF p.service = "mail-core" /\ p.certificate_mode # "valid"
                   THEN "rejects" ELSE "completes"
  BY <1>1, <1>5
<1>8. QED
  BY <1>2, <1>4, <1>6, <1>7 DEF Silent, Rejected, Connected

(* What the lab's scenarios are expected to show, and with which version.  *)
LEMMA ExpectedTold ==
  /\ CATALOG["starttls_advertised_unused"].expected = {"STLS-001"}
  /\ CATALOG["starttls_handshake_failure"].expected = {"STLS-002"}
  /\ CATALOG["repeated_handshake_failures"].expected = {"ANOM-001"}
  /\ CATALOG["invalid_chain_repeated_failures"].expected = {"CRIT-001", "CERT-003",
        "ANOM-001"}
BY Domains, Entries, EntryParts DEF FailedHandshakes, WeakTls

LEMMA NothingExpected ==
  \A id \in DOMAIN NormalTls \cup DOMAIN NormalKeys \cup DOMAIN ExpiringCertificates :
    CATALOG[id].expected = {}
BY NormalTlsShow, NormalKeysShow, ExpiringCertificatesShow, Domains DEF Shows

LEMMA VersionTold ==
  /\ CATALOG["deprecated_tls"].version = "TLS1.0"
  /\ CATALOG["rsa_no_forward_secrecy"].version = "TLS1.2"
  /\ CATALOG["weak_rsa_no_forward_secrecy"].version = "TLS1.2"
  /\ CATALOG["unexpected_tls_version"].version = "TLS1.1"
<1>1. CATALOG["deprecated_tls"].version = "TLS1.0"
  BY Domains, Entries, EntryParts DEF WeakTls
<1>2. CATALOG["rsa_no_forward_secrecy"].version = "TLS1.2"
  BY Domains, Entries, EntryParts DEF WeakTls
<1>3. CATALOG["weak_rsa_no_forward_secrecy"].version = "TLS1.2"
  BY Domains, Entries, EntryParts DEF CombinedWeaknesses
<1>4. CATALOG["unexpected_tls_version"].version = "TLS1.1"
  BY Domains, Entries, EntryParts DEF UnusualTls
<1>5. QED
  BY <1>1, <1>2, <1>3, <1>4

(* The suites the lab negotiates: none is recognised as broken or as       *)
(* ChaCha20.                                                               *)
LEMMA LabFamily ==
  ASSUME NEW id, NEW protocol, NEW c, c = LabOf(id, protocol)
  PROVE  CipherFamily(CipherSuite(c.suite)) \notin {"3DES", "RC4", "CHACHA20-POLY1305"}
<1> DEFINE p == Profile(id, protocol)
<1>1. p.ciphers \in {"rsa", "default", "chacha20"}
  BY DEF Profile
<1> HIDE DEF p
<1>2. c.suite = NegotiatedSuite(p)
  BY DEF LabConnection, LabOf, p
<1>3. NegotiatedSuite(p) \in {"TLS_AES_256_GCM_SHA384", "TLS_RSA_WITH_AES_128_CBC_SHA",
          "TLS_ECDHE_RSA_WITH_CHACHA20_POLY1305_SHA256",
          "TLS_ECDHE_RSA_WITH_AES_256_GCM_SHA384", "TLS_ECDHE_RSA_WITH_AES_256_CBC_SHA"}
  BY <1>1 DEF NegotiatedSuite
<1>4. CipherSuite(c.suite) \in {"TLS_AES_256_GCM_SHA384",
        "TLS_RSA_WITH_AES_128_CBC_SHA",
          "TLS_ECDHE_RSA_WITH_AES_256_GCM_SHA384", "TLS_code"}
  BY <1>2, <1>3 DEF CipherSuite, CipherSuites
<1>5. QED
  BY <1>4 DEF CipherFamily

LEMMA LabSecrecy ==
  ASSUME NEW id \in {"deprecated_tls", "rsa_no_forward_secrecy",
                     "weak_rsa_no_forward_secrecy"},
         NEW protocol, NEW c, c = LabOf(id, protocol)
  PROVE  /\ c.version \in {"TLS1.0", "TLS1.2"}
         /\ KeyExchange(c.version, CipherSuite(c.suite)) # "ECDHE"
<1> DEFINE p == Profile(id, protocol)
<1>1. id \notin ChaChaIds /\ id \in RsaIds
  BY DEF ChaChaIds, RsaIds
<1>2. p.ciphers = "rsa" /\ p.version = CATALOG[id].version
  BY <1>1 DEF Profile
<1>3. CATALOG[id].version \in {"TLS1.0", "TLS1.2"}
  BY VersionTold
<1> HIDE DEF p
<1>4. c.suite = NegotiatedSuite(p) /\ c.version = p.version
  BY DEF LabConnection, LabOf, p
<1>5. c.suite = "TLS_RSA_WITH_AES_128_CBC_SHA"
  BY <1>2, <1>3, <1>4 DEF NegotiatedSuite
<1>6. c.version # "TLS1.3" /\ ~ForwardSecret(c)
  BY <1>2, <1>3, <1>4, <1>5 DEF ForwardSecret
<1>7. QED
  BY <1>2, <1>3, <1>4, <1>6, SecrecyOfSuite

(***************************************************************************)
(* Which findings the lab's scenarios raise on the wire.                   *)
(***************************************************************************)
(* Whether the findings of f are all those scenario id expects.            *)
ShowsExpected(id, f) == CATALOG[id].expected \subseteq ExtractRuleFindings(f)

LEMMA ShownBy ==
  ASSUME NEW id, NEW f
  PROVE  /\ \A a \in FindingIds : CATALOG[id].expected = {a} =>
              (ShowsExpected(id, f) <=> Raises(a, f))
         /\ \A a, b \in FindingIds : CATALOG[id].expected = {a, b} =>
              (ShowsExpected(id, f) <=> Raises(a, f) /\ Raises(b, f))
         /\ \A a \in CATALOG[id].expected : ShowsExpected(id, f) => Raises(a, f)
BY DEF ShowsExpected, ExtractRuleFindings

LEMMA SilentScenarios ==
  ASSUME NEW id \in Wordless, NEW protocol, NEW c, c = LabOf(id, protocol),
         NEW f, ShowsWhole(c, f)
  PROVE  ShowsExpected(id, f) <=>
           id = "starttls_advertised_unused" /\ protocol # "POP3"
<1>1. /\ Silent(c) /\ ~c.implicit /\ c.protocol = protocol
      /\ (protocol # "POP3" => c.advertises) /\ (protocol = "POP3" => ~c.advertises)
  BY LabClient, LabParts
<1>2. /\ f.handshake_failures = 0 /\ ~f.handshake_success /\ ~f.starttls_used
      /\ (protocol # "POP3" => f.starttls_advertised)
      /\ (protocol = "POP3" => ~f.starttls_advertised)
  BY <1>1, SilentFeatures
<1>3. /\ (Raises("STLS-001", f) <=> protocol # "POP3")
      /\ ~Raises("STLS-002", f) /\ ~Raises("ANOM-001", f)
  BY <1>2, Atoms2 DEF Stls001, Stls002, Anom001
<1>4. {"STLS-001", "STLS-002", "ANOM-001"} \subseteq FindingIds
  BY DEF FindingIds
<1>5. CASE id = "starttls_advertised_unused"
  BY <1>3, <1>4, <1>5, ExpectedTold, ShownBy
<1>6. CASE id = "starttls_handshake_failure"
  BY <1>3, <1>4, <1>6, ExpectedTold, ShownBy
<1>7. CASE id = "repeated_handshake_failures"
  BY <1>3, <1>4, <1>7, ExpectedTold, ShownBy
<1>8. QED
  BY <1>5, <1>6, <1>7 DEF Wordless

LEMMA CertificateFound ==
  ASSUME NEW id, id \notin Wordless, NEW protocol, NEW c, c = LabOf(id, protocol),
         NEW f, ShowsWhole(c, f), NEW mode, mode = CertificateMode(id)
  PROVE  /\ (mode = "expired" => Raises("CERT-001", f))
         /\ (mode # "expired" => ~Raises("CERT-001", f))
         /\ (mode = "weak_rsa" => Raises("CERT-002", f))
         /\ (mode = "unknown_ca" => Raises("CERT-003", f))
         /\ (mode = "hostname_mismatch" => Raises("CERT-004", f))
<1>0. PICK d : d = c.certificate
  OBVIOUS
<1>1. LeafOf(mode, d)
  BY <1>0, LabLeaf
<1>2. c.version # "TLS1.3" \/ c.keys
  BY LabParts
<1>3. Rejected(c) \/ Connected(c)
  BY LabClient
<1>4. /\ f.cert_expired = {d.expired}
      /\ f.cert_key_algorithm = {IF d.key = "RSA" THEN "RSA" ELSE "UNKNOWN"}
      /\ f.cert_key_length_bits = {d.bits}
      /\ f.cert_chain_valid = {d.chain /\ ~d.expired}
      /\ f.hostname_mismatch = {d.mismatch}
  BY <1>0, <1>2, <1>3, LeafFeatures
<1>5. ASSUME mode = "expired" PROVE Cert001(f)
  BY <1>1, <1>4, <1>5 DEF Cert001, LeafOf
<1>6. ASSUME mode # "expired" PROVE ~Cert001(f)
  <2>1. d.expired = FALSE
    BY <1>1, <1>6 DEF LeafOf
  <2>2. f.cert_expired = {FALSE}
    BY <1>4, <2>1
  <2>3. QED
    BY <2>2 DEF Cert001
<1>7. ASSUME mode = "weak_rsa" PROVE Cert002(f)
  <2>1. f.cert_key_length_bits = {1024} /\ f.cert_key_algorithm = {"RSA"}
    BY <1>1, <1>4, <1>7 DEF LeafOf
  <2>2. QED
    BY <2>1 DEF Cert002, HasShortKey
<1>8. ASSUME mode = "unknown_ca" PROVE Cert003(f)
  <2>1. d.chain = FALSE
    BY <1>1, <1>8, Zenon DEF LeafOf
  <2>2. (d.chain /\ ~d.expired) = FALSE
    BY <2>1, Zenon
  <2>3. f.cert_chain_valid = {FALSE}
    BY <1>4, <2>2, Zenon
  <2>4. QED
    BY <2>3 DEF Cert003
<1>9. ASSUME mode = "hostname_mismatch" PROVE Cert004(f)
  <2>1. d.mismatch = TRUE
    BY <1>1, <1>9 DEF LeafOf
  <2>2. QED
    BY <1>4, <2>1 DEF Cert004
<1>10. QED
  BY <1>5, <1>6, <1>7, <1>8, <1>9, Atoms2

(* A suite that the extractor does not recognise raises nothing.           *)
LEMMA NoFamilyFound ==
  ASSUME NEW id, id \notin Wordless, NEW protocol, NEW c, c = LabOf(id, protocol),
         NEW f, ShowsWhole(c, f)
  PROVE  ~Raises("TLS-002", f) /\ ~Raises("ANOM-002", f)
<1>1. f.cipher_family \subseteq {CipherFamily(CipherSuite(c.suite))}
  BY LabClient, FamilyFeature
<1>2. CipherFamily(CipherSuite(c.suite)) \notin {"3DES", "RC4", "CHACHA20-POLY1305"}
  BY LabFamily
<1>3. ~Tls002(f) /\ ~Anom002(f)
  BY <1>1, <1>2 DEF Tls002, Anom002, Broken
<1>4. QED
  BY <1>3, Atoms2

LEMMA SecrecyFound ==
  ASSUME NEW id \in {"deprecated_tls", "rsa_no_forward_secrecy",
                     "weak_rsa_no_forward_secrecy"},
         NEW protocol, NEW c, c = LabOf(id, protocol), NEW f, ShowsWhole(c, f)
  PROVE  Raises("FS-001", f)
<1>1. id \notin Wordless /\ id \in LegacyIds
  BY DEF Wordless, LegacyIds
<1>2. Connected(c) /\ (c.version # "TLS1.3" \/ c.keys)
  BY <1>1, LabClient, LabParts
<1>3. f.handshake_success = TRUE
        /\ f.forward_secrecy = {KeyExchange(c.version, CipherSuite(c.suite)) = "ECDHE"}
  BY <1>2, CompletedFeatures
<1>4. KeyExchange(c.version, CipherSuite(c.suite)) # "ECDHE"
  BY LabSecrecy
<1>5. Fs001(f)
  BY <1>3, <1>4 DEF Fs001
<1>6. QED
  BY <1>5, Atoms2

LEMMA VersionFound ==
  ASSUME NEW id \in {"deprecated_tls", "unexpected_tls_version"},
         NEW protocol, NEW c, c = LabOf(id, protocol), NEW f, ShowsWhole(c, f)
  PROVE  /\ (id = "deprecated_tls" => Raises("TLS-001", f))
         /\ (id = "unexpected_tls_version" => Raises("ANOM-003", f))
<1>1. id \notin Wordless /\ (id \in LegacyIds \/ CertificateMode(id) = "valid")
        /\ id \notin ChaChaIds
  BY DEF Wordless, LegacyIds, CertificateMode, ChaChaIds
<1>2. Connected(c) /\ (c.version # "TLS1.3" \/ c.keys)
        /\ c.version = CATALOG[id].version
  BY <1>1, LabClient, LabParts
<1>3. f.tls_version = {CATALOG[id].version}
  <2>1. f.tls_version = {c.version}
    BY <1>2, CompletedFeatures
  <2>2. QED
    BY <1>2, <2>1
<1>4. CASE id = "deprecated_tls"
  <2>1. f.tls_version = {"TLS1.0"}
    BY <1>3, <1>4, VersionTold
  <2>2. QED
    BY <1>4, <2>1, Atoms2 DEF Tls001, Deprecated
<1>5. CASE id = "unexpected_tls_version"
  <2>1. f.tls_version = {"TLS1.1"}
    BY <1>3, <1>5, VersionTold
  <2>2. QED
    BY <1>5, <2>1, Atoms2 DEF Anom003
<1>6. QED
  BY <1>4, <1>5

LEMMA ModeTold ==
  /\ \A id \in {"expired_certificate", "expired_certificate_tls12",
                "expired_certificate_ecdsa"} : CertificateMode(id) = "expired"
  /\ \A id \in {"invalid_certificate_chain", "invalid_certificate_chain_tls12"} :
       CertificateMode(id) = "unknown_ca"
  /\ \A id \in {"hostname_mismatch", "hostname_mismatch_tls12"} :
       CertificateMode(id) = "hostname_mismatch"
  /\ \A id \in {"weak_rsa_key", "weak_rsa_key_tls12", "weak_rsa_no_forward_secrecy"} :
       CertificateMode(id) = "weak_rsa"
  /\ \A id \in {"expired_hostname_mismatch", "expired_invalid_chain",
                "invalid_chain_repeated_failures"} : CertificateMode(id) \notin {"expired", "valid"}
BY DEF CertificateMode

(* The scenarios that are shown, and the reason why.                       *)
LEMMA CertificateScenarios ==
  ASSUME NEW id \in DOMAIN ExpiredCertificates \cup DOMAIN BadCertificates,
         NEW protocol, NEW c, c = LabOf(id, protocol), NEW f, ShowsWhole(c, f)
  PROVE  ShowsExpected(id, f)
<1>1. id \notin Wordless
  BY Domains DEF Wordless
<1>2. PICK mode : mode = CertificateMode(id)
  OBVIOUS
<1>3. /\ (mode = "expired" => Raises("CERT-001", f))
      /\ (mode = "weak_rsa" => Raises("CERT-002", f))
      /\ (mode = "unknown_ca" => Raises("CERT-003", f))
      /\ (mode = "hostname_mismatch" => Raises("CERT-004", f))
  BY <1>1, <1>2, CertificateFound
<1>4. {"CERT-001", "CERT-002", "CERT-003", "CERT-004"} \subseteq FindingIds
  BY DEF FindingIds
<1>5. CASE id \in {"expired_certificate", "expired_certificate_tls12",
                   "expired_certificate_ecdsa"}
  <2>1. CATALOG[id].expected = {"CERT-001"} /\ mode = "expired"
    BY <1>2, <1>5, ModeTold, ExpiredCertificatesShow DEF Shows
  <2>2. QED
    BY <1>3, <1>4, <2>1, ShownBy
<1>6. CASE id \in {"invalid_certificate_chain", "invalid_certificate_chain_tls12"}
  <2>1. CATALOG[id].expected = {"CERT-003"} /\ mode = "unknown_ca"
    BY <1>2, <1>6, ModeTold, BadCertificatesShow DEF Shows
  <2>2. QED
    BY <1>3, <1>4, <2>1, ShownBy
<1>7. CASE id \in {"hostname_mismatch", "hostname_mismatch_tls12"}
  <2>1. CATALOG[id].expected = {"CERT-004"} /\ mode = "hostname_mismatch"
    BY <1>2, <1>7, ModeTold, BadCertificatesShow DEF Shows
  <2>2. QED
    BY <1>3, <1>4, <2>1, ShownBy
<1>8. CASE id \in {"weak_rsa_key", "weak_rsa_key_tls12"}
  <2>1. CATALOG[id].expected = {"CERT-002"} /\ mode = "weak_rsa"
    BY <1>2, <1>8, ModeTold, BadCertificatesShow DEF Shows
  <2>2. QED
    BY <1>3, <1>4, <2>1, ShownBy
<1>9. QED
  BY <1>5, <1>6, <1>7, <1>8, Domains

LEMMA NegotiationScenarios ==
  ASSUME NEW id \in {"deprecated_tls", "rsa_no_forward_secrecy",
                     "weak_rsa_no_forward_secrecy", "unexpected_tls_version"},
         NEW protocol, NEW c, c = LabOf(id, protocol), NEW f, ShowsWhole(c, f)
  PROVE  ShowsExpected(id, f)
<1>1. {"TLS-001", "FS-001", "CERT-002", "ANOM-003"} \subseteq FindingIds
  BY DEF FindingIds
<1>2. CASE id = "deprecated_tls"
  <2>1. CATALOG[id].expected = {"TLS-001", "FS-001"}
    BY <1>2, WeakTlsShow DEF Shows
  <2>2. Raises("TLS-001", f) /\ Raises("FS-001", f)
    BY <1>2, VersionFound, SecrecyFound
  <2>3. QED
    BY <1>1, <2>1, <2>2, ShownBy
<1>3. CASE id = "rsa_no_forward_secrecy"
  <2>1. CATALOG[id].expected = {"FS-001"}
    BY <1>3, WeakTlsShow DEF Shows
  <2>2. Raises("FS-001", f)
    BY <1>3, SecrecyFound
  <2>3. QED
    BY <1>1, <2>1, <2>2, ShownBy
<1>4. CASE id = "weak_rsa_no_forward_secrecy"
  <2>1. CATALOG[id].expected = {"CERT-002", "FS-001"}
    BY <1>4, CombinedWeaknessesShow DEF Shows
  <2>2. id \notin Wordless
    BY <1>4 DEF Wordless
  <2>3. Raises("CERT-002", f)
    BY <1>4, <2>2, ModeTold, CertificateFound
  <2>4. Raises("FS-001", f)
    BY <1>4, SecrecyFound
  <2>5. QED
    BY <1>1, <2>1, <2>3, <2>4, ShownBy
<1>5. CASE id = "unexpected_tls_version"
  <2>1. CATALOG[id].expected = {"ANOM-003"}
    BY <1>5, UnusualTlsShow DEF Shows
  <2>2. Raises("ANOM-003", f)
    BY <1>5, VersionFound
  <2>3. QED
    BY <1>1, <2>1, <2>2, ShownBy
<1>6. QED
  BY <1>2, <1>3, <1>4, <1>5

(* The scenarios that are not shown, and the finding that is missing.      *)
LEMMA UnshownScenarios ==
  ASSUME NEW id \in Unshown \ Wordless,
         NEW protocol, NEW c, c = LabOf(id, protocol), NEW f, ShowsWhole(c, f)
  PROVE  ~ShowsExpected(id, f)
<1>1. ~Raises("TLS-002", f) /\ ~Raises("ANOM-002", f)
  BY NoFamilyFound
<1>2. CASE id \in {"weak_cipher", "combined_critical_weaknesses"}
  <2>1. "TLS-002" \in CATALOG[id].expected
    BY <1>2, WeakTlsShow, CombinedWeaknessesShow DEF Shows
  <2>2. QED
    BY <1>1, <2>1, ShownBy
<1>3. CASE id \in ChaChaIds
  <2>1. "ANOM-002" \in CATALOG[id].expected
    BY <1>3, UnusualTlsShow DEF Shows, ChaChaIds
  <2>2. QED
    BY <1>1, <2>1, ShownBy
<1>4. CASE id \in {"expired_hostname_mismatch", "expired_invalid_chain"}
  <2>1. "CERT-001" \in CATALOG[id].expected
    BY <1>4, CombinedWeaknessesShow DEF Shows
  <2>2. CertificateMode(id) # "expired"
    BY <1>4, ModeTold
  <2>3. ~Raises("CERT-001", f)
    BY <2>2, CertificateFound
  <2>4. QED
    BY <2>1, <2>3, ShownBy
<1>5. CASE id = "invalid_chain_repeated_failures"
  <2>1. "ANOM-001" \in CATALOG[id].expected
    BY <1>5, ExpectedTold
  <2>2. id \notin LegacyIds /\ CertificateMode(id) # "valid"
    BY <1>5, ModeTold DEF LegacyIds
  <2>3. Rejected(c)
    BY <2>2, LabClient
  <2>4. f.handshake_failures \in {0, 1}
    BY <2>3, RejectedFeatures
  <2>5. ~Anom001(f)
    BY <2>4 DEF Anom001
  <2>6. QED
    BY <2>1, <2>5, ShownBy, Atoms2
<1>6. QED
  BY <1>2, <1>3, <1>4, <1>5 DEF Unshown, Wordless

LEMMA ScenariosSorted ==
  ASSUME NEW id \in ScenarioIds, id # "multiple_renegotiations"
  PROVE  \/ id \in Wordless \/ id \in Unshown \ Wordless
         \/ /\ id \notin Unshown /\ id \notin Wordless
            /\ \/ id \in DOMAIN NormalTls \cup DOMAIN NormalKeys
                  \cup DOMAIN ExpiringCertificates
               \/ id \in DOMAIN ExpiredCertificates \cup DOMAIN BadCertificates
               \/ id \in {"deprecated_tls", "rsa_no_forward_secrecy",
                          "weak_rsa_no_forward_secrecy", "unexpected_tls_version"}
<1>1. id \in DOMAIN NormalTls \cup DOMAIN NormalKeys \cup DOMAIN ExpiringCertificates =>
        id \notin Unshown /\ id \notin Wordless
  BY Domains DEF Unshown, ChaChaIds, Wordless
<1>2. id \in DOMAIN ExpiredCertificates \cup DOMAIN BadCertificates =>
        id \notin Unshown /\ id \notin Wordless
  BY Domains DEF Unshown, ChaChaIds, Wordless
<1>3. id \in {"deprecated_tls", "rsa_no_forward_secrecy",
              "weak_rsa_no_forward_secrecy", "unexpected_tls_version"} =>
        id \notin Unshown /\ id \notin Wordless
  BY DEF Unshown, ChaChaIds, Wordless
<1>4. id \in DOMAIN WeakTls \cup DOMAIN FailedHandshakes \cup DOMAIN UnusualTls
               \cup DOMAIN CombinedWeaknesses =>
        \/ id \in Wordless \/ id \in Unshown
        \/ id \in {"deprecated_tls", "rsa_no_forward_secrecy",
                   "weak_rsa_no_forward_secrecy", "unexpected_tls_version"}
  BY Domains DEF Unshown, ChaChaIds, Wordless
<1>5. QED
  BY <1>1, <1>2, <1>3, <1>4 DEF ScenarioIds

LEMMA LabShowsExpected ==
  ASSUME NEW id \in ScenarioIds, id # "multiple_renegotiations",
         NEW protocol, NEW c, c = LabOf(id, protocol), NEW f, ShowsWhole(c, f)
  PROVE  ShowsExpected(id, f) <=>
           ~ \/ id \in Unshown
             \/ id = "starttls_advertised_unused" /\ protocol = "POP3"
<1>1. CASE id \in Wordless
  <2>1. ShowsExpected(id, f) <=> id = "starttls_advertised_unused" /\ protocol # "POP3"
    BY <1>1, SilentScenarios
  <2>2. id \in Unshown <=> id # "starttls_advertised_unused"
    BY <1>1 DEF Wordless, Unshown, ChaChaIds
  <2>3. QED
    BY <2>1, <2>2
<1>2. CASE id \in Unshown \ Wordless
  BY <1>2, UnshownScenarios
<1>3. CASE /\ id \notin Unshown /\ id \notin Wordless
           /\ \/ id \in DOMAIN NormalTls \cup DOMAIN NormalKeys
                 \cup DOMAIN ExpiringCertificates
              \/ id \in DOMAIN ExpiredCertificates \cup DOMAIN BadCertificates
              \/ id \in {"deprecated_tls", "rsa_no_forward_secrecy",
                         "weak_rsa_no_forward_secrecy", "unexpected_tls_version"}
  <2>1. id # "starttls_advertised_unused"
    BY <1>3 DEF Wordless
  <2>2. ShowsExpected(id, f)
    BY <1>3, NothingExpected, CertificateScenarios,
          NegotiationScenarios DEF ShowsExpected
  <2>3. QED
    BY <1>3, <2>1, <2>2
<1>4. QED
  BY <1>1, <1>2, <1>3, ScenariosSorted

(* A lab run that is analysed was captured whole.                          *)
LEMMA LabIsWhole ==
  ASSUME IndInv, WireInv, verdict # {}, origin.source = "synthetic_pcap"
  PROVE  ShowsWhole(Connection, Record.features)
<1>1. session # {} /\ origin.connection # {}
  BY OriginHasKind DEF IndInv, TypeOK, WireInv
<1>2. WholeCapture
  BY <1>1 DEF WireInv, LabWhole, WholeCapture, FromWire
<1>3. /\ HandshakeShown(Record.features, Rows, Connection.protocol)
      /\ NegotiationShown(Record.features, Rows)
      /\ CertificateShown(Record.features, Rows, TRUE)
      /\ \E g, s : Whole(Connection, g, s, Rows)
  BY <1>2, WholeRecord
<1>4. QED
  BY <1>3 DEF ShowsWhole

(* Of every scenario the lab runs, on every protocol: its record has the   *)
(* findings the catalogue expects just when it is not one of those the     *)
(* lab's traffic cannot show (datasets/lab/scenarios.py, ml/pcap.py).      *)
THEOREM LabFindings == Spec => []LabFindsExpected
<1>1. ASSUME IndInv, WireInv PROVE LabFindsExpected
  <2> SUFFICES ASSUME verdict # {}, origin.source = "synthetic_pcap"
               PROVE  CATALOG[origin.scenario].expected \subseteq Findings <=>
                        ~ \/ origin.scenario \in Unshown
                          \/ /\ origin.scenario = "starttls_advertised_unused"
                             /\ Connection.protocol = "POP3"
    BY DEF LabFindsExpected
  <2> USE <1>1
  <2>1. PICK id \in ScenarioIds, protocol \in LabProtocols :
          /\ ~Profile(id, "SMTP").requires_renegotiation
          /\ origin.scenario = id
          /\ origin.connection = {LabConnection(Profile(id, protocol))}
    BY OriginListed DEF WireInv
  <2>2. id # "multiple_renegotiations"
    BY <2>1 DEF Profile
  <2>3. Connection = LabOf(id, protocol)
    BY <2>1 DEF Connection, LabOf
  <2>4. Connection.protocol = protocol
    BY <2>3, LabParts
  <2>5. ShowsWhole(Connection, Record.features)
    BY LabIsWhole
  <2>6. ShowsExpected(id, Record.features) <=>
          ~ \/ id \in Unshown
            \/ id = "starttls_advertised_unused" /\ protocol = "POP3"
    BY <2>2, <2>3, <2>5, LabShowsExpected
  <2>7. Findings = ExtractRuleFindings(Record.features)
    BY FindingsOfRecord
  <2>8. QED
    BY <2>1, <2>4, <2>6, <2>7 DEF ShowsExpected
<1>2. QED
  BY <1>1, Invariance, WireInvariance, PTL
============================================================================
