---------------------------- MODULE LabProfiles ----------------------------
(***************************************************************************)
(* The mail lab's runtime profiles (datasets/lab/scenarios.py) and the     *)
(* connection that the lab's client and server make of one                 *)
(* (datasets/lab/client.py, server.py): what a scenario looks like on the  *)
(* wire, as against the record the catalogue gives it.                     *)
(***************************************************************************)
EXTENDS Scenarios, MailTls

ChaChaIds ==
  {"unusual_cipher_negotiation", "uncommon_chacha20_negotiation",
   "uncommon_chacha20_ecdsa", "unusual_chacha20_rsa4096"}
RsaIds ==
  {"deprecated_tls", "weak_cipher", "rsa_no_forward_secrecy",
   "combined_critical_weaknesses", "weak_rsa_no_forward_secrecy"}
LegacyIds ==
  {"weak_rsa_key", "weak_rsa_key_tls12", "expired_certificate",
   "expired_certificate_tls12", "expired_certificate_ecdsa", "deprecated_tls",
   "weak_cipher", "rsa_no_forward_secrecy", "weak_rsa_no_forward_secrecy",
   "expired_hostname_mismatch", "expired_invalid_chain",
   "combined_critical_weaknesses"}

(* _CERTIFICATE_MODE                                                       *)
CertificateMode(id) ==
  CASE id \in {"expired_certificate", "expired_certificate_tls12",
               "expired_certificate_ecdsa"} -> "expired"
    [] id \in {"deprecated_tls", "weak_cipher", "invalid_certificate_chain",
               "invalid_certificate_chain_tls12", "combined_critical_weaknesses",
               "invalid_chain_repeated_failures", "expired_invalid_chain"} ->
         "unknown_ca"
    [] id \in {"hostname_mismatch", "hostname_mismatch_tls12",
               "expired_hostname_mismatch"} -> "hostname_mismatch"
    [] id \in {"weak_rsa_key", "weak_rsa_key_tls12",
               "weak_rsa_no_forward_secrecy"} -> "weak_rsa"
    [] OTHER -> "valid"

CertificateValidityDays(id) ==
  CASE id = "certificate_expires_soon" -> 7
    [] id = "certificate_expiry_warning" -> 30
    [] id = "certificate_expiry_advisory" -> 90
    [] OTHER -> 365

(* resolve_runtime_profile with the overrides of _PROFILE_OVERRIDES.       *)
Profile(id, protocol) ==
  [id |-> id, protocol |-> protocol,
   client_mode |->
     CASE id = "starttls_advertised_unused" -> "unused_starttls"
       [] id \in {"starttls_handshake_failure", "repeated_handshake_failures"} ->
            "abort_starttls"
       [] OTHER -> "starttls",
   version |-> IF id \in ChaChaIds THEN "TLS1.2" ELSE CATALOG[id].version,
   ciphers |-> IF id \in ChaChaIds THEN "chacha20"
               ELSE IF id \in RsaIds THEN "rsa" ELSE "default",
   certificate_mode |-> CertificateMode(id),
   validity_days |-> CertificateValidityDays(id),
   connection_count |->
     IF id \in {"repeated_handshake_failures", "invalid_chain_repeated_failures",
                "combined_critical_weaknesses"} THEN 3 ELSE 1,
   requires_renegotiation |-> id = "multiple_renegotiations",
   service |-> IF id \in LegacyIds THEN "legacy-lab" ELSE "mail-core"]

(* provision_certificates: an RSA key, whatever the scenario's name says.  *)
ProvisionCertificate(p) ==
  [chain |-> p.certificate_mode # "unknown_ca",
   expired |-> p.certificate_mode = "expired", days |-> p.validity_days,
   mismatch |-> p.certificate_mode = "hostname_mismatch", key |-> "RSA",
   bits |-> IF p.certificate_mode = "weak_rsa" THEN 1024 ELSE 2048]

NegotiatedSuite(p) ==
  CASE p.version = "TLS1.3" -> "TLS_AES_256_GCM_SHA384"
    [] p.version # "TLS1.3" /\ p.ciphers = "rsa" -> "TLS_RSA_WITH_AES_128_CBC_SHA"
    [] p.version # "TLS1.3" /\ p.ciphers = "chacha20" ->
         "TLS_ECDHE_RSA_WITH_CHACHA20_POLY1305_SHA256"
    [] p.version = "TLS1.2" /\ p.ciphers = "default" ->
         "TLS_ECDHE_RSA_WITH_AES_256_GCM_SHA384"
    [] OTHER -> "TLS_ECDHE_RSA_WITH_AES_256_CBC_SHA"

(* A mutant of the next: the client writes no key log.                     *)
LabConnectionUnlogged(p) ==
  [protocol |-> p.protocol, implicit |-> FALSE, advertises |-> p.protocol # "POP3",
   client |->
     CASE p.client_mode = "unused_starttls" -> "plain"
       [] p.client_mode = "abort_starttls" -> "aborts"
       [] OTHER -> IF p.service = "mail-core" /\ p.certificate_mode # "valid"
                   THEN "rejects" ELSE "completes",
   refuses |-> FALSE, dies |-> FALSE, version |-> p.version,
   suite |-> NegotiatedSuite(p), certificate |-> ProvisionCertificate(p),
   keys |-> FALSE, opaque |-> FALSE]

(* The client verifies, and gives up on, a certificate of mail-core only;  *)
(* it writes a key log unless openssl s_client stands in for it.           *)
LabConnection(p) ==
  [protocol |-> p.protocol, implicit |-> FALSE, advertises |-> p.protocol # "POP3",
   client |->
     CASE p.client_mode = "unused_starttls" -> "plain"
       [] p.client_mode = "abort_starttls" -> "aborts"
       [] OTHER -> IF p.service = "mail-core" /\ p.certificate_mode # "valid"
                   THEN "rejects" ELSE "completes",
   refuses |-> FALSE, dies |-> FALSE, version |-> p.version,
   suite |-> NegotiatedSuite(p), certificate |-> ProvisionCertificate(p),
   keys |-> p.service = "mail-core" \/ p.version = "TLS1.3", opaque |-> FALSE]

LabLabels(id) ==
  [risk |-> CATALOG[id].risk, anomaly |-> CATALOG[id].anomaly,
   expected |-> CATALOG[id].expected]
=============================================================================
