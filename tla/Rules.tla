------------------------------- MODULE Rules -------------------------------
(***************************************************************************)
(* The deterministic rules (ml/rules.py), the catalogue of rules the API   *)
(* shows (api/routes.py) and the dashboard's posture of a session          *)
(* (api/schemas.py), which repeats some of the thresholds of the rules.    *)
(***************************************************************************)
EXTENDS Session

FindingIds ==
  {"TLS-001", "TLS-002", "FS-001", "CERT-001", "CERT-002", "CERT-003",
   "CERT-004", "CRIT-001", "STLS-001", "STLS-002", "ANOM-001", "ANOM-002",
   "ANOM-003", "ANOM-004"}

Severity(id) ==
  CASE id \in {"TLS-001", "TLS-002", "CRIT-001"} -> Critical
    [] id \in {"ANOM-002", "ANOM-003"} -> Medium
    [] OTHER -> High

Deprecated == {"TLS1.0", "TLS1.1"}
Broken == {"3DES", "RC4"}

(* The length that is short for a key of RSA.                              *)
HasShortKey(f) == \E bits \in f.cert_key_length_bits : bits < 2048

(* Rule id raises a finding on features f.                                 *)
Raises(id, f) ==
  \/ id = "TLS-001" /\ f.tls_version \cap Deprecated # {}
  \/ id = "TLS-002" /\ f.cipher_family \cap Broken # {}
  \/ id = "FS-001" /\ f.handshake_success /\ f.forward_secrecy = {FALSE}
  \/ id = "CERT-001" /\ f.cert_expired = {TRUE}
  \/ id = "CERT-002" /\ f.cert_key_algorithm = {"RSA"}
                     /\ HasShortKey(f)
  \/ id = "CERT-003" /\ f.cert_chain_valid = {FALSE}
  \/ id = "CRIT-001" /\ f.cert_chain_valid = {FALSE} /\ f.handshake_failures >= 3
  \/ id = "CERT-004" /\ f.hostname_mismatch = {TRUE}
  \/ id = "STLS-001" /\ f.starttls_advertised /\ ~f.starttls_used
  \/ id = "STLS-002" /\ f.starttls_used /\ ~f.handshake_success
                     /\ f.handshake_failures > 0
  \/ id = "ANOM-001" /\ f.handshake_failures >= 3
  \/ id = "ANOM-002" /\ f.cipher_family \cap {"RC4", "CHACHA20-POLY1305"} # {}
  \/ id = "ANOM-003" /\ f.tls_version = {"TLS1.1"}
  \/ id = "ANOM-004" /\ f.renegotiation_count >= 2

ExtractRuleFindings(f) == {id \in FindingIds : Raises(id, f)}

(* The features a finding rests on.                                        *)
FieldsOf(id) ==
  CASE id \in {"TLS-001", "ANOM-003"} -> {"tls_version"}
    [] id \in {"TLS-002", "ANOM-002"} -> {"cipher_suite", "cipher_family"}
    [] id = "FS-001" -> {"key_exchange", "forward_secrecy"}
    [] id = "CERT-001" -> {"cert_expired", "cert_expires_in_days"}
    [] id = "CERT-002" -> {"cert_key_algorithm", "cert_key_length_bits"}
    [] id = "CERT-003" -> {"cert_chain_valid"}
    [] id = "CRIT-001" -> {"cert_chain_valid", "handshake_failures"}
    [] id = "CERT-004" -> {"hostname_mismatch"}
    [] id = "STLS-001" -> {"starttls_advertised", "starttls_used"}
    [] id = "STLS-002" -> {"starttls_used", "handshake_success",
                           "handshake_failures"}
    [] id = "ANOM-001" -> {"handshake_failures"}
    [] OTHER -> {"renegotiation_count"}

(* The sources a finding cites: the references that share a field with it, *)
(* else the scenario the record names.                                     *)
Evidence(id, provenance) ==
  LET refs == {e \in provenance.evidence_refs : FieldsOf(id) \cap e.fields # {}}
  IN IF refs # {} THEN {e.source : e \in refs} ELSE {"scenario"}

(* A mutant of the next: an untrusted chain is no weakness.                *)
PostureUnchained(f) ==
  IF ~f.handshake_success /\ f.handshake_failures > 0 THEN "handshake_failed"
  ELSE IF \/ f.tls_version \cap Deprecated # {}
          \/ f.cipher_family \cap Broken # {} THEN "deprecated"
  ELSE IF \/ f.cert_expired = {TRUE}
          \/ f.hostname_mismatch = {TRUE}
          \/ f.forward_secrecy = {FALSE}
          \/ HasShortKey(f) THEN "weak"
  ELSE IF f.tls_version = {"TLS1.3"} THEN "modern"
  ELSE IF f.tls_version = {"TLS1.2"} THEN "adequate"
  ELSE "unknown"

(* The bucket the dashboard shows; a key is weak below 2048 bits whatever  *)
(* its algorithm.                                                          *)
CryptographicPosture(f) ==
  IF ~f.handshake_success /\ f.handshake_failures > 0 THEN "handshake_failed"
  ELSE IF \/ f.tls_version \cap Deprecated # {}
          \/ f.cipher_family \cap Broken # {} THEN "deprecated"
  ELSE IF \/ f.cert_expired = {TRUE}
          \/ f.hostname_mismatch = {TRUE}
          \/ f.cert_chain_valid = {FALSE}
          \/ f.forward_secrecy = {FALSE}
          \/ HasShortKey(f) THEN "weak"
  ELSE IF f.tls_version = {"TLS1.3"} THEN "modern"
  ELSE IF f.tls_version = {"TLS1.2"} THEN "adequate"
  ELSE "unknown"
=============================================================================
