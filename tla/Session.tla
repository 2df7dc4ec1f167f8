------------------------------ MODULE Session ------------------------------
(***************************************************************************)
(* The contract of a mail session, session-features.v1 (ml/schema.py): the *)
(* features a session carries, where they come from, and what the          *)
(* validators refuse.                                                      *)
(*                                                                         *)
(* An optional field is a set of at most one value: {} is None.  A risk    *)
(* label is its place in RISK_SEVERITY_ORDER.  Ports, durations and counts *)
(* of packets are left out: no rule, label or verdict depends on them.     *)
(***************************************************************************)
EXTENDS Integers, FiniteSets

Protocol == {"SMTP", "IMAP", "POP3"}
SourceType == {"synthetic_feature", "synthetic_pcap", "authorized_capture"}

Informational == 0
Low == 1
Medium == 2
High == 3
Critical == 4
RISK_SEVERITY_ORDER == Informational..Critical

(* The features of a handshake that did not complete, without certificate. *)
NoTls ==
  [protocol |-> "SMTP", starttls_advertised |-> FALSE,
   starttls_used |-> FALSE, handshake_success |-> FALSE,
   handshake_failures |-> 0, renegotiation_count |-> 0,
   tls_version |-> {}, cipher_suite |-> {}, cipher_family |-> {},
   key_exchange |-> {}, signature_algorithm |-> {}, forward_secrecy |-> {},
   cert_present |-> {FALSE}, cert_valid |-> {}, cert_expired |-> {},
   cert_expires_in_days |-> {}, cert_chain_valid |-> {},
   hostname_mismatch |-> {}, cert_key_algorithm |-> {},
   cert_key_length_bits |-> {}, cert_signature_algorithm |-> {}]

TlsFields == {"tls_version", "cipher_suite", "cipher_family", "key_exchange",
              "signature_algorithm", "forward_secrecy"}
CertificateMetadata ==
  {"cert_valid", "cert_expired", "cert_expires_in_days", "cert_chain_valid",
   "hostname_mismatch", "cert_key_algorithm", "cert_key_length_bits",
   "cert_signature_algorithm"}

(* The negotiated fields are all there, or none is, as the handshake went. *)
ValidateTlsFields(f) ==
  \A field \in TlsFields : f.handshake_success <=> f[field] # {}

ValidateCertificateFields(f) ==
  /\ f.cert_present # {TRUE} => \A field \in CertificateMetadata : f[field] = {}
  /\ ~(f.cert_expired = {TRUE} /\ f.cert_valid = {TRUE})

(* An evidence reference: its source, the packets it spans and its fields. *)
ValidatePacketRange(e) ==
  /\ \A r \in e.packets : r.start <= r.end
  /\ e.source = "pcap" => e.packets # {}
  /\ e.fields # {}

ValidateGeneratedSeed(p) ==
  LET generated == {"synthetic_feature", "synthetic_pcap"}
      fromScenario == \E e \in p.evidence_refs : e.source = "scenario"
      fromPcap == \E e \in p.evidence_refs : e.source = "pcap"
  IN /\ p.source_type \in generated <=> p.generator_seed # {}
     /\ p.source_type = "synthetic_pcap" => p.parameter_hash # {}
     /\ p.source_type = "synthetic_feature" => fromScenario
     /\ p.source_type \in {"synthetic_pcap", "authorized_capture"} => fromPcap

ValidateSession(record) ==
  /\ ValidateTlsFields(record.features)
  /\ ValidateCertificateFields(record.features)
  /\ \A e \in record.provenance.evidence_refs : ValidatePacketRange(e)
  /\ record.provenance.evidence_refs # {}
  /\ ValidateGeneratedSeed(record.provenance)
=============================================================================
