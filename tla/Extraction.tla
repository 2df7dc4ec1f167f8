----------------------------- MODULE Extraction -----------------------------
(***************************************************************************)
(* The passive extractor (ml/pcap.py): the packets captured of one TCP     *)
(* stream, in frame order, become a session record.                        *)
(***************************************************************************)
EXTENDS Session, MailTls

HasHandshakeType(rows, type) == \E i \in DOMAIN rows : type \in rows[i].types

ClientHandshakeSucceeded(rows) ==
  /\ HasHandshakeType(rows, ServerHello)
  /\ \E i \in DOMAIN rows : rows[i].from = "client" /\ Finished \in rows[i].types

(* rows[i].fatal: the alert level of the row is exactly "2".               *)
FatalAlerts(rows) == {i \in DOMAIN rows : rows[i].fatal}
ApplicationDataFrames(rows) ==
  {i \in DOMAIN rows : ApplicationData \in rows[i].records}
ChangesCipher(rows, who) ==
  \E i \in DOMAIN rows : rows[i].from = who /\ ChangeCipherSpec \in rows[i].records

(* A mutant of the next: the server's ChangeCipherSpec is enough.          *)
HandshakeSuccessEarly(rows) ==
  /\ HasHandshakeType(rows, ServerHello)
  /\ \/ \E d \in ApplicationDataFrames(rows) : \A a \in FatalAlerts(rows) : d < a
     \/ FatalAlerts(rows) = {} /\ ChangesCipher(rows, "server")

HandshakeSuccess(rows) ==
  \/ ClientHandshakeSucceeded(rows)
  \/ /\ HasHandshakeType(rows, ServerHello)
     /\ \/ \E d \in ApplicationDataFrames(rows) :
             \A a \in FatalAlerts(rows) : d < a
        \/ /\ FatalAlerts(rows) = {}
           /\ ChangesCipher(rows, "client") /\ ChangesCipher(rows, "server")

(* A mutant of the next: only alerts that follow a ServerHello count.      *)
HandshakeFailuresAfterHello(rows) ==
  IF HandshakeSuccess(rows) \/ ~HasHandshakeType(rows, ServerHello) THEN 0
  ELSE Cardinality(FatalAlerts(rows))

HandshakeFailures(rows) ==
  IF HandshakeSuccess(rows) THEN 0 ELSE Cardinality(FatalAlerts(rows))

(* The first value a field shows, None if no row shows it.                 *)
FirstHello(rows) ==
  {h \in UNION {rows[i].hello : i \in DOMAIN rows} :
     \E i \in DOMAIN rows : h \in rows[i].hello /\ \A j \in 1..i - 1 : rows[j].hello = {}}
FirstCertificate(rows) ==
  {c \in UNION {rows[i].certificate : i \in DOMAIN rows} :
     \E i \in DOMAIN rows :
       c \in rows[i].certificate /\ \A j \in 1..i - 1 : rows[j].certificate = {}}

(* _CIPHER_SUITE: a code that is not in the table has a name of its own.   *)
CipherSuites ==
  {"TLS_RSA_WITH_3DES_EDE_CBC_SHA", "TLS_RSA_WITH_AES_128_CBC_SHA",
   "TLS_RSA_WITH_AES_256_CBC_SHA", "TLS_AES_128_GCM_SHA256",
   "TLS_AES_256_GCM_SHA384", "TLS_CHACHA20_POLY1305_SHA256",
   "TLS_ECDHE_RSA_WITH_AES_128_GCM_SHA256",
   "TLS_ECDHE_RSA_WITH_AES_256_GCM_SHA384"}
CipherSuite(suite) == IF suite \in CipherSuites THEN suite ELSE "TLS_code"

(* Found in the name of the suite; 3DES names itself CBC.                  *)
CipherFamily(name) ==
  CASE name = "TLS_CHACHA20_POLY1305_SHA256" -> "CHACHA20-POLY1305"
    [] name \in {"TLS_AES_128_GCM_SHA256", "TLS_AES_256_GCM_SHA384",
                 "TLS_ECDHE_RSA_WITH_AES_128_GCM_SHA256",
                 "TLS_ECDHE_RSA_WITH_AES_256_GCM_SHA384"} -> "AES-GCM"
    [] name \in {"TLS_RSA_WITH_3DES_EDE_CBC_SHA", "TLS_RSA_WITH_AES_128_CBC_SHA",
                 "TLS_RSA_WITH_AES_256_CBC_SHA"} -> "AES-CBC"
    [] OTHER -> "UNKNOWN"

(* A mutant of the next: CBC suites are taken for ECDHE.                   *)
KeyExchangeByFamily(version, name) ==
  IF version = "TLS1.3" \/ CipherFamily(name) \in {"AES-GCM", "AES-CBC"}
  THEN "ECDHE" ELSE "UNKNOWN"

KeyExchange(version, name) ==
  IF \/ version = "TLS1.3"
     \/ name \in {"TLS_ECDHE_RSA_WITH_AES_128_GCM_SHA256",
                  "TLS_ECDHE_RSA_WITH_AES_256_GCM_SHA384"} THEN "ECDHE"
  ELSE IF CipherFamily(name) = "AES-CBC" THEN "RSA"
  ELSE "UNKNOWN"

PostureRating(version, name, exchange) ==
  IF version \in {"TLS1.0", "TLS1.1"} \/ name = "TLS_RSA_WITH_3DES_EDE_CBC_SHA"
  THEN "Deprecated"
  ELSE IF exchange # "ECDHE" THEN "Weak"
  ELSE IF version = "TLS1.3" \/ CipherFamily(name) \in {"AES-GCM", "CHACHA20-POLY1305"}
  THEN "Strong" ELSE "Adequate"

(* A mutant of the next: no signature algorithm when its code is unknown.  *)
NegotiatedTlsUnsigned(f, hello) ==
  LET name == CipherSuite(hello.suite)
      exchange == KeyExchange(hello.version, name)
  IN [f EXCEPT !.tls_version = {hello.version}, !.cipher_suite = {name},
               !.cipher_family = {CipherFamily(name)},
               !.key_exchange = {exchange}, !.forward_secrecy = {exchange = "ECDHE"}]

NegotiatedTls(f, hello) ==
  LET name == CipherSuite(hello.suite)
      exchange == KeyExchange(hello.version, name)
  IN [f EXCEPT !.tls_version = {hello.version}, !.cipher_suite = {name},
               !.cipher_family = {CipherFamily(name)},
               !.key_exchange = {exchange}, !.signature_algorithm = {"UNKNOWN"},
               !.forward_secrecy = {exchange = "ECDHE"}]

(* _openssl_certificate_metadata: the leaf's dates, key and signature.     *)
CertificateMetadataOf(f, c) ==
  [f EXCEPT !.cert_present = {TRUE}, !.cert_expired = {c.expired},
            !.cert_expires_in_days = {IF c.expired THEN -1 ELSE c.days},
            !.cert_key_algorithm = {IF c.key = "RSA" THEN "RSA" ELSE "UNKNOWN"},
            !.cert_key_length_bits = {c.bits},
            !.cert_signature_algorithm = {"SHA256-RSA"}]

(* _trusted_certificate_fields: only with a trusted CA and a host name; an *)
(* expired certificate does not verify.                                    *)
TrustedCertificateFields(f, c, trusted) ==
  IF ~trusted THEN f
  ELSE LET verified == c.chain /\ ~c.expired
       IN [f EXCEPT !.cert_chain_valid = {verified},
                    !.hostname_mismatch = {c.mismatch},
                    !.cert_valid = {verified /\ ~c.mismatch /\ ~c.expired}]

ExtractFeatures(rows, protocol, trusted) ==
  LET starttls == \E i \in DOMAIN rows : rows[i].text
      plain == [NoTls EXCEPT
        !.protocol = protocol, !.starttls_advertised = starttls,
        !.starttls_used = starttls /\ HasHandshakeType(rows, ClientHello),
        !.handshake_success = HandshakeSuccess(rows),
        !.handshake_failures = HandshakeFailures(rows)]
      tls == IF HandshakeSuccess(rows)
             THEN NegotiatedTls(plain, CHOOSE h \in FirstHello(rows) : TRUE)
             ELSE plain
  IN IF FirstCertificate(rows) = {} THEN tls
     ELSE LET c == CHOOSE c \in FirstCertificate(rows) : TRUE
          IN TrustedCertificateFields(CertificateMetadataOf(tls, c), c, trusted)

(* The TShark fields every extracted record names as its evidence.         *)
PcapFields ==
  {"tcp.stream", "tcp.payload", "tls.handshake.type",
   "tls.handshake.extensions.supported_version", "tls.handshake.ciphersuite",
   "tls.handshake.certificate", "tls.record.content_type",
   "tls.alert_message.level"}

(* The labels of an authorized capture are forced; a lab session takes     *)
(* those of its scenario.                                                  *)
ExtractSession(rows, source, id, environment, protocol, labels, trusted) ==
  [features |-> ExtractFeatures(rows, protocol, trusted),
   provenance |->
     [source_type |-> source, scenario_id |-> id, environment_id |-> environment,
      parameter_hash |-> IF source = "synthetic_pcap" THEN {id} ELSE {},
      generator_seed |-> IF source = "synthetic_pcap" THEN {0} ELSE {},
      evidence_refs |-> {[source |-> "pcap", fields |-> PcapFields,
                          packets |-> {[start |-> 1, end |-> Len(rows)]}]}],
   labels |-> IF source = "authorized_capture"
              THEN [risk |-> Informational, anomaly |-> 0, expected |-> {}]
              ELSE labels]

(* A stream without a packet to the mail port yields no record.            *)
Extractable(rows) == \E i \in DOMAIN rows : rows[i].from = "client"
=============================================================================
