------------------------------ MODULE MailTls ------------------------------
(***************************************************************************)
(* What is on the wire and what TShark shows of it: the packets of one     *)
(* mail connection that upgrades to TLS, as the extractor (ml/pcap.py) can *)
(* read them.  None of this is code of the repository; it is modelled from *)
(* the fields the extractor asks TShark for.                               *)
(*                                                                         *)
(* A connection c is a record:                                             *)
(*   protocol, implicit (TLS from the first byte, as on port 993),         *)
(*   advertises (the server offers STARTTLS in plaintext),                 *)
(*   client: "plain" (never asks for TLS), "aborts" (hangs up once the     *)
(*     server agreed), "rejects" (refuses the certificate) or "completes", *)
(*   refuses (the server answers the ClientHello with a fatal alert),      *)
(*   dies (a fatal alert ends the connection after its data),              *)
(*   version, suite, certificate: what the server chooses and presents,    *)
(*   keys (a TLS key log lies beside the capture), opaque (TShark gives    *)
(*     the encrypted records of TLS 1.3 content type 23).                  *)
(***************************************************************************)
EXTENDS Integers, Sequences

ClientHello == 1
ServerHello == 2
Certificate == 11
ClientKeyExchange == 16
Finished == 20
ChangeCipherSpec == 20
Alert == 21
Handshake == 22
ApplicationData == 23

Packet(from, types, records) ==
  [from |-> from, text |-> FALSE, types |-> types, records |-> records,
   fatal |-> FALSE, hello |-> {}, certificate |-> {}]

Text(from, starttls) == [Packet(from, {}, {}) EXCEPT !.text = starttls]

(* An alert that TShark can read, or an encrypted record.                  *)
FatalAlert(from, visible, c) ==
  IF visible THEN [Packet(from, {}, {Alert}) EXCEPT !.fatal = TRUE]
  ELSE Packet(from, {}, IF c.version # "TLS1.3" THEN {Alert}
                        ELSE IF c.opaque THEN {ApplicationData} ELSE {})

Encrypted(c) ==
  IF c.version # "TLS1.3" THEN {Handshake}
  ELSE IF c.keys THEN {Handshake} ELSE IF c.opaque THEN {ApplicationData} ELSE {}

Greeting(c) ==
  IF c.implicit THEN <<>>
  ELSE << Text("server", c.advertises),
          Text("client", c.client # "plain" /\ c.protocol # "POP3") >>

ServerFlight(c) ==
  IF c.version = "TLS1.3"
  THEN [Packet("server",
               {ServerHello} \cup IF c.keys THEN {Certificate, Finished} ELSE {},
               {Handshake, ChangeCipherSpec} \cup Encrypted(c))
          EXCEPT !.hello = {c}, !.certificate = IF c.keys THEN {c.certificate} ELSE {}]
  ELSE [Packet("server", {ServerHello, Certificate}, {Handshake})
          EXCEPT !.hello = {c}, !.certificate = {c.certificate}]

(* The client's last flight: with it the client has finished.              *)
ClientFlight(c) ==
  Packet("client",
         (IF c.version = "TLS1.3" THEN {} ELSE {ClientKeyExchange})
           \cup (IF c.keys THEN {Finished} ELSE {}),
         {ChangeCipherSpec} \cup Encrypted(c))

Data(from, c) ==
  Packet(from, {}, IF c.version # "TLS1.3" \/ c.keys \/ c.opaque
                   THEN {ApplicationData} ELSE {})

Established(c) ==
  << ClientFlight(c) >>
  \o (IF c.version = "TLS1.3" THEN <<>>
      ELSE << Packet("server", IF c.keys THEN {Finished} ELSE {},
                     {ChangeCipherSpec, Handshake}) >>)
  \o << Data("client", c), Data("server", c) >>
  \o (IF c.dies THEN << FatalAlert("server", c.keys, c) >> ELSE <<>>)

(* The packets of connection c, in order.                                  *)
Packets(c) ==
  Greeting(c) \o
  IF c.client \in {"plain", "aborts"} THEN <<>>
  ELSE << Packet("client", {ClientHello}, {Handshake}) >> \o
    IF c.refuses THEN << FatalAlert("server", TRUE, c) >>
    ELSE << ServerFlight(c) >> \o
      IF c.client = "rejects"
      THEN << FatalAlert("client", c.version # "TLS1.3" \/ c.keys, c) >>
      ELSE Established(c)

(* The client has sent its Finished within the first n packets.            *)
ClientFinished(c, n) ==
  \E i \in 1..n : Packets(c)[i] = ClientFlight(c)

ForwardSecret(c) ==
  c.suite \notin {"TLS_RSA_WITH_3DES_EDE_CBC_SHA", "TLS_RSA_WITH_AES_128_CBC_SHA",
                  "TLS_RSA_WITH_AES_256_CBC_SHA", "TLS_RSA_WITH_AES_128_GCM_SHA256"}
=============================================================================
