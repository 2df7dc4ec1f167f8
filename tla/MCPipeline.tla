----------------------------- MODULE MCPipeline -----------------------------
(***************************************************************************)
(* The pipeline over every scenario of the catalogue, in the generator and *)
(* in the lab, and over authorized connections that differ in all the      *)
(* extractor can tell apart.                                               *)
(***************************************************************************)
EXTENDS Pipeline, TLC

Good == [chain |-> TRUE, expired |-> FALSE, days |-> 200, mismatch |-> FALSE,
         key |-> "RSA", bits |-> 2048]
WeakKey == [Good EXCEPT !.bits = 1024]
Stale == [Good EXCEPT !.expired = TRUE, !.key = "EC", !.bits = 256]

Smtp ==
  [protocol |-> "SMTP", implicit |-> FALSE, advertises |-> TRUE,
   client |-> "completes", refuses |-> FALSE, dies |-> FALSE,
   version |-> "TLS1.3", suite |-> "TLS_AES_256_GCM_SHA384",
   certificate |-> Good, keys |-> FALSE, opaque |-> FALSE]
With(version, suite, c) == [c EXCEPT !.version = version, !.suite = suite]

Behaviours ==
  {Smtp, [Smtp EXCEPT !.client = "plain"], [Smtp EXCEPT !.client = "aborts"],
   [Smtp EXCEPT !.client = "rejects"], [Smtp EXCEPT !.refuses = TRUE],
   [Smtp EXCEPT !.dies = TRUE], [Smtp EXCEPT !.implicit = TRUE],
   [Smtp EXCEPT !.protocol = "POP3"], [Smtp EXCEPT !.advertises = FALSE]}
Negotiations ==
  {<<"TLS1.3", "TLS_AES_256_GCM_SHA384">>,
   <<"TLS1.3", "TLS_CHACHA20_POLY1305_SHA256">>,
   <<"TLS1.2", "TLS_ECDHE_RSA_WITH_AES_128_GCM_SHA256">>,
   <<"TLS1.2", "TLS_ECDHE_ECDSA_WITH_AES_128_GCM_SHA256">>,
   <<"TLS1.2", "TLS_RSA_WITH_AES_128_GCM_SHA256">>,
   <<"TLS1.2", "TLS_RSA_WITH_3DES_EDE_CBC_SHA">>,
   <<"TLS1.0", "TLS_RSA_WITH_AES_128_CBC_SHA">>}

MCConnections ==
  {With(n[1], n[2], b) : n \in Negotiations, b \in Behaviours}
    \cup {[With(n[1], n[2], Smtp) EXCEPT !.certificate = c] :
            n \in Negotiations, c \in {WeakKey, Stale}}
    \cup {[With("TLS1.3", "TLS_AES_256_GCM_SHA384", b) EXCEPT !.opaque = TRUE] :
            b \in Behaviours}

Weights(a, b, c, d, e) ==
  [l \in RISK_SEVERITY_ORDER |->
     CASE l = 0 -> a [] l = 1 -> b [] l = 2 -> c [] l = 3 -> d [] l = 4 -> e]
MCOutputs ==
  {[xgboost |-> x, random_forest |-> r, isolation |-> i] :
     x \in {Weights(4, 0, 0, 0, 0), Weights(0, 1, 0, 2, 1)},
     r \in {Weights(4, 0, 0, 0, 0), Weights(0, 0, 2, 2, 0)}, i \in {{}, {1}, {3}}}

Identity == [l \in RISK_SEVERITY_ORDER |-> [w \in 0..4 |-> w]]
Zero == [l \in RISK_SEVERITY_ORDER |-> [w \in 0..4 |-> 0]]
Step == [l \in RISK_SEVERITY_ORDER |-> [w \in 0..4 |-> IF w >= 2 THEN 1 ELSE 0]]
Calibration(calibrators, low, high) ==
  [xgboost |-> calibrators, random_forest |-> calibrators]
    @@ CalibrateAnomaly(low, high, 2)
MCCalibrations ==
  {Calibration(Identity, 0, 4), Calibration(Zero, 2, 2), Calibration(Step, 0, 4)}

MCConfigs == {[xgboost |-> 1, random_forest |-> 1]}
=============================================================================
