----------------------------- MODULE Attestation -----------------------------
(***************************************************************************)
(* What the client demands of an agent before it talks to it               *)
(* (dd-client-core lib.rs: fetch_and_verify_server_pubkey and what it      *)
(* calls; ita.rs: Verifier; dd-client-cli main.rs: connection_options).    *)
(*                                                                         *)
(* A token, a health document and the command line are records of what     *)
(* these functions look at.  An absent string is "".  A claim about a key  *)
(* names the agent whose key it is.                                        *)
(***************************************************************************)
EXTENDS Integers

CONSTANTS Issuer,       \* the issuer the client is configured for
          Now           \* the time of the check, in seconds

AllowedAlgs == {"RS256", "RS384", "RS512", "ES256", "ES384",
                "PS256", "PS384", "PS512", "EdDSA"}
Leeway == 120

Lower(mrtd) == IF mrtd = "AA" THEN "aa" ELSE mrtd

(* The options a command line gives: pins are trimmed, lowered, and empty  *)
(* ones dropped.                                                           *)
ConnectionOptions(args) ==
  [skip |-> args.insecure_skip_quote_verify,
   expected_mrtds |-> {Lower(m) : m \in args.expected_mrtd} \ {""},
   expected_tcb |-> args.expected_tcb]

-----------------------------------------------------------------------------
(***************************************************************************)
(* Verifier::verify.  The verifier is new for each connection, so the      *)
(* first lookup misses and refresh fetches the keys: jwks, the ids of the  *)
(* keys it could use, none if the fetch failed.                            *)
(***************************************************************************)
TokenVerifies(token, jwks) ==
  /\ token.alg \in AllowedAlgs
  /\ token.kid \in jwks \ {""}
  /\ token.signed_by = token.kid
  /\ token.iss = Issuer
  /\ token.exp >= Now - Leeway

(* verify_report_data: 32 bytes, or 64 whose rest is zero.                 *)
BindsKey(report, key) ==
  /\ report.encoding \in {"hex", "0x hex", "base64"}
  /\ report.bytes = 32 \/ (report.bytes = 64 /\ report.rest_zero)
  /\ report.key = key

(* verify_measurement: the TCB status counts only beside a pin.            *)
MeasurementAccepted(token, config) ==
  \/ config.expected_mrtds = {}
  \/ /\ Lower(token.mrtd) \in config.expected_mrtds
     /\ config.expected_tcb \in {"", token.tcb_status}

QuoteBound_AnyKey(health, jwks, config) ==
  \/ config.skip
  \/ \E token \in health.ita_token :
       TokenVerifies(token, jwks) /\ MeasurementAccepted(token, config)

(* verify_quote_binding, for the key that health served with the token.    *)
QuoteBound(health, jwks, config) ==
  \/ config.skip
  \/ \E token \in health.ita_token :
       /\ TokenVerifies(token, jwks)
       /\ BindsKey(token.report_data, health.key)
       /\ MeasurementAccepted(token, config)

(* fetch_and_verify_server_pubkey.                                         *)
ServerKeyVerified(health, jwks, config) ==
  health.ok /\ health.key_bytes = 32 /\ QuoteBound(health, jwks, config)
=============================================================================
