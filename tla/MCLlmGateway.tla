---------------------------- MODULE MCLlmGateway ----------------------------
(* Two sessions, a primary and a fallback provider, circuits that open after  *)
(* two failures, and a budget that two calls can exceed.                      *)
EXTENDS LlmGateway
=============================================================================
