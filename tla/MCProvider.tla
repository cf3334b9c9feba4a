----------------------------- MODULE MCProvider -----------------------------
(***************************************************************************)
(* The provider gateway with three threads and a breaker that opens at the *)
(* second failure, so that a failure can be counted while another thread   *)
(* opens, resets or closes the breaker.                                    *)
(***************************************************************************)
EXTENDS ProviderGateway
=============================================================================
