-------------------------- MODULE MCHttpsCarrier --------------------------
(***************************************************************************)
(* Small instances of HttpsCarrier.                                        *)
(***************************************************************************)
EXTENDS HttpsCarrier

=============================================================================
