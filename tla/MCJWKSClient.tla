---------------------------- MODULE MCJWKSClient ----------------------------
(***************************************************************************)
(* JWKSClient for TLC.                                                     *)
(***************************************************************************)
EXTENDS JWKSClient

=============================================================================
