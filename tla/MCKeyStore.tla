------------------------------ MODULE MCKeyStore ------------------------------
(* KeyStore for TLC, by itself.                                              *)
EXTENDS KeyStore
=============================================================================
