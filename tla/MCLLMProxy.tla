------------------------------- MODULE MCLLMProxy -------------------------------
(* LLMProxy for TLC: the constants are small enough for their configurations.  *)
EXTENDS LLMProxy
=================================================================================
