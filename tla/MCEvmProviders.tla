-------------------------- MODULE MCEvmProviders --------------------------
(* Small instances of the providers for TLC.                               *)
EXTENDS EvmProviders

CONSTANTS s1, s2
===========================================================================
