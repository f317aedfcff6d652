------------------------------ MODULE MCFallback ------------------------------
(***************************************************************************)
(* An operation with a primary provider and a fallback, both of which can  *)
(* be built: what a malformed answer leads to.                             *)
(***************************************************************************)
EXTENDS ProviderPolicy

Adapters == [claude |-> "anthropic", local |-> "ollama"]

FallbackNext ==
  /\ Next
  /\ conf'.usable = Providers

FallbackSpec == Init /\ [][FallbackNext]_vars
===============================================================================
