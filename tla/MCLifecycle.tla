---------------------------- MODULE MCLifecycle ----------------------------
(* Lifecycle for TLC: --once and the server, each with every combination of *)
(* backends.                                                                *)
EXTENDS Lifecycle

Choices == [once : BOOLEAN, otlp : BOOLEAN, tracing : BOOLEAN]
=============================================================================
