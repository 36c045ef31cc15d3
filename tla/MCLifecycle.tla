----------------------------- MODULE MCLifecycle -----------------------------
(* One rule for current and noncurrent versions. *)
EXTENDS Lifecycle

MCRules == [expire : {1}, noncurrent : {1}]
=============================================================================
