-------------------------- MODULE MCTargetLifecycle --------------------------
(* Finite instances of TargetLifecycle.                                      *)
EXTENDS TargetLifecycle

\* One context next to the default one.
OneContext == {1}
=============================================================================
