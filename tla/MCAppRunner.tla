----------------------------- MODULE MCAppRunner -----------------------------
(***************************************************************************)
(* Small instances of AppRunner for TLC.                                   *)
(***************************************************************************)
EXTENDS AppRunner

CONSTANTS a, b, c

\* The first group has a service that signals readiness and one that fails
\* alongside it; the second group depends on them.
ThreeServices == <<{a, b}, {c}>>

\* One service is retried once.
RetryOnce == [s \in Services |-> IF s = a THEN 1 ELSE 0]

=============================================================================
