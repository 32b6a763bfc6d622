-------------------------- MODULE MCStatementPipeline --------------------------
(* Small instances of StatementPipeline for TLC. *)
EXTENDS StatementProperties, TLC

CONSTANTS s1, s2, r1, r2, r3

\* Two statements of adjoining periods: they share one transaction.
Overlapping == (s1 :> {r1, r2}) @@ (s2 :> {r2})

\* Two statements that share nothing.
Disjoint == (s1 :> {r1, r2}) @@ (s2 :> {r3})

\* The same PDF uploaded twice.
Repeated == (s1 :> {r1}) @@ (s2 :> {r1})

\* One statement on its own.
Single == s1 :> {r1, r2}

\* Sound where both statements have the same Content and neither is Retained.
Symmetric == Permutations({s1, s2})
================================================================================
