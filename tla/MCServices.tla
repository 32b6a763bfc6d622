------------------------------ MODULE MCServices ------------------------------
(* A small instance of Services for TLC. *)
EXTENDS Services, TLC

CONSTANTS ann, bob, aunt, bistro, host1, host2, grocer, baker, r1, r2, r3, r4, server, worker, j1, j2, k1, k2, o1, o2

\* Ann has two payments to the grocer and one row without a merchant, Bob has one
\* payment to the grocer.
Owner    == (r1 :> ann) @@ (r2 :> ann) @@ (r3 :> bob) @@ (r4 :> ann)
Merchant == (r1 :> grocer) @@ (r2 :> grocer) @@ (r3 :> grocer) @@ (r4 :> Unnamed)

\* A merchant the rules know, and a person.
Alias   == (bistro :> "Food") @@ (aunt :> Uncategorized)
Keyword == (bistro :> Uncategorized) @@ (aunt :> Uncategorized)

OllamaHosts == <<host1, host2>>

Together(ps, js, os) == [parts |-> ps, jobs |-> js, outages |-> os]

Parts == {Together({"memory", "decay"}, 0, 0), Together({"memory", "graph"}, 2, 0),
          Together({"patterns"}, 3, 0), Together({"patterns", "links"}, 1, 2),
          Together({"graph", "links"}, 2, 2), Together({"releases"}, 0, 0),
          Together({"corrections"}, 0, 0), Together({"analytics"}, 0, 0),
          Together({"reading"}, 0, 0), Together({"explanations"}, 0, 0), Together({"gate"}, 0, 0)}

OnlyCorrections == {Together({"corrections"}, 0, 0)}
================================================================================
