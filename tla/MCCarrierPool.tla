--------------------------- MODULE MCCarrierPool ---------------------------
(* Small instances of CarrierPool. *)
EXTENDS CarrierPool, TLC

CONSTANTS a, b, c, d

\* A chain of four, the second possibly a root, and the last possibly a second
\* child of the first.  For a root, "with" and "stage" are the same.
Chain == (a :> {NoScope}) @@ (b :> {NoScope, a}) @@ (c :> {b}) @@ (d :> {a, c})
ChainWays == (a :> {"stage"}) @@ (b :> {"bridge"}) @@ (c :> {"bridge"}) @@ (d :> {"bridge"})

\* Two roots, or a root and its child; children of either; and a chain of four.
TwoTrees == (a :> {NoScope}) @@ (b :> {NoScope, a}) @@ (c :> {a, b}) @@ (d :> {b, c})
Nested == [s \in Scopes |-> {"with", "stage"}]
=============================================================================
