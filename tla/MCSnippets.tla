----------------------------- MODULE MCSnippets -----------------------------
(* A small instance of Snippets: two handlers on the same snippets. *)
EXTENDS Snippets, TLC

CONSTANTS p1, p2, s1, s2, g1, a, b
Symmetry == Permutations({p1, p2}) \cup Permutations({a, b}) \cup Permutations({s1, s2})
=============================================================================
