-------------------------- MODULE MCSnippetListing --------------------------
(* A small instance of SnippetListing; snippet ids are naturals. *)
EXTENDS SnippetListing

CONSTANTS p1, g1, a
=============================================================================
