------------------------------- MODULE MCSpan -------------------------------
(* Small instances of Span.                                                *)
EXTENDS Span, TLC

Symmetry == Permutations(Chunks)
=============================================================================
