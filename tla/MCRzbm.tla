------------------------------- MODULE MCRzbm -------------------------------
(***************************************************************************)
(* Rzbm for TLC: a range of ten pages that is aligned on neither end, cut  *)
(* into two 4M pages, the page before them and the page after them.        *)
(***************************************************************************)
EXTENDS Rzbm, TLC

CONSTANTS a, p, q

MCRanges == <<[base |-> 3, npages |-> 10, cgnum |-> 0]>>

MCMaxHeld == (a :> 7) @@ (p :> 4) @@ (q :> 4)

Symmetry == Permutations({p, q})

=============================================================================
