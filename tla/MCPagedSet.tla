----------------------------- MODULE MCPagedSet -----------------------------
(* Model-checking instance of PagedSet: pages of PageCap ids, MaxPages      *)
(* pages, more ids than one page holds so that pages fill and new pages     *)
(* open, and the page ceiling is reached.                                   *)
EXTENDS PagedSet, TLC

CONSTANTS a1, a2, a3, d1, d2, d3

MCIds == {a1, a2, a3}
MCDocIds == {d1, d2, d3}

\* Acceptance ids and document ids are interchangeable among themselves.
MCSymmetry == Permutations(MCIds) \cup Permutations(MCDocIds)
=============================================================================
