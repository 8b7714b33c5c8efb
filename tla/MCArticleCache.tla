--------------------------- MODULE MCArticleCache ---------------------------
(***************************************************************************)
(* ArticleCache for TLC: readers are interchangeable and so are writers,   *)
(* so a run of safety properties explores one state per orbit.             *)
(***************************************************************************)
EXTENDS ArticleCache, TLC

Symmetry == Permutations(Readers) \cup Permutations(Writers)
=============================================================================
