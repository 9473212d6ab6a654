----------------------------- MODULE MCBookmarks ------------------------------
(* Bookmarks on small instances; objects and requests are interchangeable.  *)
EXTENDS Bookmarks, TLC

Symmetry == Permutations(Objects) \cup Permutations(Requests)

===============================================================================
