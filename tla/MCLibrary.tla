----------------------------- MODULE MCLibrary -----------------------------
(* Links are tried with one request that changes the tree, requests that    *)
(* meet without links. The names of directories, files, actors and visitors *)
(* do not matter.                                                           *)
EXTENDS Library, TLC

OneRequestWithLinks == (\E l \in Links : links[l] # None) => used.requests <= 1

LibrarySymmetry ==
  Permutations(Dir) \cup Permutations(Name) \cup Permutations(Actors) \cup Permutations(Visitors)
=============================================================================
