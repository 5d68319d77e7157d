----------------------------- MODULE MCScanner -----------------------------
(* Small instances of Scanner: directory a with the file a/x, and the files *)
(* a.txt and b beside it.  The walk takes a, and a/x with it, before a.txt;  *)
(* as strings, a.txt comes before a/x.                                      *)
EXTENDS Scanner, TLC

MCDirs   == {"root", "a"}
MCParent == [e \in (Rels \cup MCDirs) \ {"root"} |-> IF e = "a/x" THEN "a" ELSE "root"]

Order == [root |-> 0, a |-> 1] @@ ("a/x" :> 2) @@ ("a.txt" :> 3) @@ ("b" :> 4)

MCWalkRank == [e \in Rels \cup MCDirs |-> Order[e]]

MCStringRank == [r \in Rels |-> IF r = "a.txt" THEN 1 ELSE Order[r]]
=============================================================================
