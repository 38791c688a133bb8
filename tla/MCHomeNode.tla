----------------------------- MODULE MCHomeNode -----------------------------
(***************************************************************************)
(* A small instance of HomeNode: two spellings of one file, which share    *)
(* their token.                                                            *)
(***************************************************************************)
EXTENDS HomeNode, TLC

NoBlanks     == [p \in Path |-> <<p>>]
OneToken     == [p \in Path |-> "/.f.home_node"]
McastAndFs   == <<"mcast", "fs">>
Symmetry     == {s @@ r : s \in Permutations(Node), r \in Permutations(Path)}

=============================================================================
