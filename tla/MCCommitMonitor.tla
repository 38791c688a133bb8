-------------------------- MODULE MCCommitMonitor --------------------------
(***************************************************************************)
(* Small instances of CommitMonitor: nodes n1, n2; the file "f" under a    *)
(* relative and an absolute spelling, which share their token file.        *)
(***************************************************************************)
EXTENDS CommitMonitor, TLC

BothSpellings == {"f", "/f"}
OneSpelling   == {"f"}
BothToken     == [p \in BothSpellings |-> "/.f.commit"]
OneToken      == [p \in OneSpelling |-> "/.f.commit"]

NodeSymmetry == Permutations(Node)

McastOnly  == <<"mcast">>
McastAndFs == <<"mcast", "fs">>

=============================================================================
