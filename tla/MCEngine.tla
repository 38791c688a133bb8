------------------------------ MODULE MCEngine ------------------------------
(***************************************************************************)
(* Small instances of Engine.  Paths are written as in the code; which     *)
(* pattern matches which path is fnmatch's answer (without FNM_PATHNAME a  *)
(* "*" also matches "/").                                                  *)
(***************************************************************************)
EXTENDS Engine, TLC

(* The root, a directory, a file in it, a pattern for such files and one   *)
(* for all.                                                                *)
MCPath    == {"", "/", "*", "d", "d/*", "d/f"}
SmallPath == {"", "*", "d/f"}

MCMatches ==
  {<<"*", p>> : p \in MCPath} \cup {<<p, p>> : p \in MCPath}
    \cup {<<"d/*", "d/f">>}
SmallMatches == {m \in MCMatches : m[1] \in SmallPath /\ m[2] \in SmallPath}

PathLength == [p \in MCPath |->
          CASE p = "" -> 0 [] p \in {"*", "d", "/"} -> 1 [] OTHER -> 3]
MCLength    == [p \in MCPath |-> PathLength[p]]
SmallLength == [p \in SmallPath |-> PathLength[p]]

ParentOf(p) == CASE p \in {"d/*", "d/f"} -> "d" [] p = "/" -> "/"
                 [] OTHER -> ""
MCParent    == [p \in MCPath |-> ParentOf(p)]
SmallParent == [p \in SmallPath |-> IF ParentOf(p) \in SmallPath
                                    THEN ParentOf(p) ELSE ""]

MCApp   == {"a", "b", "a "}
MCStrip == [x \in MCApp |-> IF x = "a " THEN "a" ELSE x]

C(api, p)    == [api |-> api, path |-> p, arg |-> DefaultEntry]
W(api, p, e) == [api |-> api, path |-> p, arg |-> e]
Prod(a)      == [DefaultEntry EXCEPT !.producers = <<a>>]
Cons(a)      == [DefaultEntry EXCEPT !.consumers = <<a>>]
Deps(s)      == [DefaultEntry EXCEPT !.file_dependencies = s]
Count(n)     == [DefaultEntry EXCEPT !.directory_children_count = n]

(* Storage: the race between setAllStoreInMemory and everything that       *)
(* registers, removes or moves a path.                                     *)
StorageCalls ==
  {C("setAllStoreInMemory", ""), C("setStoreFileInFileSystem", "d/f"),
   C("setStoreFileInMemory", "d/f"), C("isStoredInMemory", "d/f"),
   C("newFile", "*"), C("remove", "d/f"), C("addEntry", "d/f"),
   C("addEntry", "")}

(* The table: threads that give applications to a path that is not         *)
(* registered, or only as a pattern, while others look up, overwrite and   *)
(* remove it; counts of the files in a directory, explicit and automatic.  *)
(* "/" is its own parent.                                                  *)
TableCalls ==
  {W("addProducer", "d/f", Prod("a ")), W("addProducer", "*", Prod("b")),
   W("addConsumer", "d/*", Cons("a")), W("add", "d/f", Prod("b")),
   W("setCommitRule", "d/*", [DefaultEntry EXCEPT !.commit_rule = "on_close"]),
   C("getCommitRule", "d/f"), C("remove", "d/f"), C("newFile", "/"),
   C("setFile", "d"), W("setDirectoryFileCount", "d", Count(3)),
   W("addEntry", "d/f", [Prod("a") EXCEPT !.directory_children_count = 1]),
   W("addEntry", "d", Count(1)), W("setFileDeps", "d", Deps(<<"d/f">>))}
Symmetry == Permutations(Threads)

(* Every method, with the arguments that take its early returns too.       *)
MethodCalls ==
  {C(api, "d/f") : api \in Setters \cup Getters \cup Lookups}
    \cup {C(api, "") : api \in {"setPermanent", "isPermanent", "getFireRule",
            "getCommitRule", "getCommitCloseCount", "getProducers",
            "setAllStoreInMemory", "remove"}}
    \cup {W("setFireRule", "d/f", [DefaultEntry EXCEPT !.fire_rule = r]) :
            r \in {"no_update", "not_a_rule"}}
    \cup {W("setCommitRule", "d/f", [DefaultEntry EXCEPT !.commit_rule = r]) :
            r \in {"on_close", "not_a_rule"}}
    \cup {W("addProducer", "d/f", Prod("a ")), W("addConsumer", "d/f", Cons("b")),
          W("isProducer", "d/f", Prod("a")), W("isConsumer", "d/f", Cons("b")),
          W("addFileDependency", "d/f", Deps(<<"d">>)),
          W("setFileDeps", "d/f", Deps(<<"d", "">>)),
          W("setFileDeps", "d/f", Deps(<<>>)),
          W("setDirectoryFileCount", "d/f", Count(2)),
          C("newFile", "d"), C("remove", "d/f"), C("add", "d/f"),
          C("addEntry", "d/f"), C("addEntry", "")}
MethodPath == {"", "d", "d/f"}
MethodMatches == {<<p, p>> : p \in MethodPath}
MethodLength == [p \in MethodPath |-> PathLength[p]]
MethodParent == [p \in MethodPath |-> ParentOf(p)]

(* One thread asks for a directory's count, which registers the path       *)
(* without the mutex, while the other moves everything into memory.        *)
UnlockedCalls == {C("setAllStoreInMemory", ""),
                  C("getDirectoryFileCount", "d/f")}

=============================================================================
