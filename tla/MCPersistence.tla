--------------------------- MODULE MCPersistence ---------------------------
(***************************************************************************)
(* A small instance of Persistence: a directory, a file in it, a relative  *)
(* path that the prefix "/d" turns into that file, and a pattern that      *)
(* matches everything absolute.                                            *)
(***************************************************************************)
EXTENDS Persistence

DPath    == {"", "f", "/*", "/d", "/d/", "/d/f"}
DMatches == {<<p, p>> : p \in DPath} \cup {<<"/*", "/d">>, <<"/*", "/d/">>,
                                         <<"/*", "/d/f">>}
DLength  == [p \in DPath |-> CASE p = "" -> 0 [] p = "f" -> 1
                               [] p = "/d/" -> 3 [] p = "/d/f" -> 4
                               [] OTHER -> 2]
DParent  == [p \in DPath |-> IF p \in {"/d/", "/d/f"} THEN "/d" ELSE ""]
DApp     == {"a", "b", "a "}
DStrip   == [x \in DApp |-> IF x = "a " THEN "a" ELSE x]
DPrefixes == {"", "/d"}
DAbsolute == {"/*", "/d", "/d/", "/d/f"}
DUnder    == [x \in {"/d"}, p \in {"", "f"} |-> IF p = "" THEN "/d/" ELSE "/d/f"]

W(api, p, e) == [api |-> api, path |-> p, arg |-> e]
D == DefaultEntry
EditCalls ==
  {W("add", "/*", [D EXCEPT !.producers = <<"a">>, !.consumers = <<"b">>,
                            !.commit_rule = "on_close", !.permanent = TRUE]),
   W("add", "/d/f", [D EXCEPT !.producers = <<"b", "a">>,
                              !.commit_rule = "on_file",
                              !.fire_rule = "no_update", !.excluded = TRUE,
                              !.file_dependencies = <<"f">>]),
   W("addProducer", "f", [D EXCEPT !.producers = <<"a ">>]),
   W("addConsumer", "f", [D EXCEPT !.consumers = <<"b">>]),
   W("setStoreFileInMemory", "f", D),
   W("setDirectoryFileCount", "/d", [D EXCEPT !.directory_children_count = 2]),
   W("setCommitedCloseNumber", "/d/f", [D EXCEPT !.commit_on_close_count = 2]),
   W("setCommitedCloseNumber", "/d", [D EXCEPT !.commit_on_close_count = 9]),
   W("add", "/d", [D EXCEPT !.producers = <<"a">>,
                            !.commit_rule = "on_n_files"])}

I(kind, paths, rule, n, deps, md, files) ==
  [kind |-> kind, paths |-> paths, committed |-> rule, n_close |-> n,
   file_deps |-> deps, mode |-> md, n_files |-> files]
Doc(v, apps) == [NoDocument EXCEPT !.version = v, !.IO_Graph = apps]

(* Several rules on one path, several paths in one rule, lists that name a *)
(* path twice, rules and modes left out.                                   *)
ByHand ==
  {[Doc("1", <<[name |-> "a", input_stream |-> <<"f">>,
               output_stream |-> <<"/d", "/*">>,
               streaming |-> <<I("dirname", <<"/d", "/*">>, "on_n_files", 0, <<>>,
                                 "absent", 3),
                               I("name", <<"f", "/d/f">>, "on_file", 0,
                                 <<"/d">>, "update", 0)>>],
              [name |-> "b", input_stream |-> <<"/d/f">>,
               output_stream |-> <<"f">>,
               streaming |-> <<I("name", <<"/d/f", "f">>, "absent", 0, <<>>,
                                 "absent", 0)>>]>>)
      EXCEPT !.permanent = <<"/*", "f">>, !.exclude = <<"/d/f">>,
             !.memory = <<"f", "/d">>, !.fs = <<"/d", "/d/f">>],
   Doc("1.1", <<[name |-> "a ", input_stream |-> <<>>,
                 output_stream |-> <<"/*", "f">>,
                 streaming |-> <<I("name", <<"/*">>, "on_close", 2, <<>>,
                                   "update", 0)>>]>>),
   Doc("1.1", <<[name |-> "a", input_stream |-> <<>>, output_stream |-> <<"f">>,
                 streaming |-> <<I("name", <<"f">>, "on_close", 9, <<>>,
                                   "update", 0)>>]>>),
   [Doc("1.1", <<>>) EXCEPT !.memory = <<"f">>, !.fs = <<"f">>],
   Doc("2", <<>>)}

=============================================================================
