---------------------------- MODULE Persistence ----------------------------
(***************************************************************************)
(* Saving an Engine to a JSON document and loading one from it             *)
(* (src/Serializer.cpp, src/Parser.cpp and the v1 and v1.1 files under     *)
(* src/serializers and src/parsers), on top of Engine: the parser builds   *)
(* the new engine by calling its methods one after the other, so what a    *)
(* document means depends on what those calls do to each other.  One       *)
(* thread does all of it.                                                  *)
(***************************************************************************)
EXTENDS Engine

S == INSTANCE SequencesExt

CONSTANTS
  Documents,     (* documents written by hand                              *)
  Names,         (* names of workflows                                     *)
  DefaultName,   (* CAPIO_CL_DEFAULT_WF_NAME                               *)
  Prefixes,      (* values of resolve_prefix; EmptyPath is none            *)
  Absolute,      (* the absolute paths                                     *)
  Under,         (* Under[x, p]: the path x / p, for relative paths p      *)
  MaxEdits,      (* bound: calls made on the engine before it is saved     *)
  MaxInt         (* the largest number std::stoi takes                     *)

VARIABLES
  workflow_name, (* of the engine                                          *)
  phase,         (* what happens now                                       *)
  doc,           (* the document on disk                                   *)
  script,        (* the calls the parser still has to make                 *)
  prefix,        (* resolve_prefix of the parse                            *)
  memOnly,       (* store_only_in_memory of the parse                      *)
  saved          (* the table that was saved                               *)

engine == <<vars, workflow_name>>
parser == <<phase, doc, script, prefix, memOnly, saved>>

Me == CHOOSE t \in Threads : TRUE
NoTable == [p \in Path |-> NoEntry]

(* What the schemas allow.  A section or list that is left out is an empty *)
(* one: the parser does the same for both (the schema wants file_deps to be*)
(* there for on_file and n_files for on_n_files, which is taken for        *)
(* granted).  "on_close:n" is the pair committed, n_close; n_close = 0     *)
(* stands for no ":n".                                                     *)
Item == [kind : {"name", "dirname"}, paths : Seq(Path),
         committed : AnyCommitRule \cup {"absent"}, n_close : Int,
         file_deps : Seq(Path), mode : AnyFireRule \cup {"absent"},
         n_files : Int]
AppItem == [name : App, input_stream : Seq(Path), output_stream : Seq(Path),
            streaming : Seq(Item)]
Document == [version : {"1", "1.1", "2"}, name : Names, IO_Graph : Seq(AppItem),
             permanent : Seq(Path), exclude : Seq(Path),
             memory : Seq(Path), fs : Seq(Path)]
NoDocument == [version |-> "1", name |-> DefaultName, IO_Graph |-> <<>>,
               permanent |-> <<>>, exclude |-> <<>>, memory |-> <<>>,
               fs |-> <<>>]

ASSUME PersistenceAssumption ==
  /\ DefaultName \in Names
  /\ Documents \subseteq Document /\ Prefixes \subseteq Path
  /\ Absolute \subseteq Path
  /\ \A r \in Prefixes \ {EmptyPath}, p \in Path \ Absolute : Under[r, p] \in Path
  /\ MaxEdits \in Nat /\ MaxInt \in Nat
  /\ \E t \in Threads : Threads = {t}

(* Body(x) for every x of s, one after the other.                          *)
ForEach(s, Body(_)) == S!FlattenSeq([i \in DOMAIN s |-> Body(s[i])])
Those(s, Test(_)) == ForEach(s, LAMBDA x : IF Test(x) THEN <<x>> ELSE <<>>)

-----------------------------------------------------------------------------
(* Serializer.  L is the order in which the map lists its paths.           *)

(* app_outputs[a] and app_inputs[a]: a path as often as it names a.        *)
Times(s, a, p) == [i \in 1 .. Cardinality({j \in DOMAIN s : s[j] = a}) |-> p]
app_outputs(L, a) == ForEach(L, LAMBDA p : Times(entries[p].producers, a, p))
app_inputs(L, a)  == ForEach(L, LAMBDA p : Times(entries[p].consumers, a, p))
Producing == UNION {Range(entries[p].producers) : p \in Registered}
Consuming == UNION {Range(entries[p].consumers) : p \in Registered}

(* Seeded faults: the close count is left out; the fire rule is; all paths *)
(* are written down as files.                                              *)
StreamingItemCountDropped(p) ==
  LET e == entries[p]
  IN  [kind |-> IF e.is_file THEN "name" ELSE "dirname", paths |-> <<p>>,
       committed |-> e.commit_rule, n_close |-> 0,
       file_deps |-> e.file_dependencies, mode |-> e.fire_rule,
       n_files |-> IF e.is_file THEN 0 ELSE e.directory_children_count]
StreamingItemModeDropped(p) ==
  LET e == entries[p]
      n == IF e.commit_on_close_count > 0 THEN e.commit_on_close_count ELSE 0
  IN  [kind |-> IF e.is_file THEN "name" ELSE "dirname", paths |-> <<p>>,
       committed |-> IF n > 0 THEN "on_close" ELSE e.commit_rule,
       n_close |-> n, file_deps |-> e.file_dependencies, mode |-> "absent",
       n_files |-> IF e.is_file THEN 0 ELSE e.directory_children_count]

StreamingItemAlwaysFile(p) ==
  LET e == entries[p]
      n == IF e.commit_on_close_count > 0 THEN e.commit_on_close_count ELSE 0
  IN  [kind |-> "name", paths |-> <<p>>,
       committed |-> IF n > 0 THEN "on_close" ELSE e.commit_rule,
       n_close |-> n, file_deps |-> e.file_dependencies, mode |-> e.fire_rule,
       n_files |-> 0]

streaming_item(p) ==
  LET e == entries[p]
      n == IF e.commit_on_close_count > 0 THEN e.commit_on_close_count ELSE 0
  IN  [kind |-> IF e.is_file THEN "name" ELSE "dirname", paths |-> <<p>>,
       committed |-> IF n > 0 THEN "on_close" ELSE e.commit_rule,
       n_close |-> n,
       file_deps |-> e.file_dependencies, mode |-> e.fire_rule,
       n_files |-> IF e.is_file THEN 0 ELSE e.directory_children_count]

(* Applications that produce come first, with their streaming rules; those *)
(* that only consume follow.  A and B are the maps' orders of them.        *)
io_graph(L, A, B) ==
  [i \in DOMAIN A |->
     [name |-> A[i], input_stream |-> app_inputs(L, A[i]),
      output_stream |-> app_outputs(L, A[i]),
      streaming |-> ForEach(app_outputs(L, A[i]),
                            LAMBDA p : <<streaming_item(p)>>)]]
  \o [i \in DOMAIN B |->
     [name |-> B[i], input_stream |-> app_inputs(L, B[i]),
      output_stream |-> <<>>, streaming |-> <<>>]]

serialize(L, A, B, version) ==
  [version |-> version, name |-> workflow_name, IO_Graph |-> io_graph(L, A, B),
   permanent |-> Those(L, LAMBDA p : entries[p].permanent),
   exclude |-> Those(L, LAMBDA p : entries[p].excluded),
   memory |-> Those(L, LAMBDA p : entries[p].store_in_memory),
   fs |-> Those(L, LAMBDA p : ~ entries[p].store_in_memory)]

-----------------------------------------------------------------------------
(* Parser: the document as the sequence of calls it causes.                *)

Do(api, p, e) == <<[api |-> api, path |-> p, arg |-> e]>>
New(p) == Do("newFile", p, DefaultEntry)

resolve(p, r) == IF r = EmptyPath \/ p \in Absolute THEN p ELSE Under[r, p]

committed(item) == IF item.committed = "absent" THEN "on_termination"
                   ELSE item.committed
mode(item) == IF item.mode = "absent" THEN "no_update" ELSE item.mode
file_deps(item, r) ==
  IF committed(item) = "on_file"
  THEN [i \in DOMAIN item.file_deps |-> resolve(item.file_deps[i], r)] ELSE <<>>

parse_streaming(item, r) ==
  ForEach(item.paths, LAMBDA q :
    LET p == resolve(q, r) IN
    (IF item.kind = "dirname" /\ item.n_files # 0
     THEN Do("setDirectoryFileCount", p,
             [DefaultEntry EXCEPT !.directory_children_count = item.n_files])
     ELSE <<>>)
    \o Do(IF item.kind = "name" THEN "setFile" ELSE "setDirectory", p, DefaultEntry)
    \o Do("setCommitRule", p, [DefaultEntry EXCEPT !.commit_rule = committed(item)])
    \o Do("setFireRule", p, [DefaultEntry EXCEPT !.fire_rule = mode(item)])
    \o Do("setCommitedCloseNumber", p,
          [DefaultEntry EXCEPT !.commit_on_close_count = item.n_close])
    \o Do("setFileDeps", p,
          [DefaultEntry EXCEPT !.file_dependencies = file_deps(item, r)]))

parse_app(app, r) ==
  ForEach(app.input_stream, LAMBDA q :
    New(resolve(q, r)) \o Do("addConsumer", resolve(q, r),
                    [DefaultEntry EXCEPT !.consumers = <<app.name>>]))
  \o ForEach(app.output_stream, LAMBDA q :
    New(resolve(q, r)) \o Do("addProducer", resolve(q, r),
                    [DefaultEntry EXCEPT !.producers = <<app.name>>]))
  \o ForEach(app.streaming, LAMBDA item : parse_streaming(item, r))

(* The storage section is the one whose paths are not resolved.  Seeded    *)
(* fault: its two lists are handled the other way round.                   *)
ParseStorageSwapped(d) ==
  ForEach(d.fs, LAMBDA q : Do("setStoreFileInFileSystem", q, DefaultEntry))
  \o ForEach(d.memory, LAMBDA q : Do("setStoreFileInMemory", q, DefaultEntry))
parse_storage(d) ==
  ForEach(d.memory, LAMBDA q : Do("setStoreFileInMemory", q, DefaultEntry))
  \o ForEach(d.fs, LAMBDA q : Do("setStoreFileInFileSystem", q, DefaultEntry))

parse_permanent(d, r) ==
  ForEach(d.permanent, LAMBDA q :
    New(resolve(q, r)) \o Do("setPermanent", resolve(q, r),
                             [DefaultEntry EXCEPT !.permanent = TRUE]))
parse_exclude(d, r) ==
  ForEach(d.exclude, LAMBDA q :
    New(resolve(q, r)) \o Do("setExclude", resolve(q, r),
                             [DefaultEntry EXCEPT !.excluded = TRUE]))

parse_calls(d, r, mem) ==
  ForEach(d.IO_Graph, LAMBDA app : parse_app(app, r))
  \o parse_permanent(d, r) \o parse_exclude(d, r) \o parse_storage(d)
  \o (IF mem THEN Do("setAllStoreInMemory", EmptyPath, DefaultEntry) ELSE <<>>)

Items(d) == ForEach(d.IO_Graph, LAMBDA app : app.streaming)

(* The schema's rules on streaming items, and the exception of stoi, which *)
(* nobody catches.                                                         *)
ValidItem(item) ==
  /\ item.committed \in CommitRule \cup {"absent"}
  /\ item.mode \in FireRule \cup {"absent"}
  /\ item.kind = "name" => item.committed # "on_n_files"
validate_json(d) == \A item \in Range(Items(d)) : ValidItem(item)
StoiThrows(d) == \E item \in Range(Items(d)) : item.n_close > MaxInt
ParseThrows(d) == \/ d.version \notin {"1", "1.1"}
                  \/ ~ validate_json(d) \/ StoiThrows(d)

-----------------------------------------------------------------------------
(* The name is that of the environment's WORKFLOW_NAME or the default.     *)
PInit ==
  /\ Init /\ workflow_name \in Names /\ phase = "edit"
  /\ doc = NoDocument /\ script = <<>>
  /\ prefix = EmptyPath /\ memOnly = FALSE /\ saved = NoTable

(* The user configures an engine through its API (calls that return early  *)
(* change nothing and are left out).                                       *)
Edit ==
  /\ phase = "edit" /\ calls[Me] < MaxEdits /\ Call(Me)
  /\ UNCHANGED <<workflow_name, parser>>

EngineStep == Step(Me) /\ UNCHANGED <<workflow_name, parser>>

setWorkflowName ==
  /\ phase = "edit" /\ frame[Me] = NoFrame /\ workflow_name' \in Names
  /\ UNCHANGED <<vars, parser>>

(* Serializer::dump with a version it knows; any other one throws and      *)
(* leaves everything as it is.  The engine is not used any more.           *)
dump ==
  /\ phase = "edit" /\ frame[Me] = NoFrame
  /\ \E L \in Listings(Registered), A \in Listings(Producing),
        B \in Listings(Consuming \ Producing), v \in {"1", "1.1"} :
       doc' = serialize(L, A, B, v)
  /\ phase' = "written" /\ saved' = entries
  /\ UNCHANGED <<engine, script, prefix, memOnly>>

WriteByHand ==
  /\ phase = "edit" /\ calls[Me] = 0 /\ frame[Me] = NoFrame
  /\ doc' \in Documents /\ phase' = "written"
  /\ UNCHANGED <<engine, script, prefix, memOnly, saved>>

(* Parser::parse starts with a new Engine, or throws.                      *)
parse ==
  /\ phase = "written"
  /\ \/ ParseThrows(doc) /\ phase' = "refused"
        /\ UNCHANGED <<engine, doc, script, prefix, memOnly, saved>>
     \/ /\ ~ ParseThrows(doc) /\ phase' = "loading"
        /\ prefix' \in Prefixes /\ memOnly' \in BOOLEAN
        /\ script' = parse_calls(doc, prefix', memOnly')
        /\ entries' = NoTable /\ store_all_in_memory' = FALSE
        /\ frame' = [t \in Threads |-> NoFrame]
        /\ ret' = [t \in Threads |-> Void] /\ calls' = [t \in Threads |-> 0]
        /\ fsChoice' = {} /\ allInMemory' = FALSE
        /\ workflow_name' = doc.name
        /\ UNCHANGED <<doc, saved>>

ParserCall ==
  /\ phase = "loading" /\ script # <<>>
  /\ Invoke(Me, Head(script)) \/ Refuse(Me, Head(script))
  /\ script' = Tail(script)
  /\ UNCHANGED <<workflow_name, phase, doc, prefix, memOnly, saved>>

PNext == Edit \/ EngineStep \/ setWorkflowName \/ dump \/ WriteByHand \/ parse \/ ParserCall

PSpec == PInit /\ [][PNext]_<<engine, parser>>

-----------------------------------------------------------------------------
(* Properties.                                                             *)

Loaded == phase = "loading" /\ script = <<>> /\ frame[Me] = NoFrame
Named(s, r) == {resolve(q, r) : q \in Range(s)}

(* The patterns that match p, and the sets of paths that hold the patterns *)
(* of all their members: those are the paths an entry for p can have been  *)
(* copied from, over any number of registrations.                          *)
Patterns(p) == {q \in Path : <<q, p>> \in Matches}
Closed == {T \in SUBSET Path : \A p \in T : Patterns(p) \subseteq T}

(* The applications to which a document gives an output, or an input, in T.*)
WritersOf(T) == {Strip[app.name] : app \in {a \in Range(doc.IO_Graph) :
  Named(a.output_stream, prefix) \cap (T \ {EmptyPath}) # {}}}
ReadersOf(T) == {Strip[app.name] : app \in {a \in Range(doc.IO_Graph) :
  Named(a.input_stream, prefix) \cap (T \ {EmptyPath}) # {}}}

(* The document's streaming rules, by their positions: those on p; of them *)
(* the ones that list dependencies and the ones that give a number of      *)
(* files; and all that give one, whatever their paths.  Latest is the last *)
(* rule of a set of them.                                                  *)
Counted(item)   == item.kind = "dirname" /\ item.n_files # 0
RulesOn(p)      == {i \in DOMAIN Items(doc) : p \in Named(Items(doc)[i].paths, prefix)}
DepsRulesOn(p)  == {i \in RulesOn(p) : file_deps(Items(doc)[i], prefix) # <<>>}
CountRulesOn(p) == {i \in RulesOn(p) : Counted(Items(doc)[i])}
CountRules      == {i \in DOMAIN Items(doc) : /\ Counted(Items(doc)[i])
                                              /\ Items(doc)[i].paths # <<>>}
Latest(I) == Items(doc)[CHOOSE i \in I : \A j \in I : j <= i]

(* What a document that loads makes of the engine, though loading registers*)
(* paths in an order of its own and each new path inherits from patterns   *)
(* loaded earlier.                                                         *)
(*  - An application is a producer or consumer of all paths that match what*)
(*    the document gives it, and of no others but those a chain of patterns*)
(*    leads to from there ("a?" matches "a*", which matches "abc").        *)
(*  - Of several streaming rules on a path the last one decides the commit *)
(*    rule, the close count and the fire rule, and makes a "dirname" path a*)
(*    directory.  A "name" path is a file only if no rule that counts files*)
(*    comes later (setDirectoryFileCount makes every path registered so far*)
(*    a directory) and no path in it is registered.                        *)
(*  - The dependencies are those of the last rule that lists any, and the  *)
(*    number of files that of the last rule that gives one, fixed: a later *)
(*    rule without them leaves them as they are.                           *)
(*  - The flags and the placement are those of the lists, all of whose     *)
(*    paths are registered, "fs" winning over "memory" and                 *)
(*    store_only_in_memory over both.                                      *)
LoadedAsWritten ==
  Loaded =>
    /\ workflow_name = doc.name
    /\ \A p \in Path \ {EmptyPath} :
      /\ WritersOf(Patterns(p)) \subseteq ProducersOf(p)
      /\ ReadersOf(Patterns(p)) \subseteq ConsumersOf(p)
      /\ \A T \in Closed : p \in T => /\ ProducersOf(p) \subseteq WritersOf(T)
                                      /\ ConsumersOf(p) \subseteq ReadersOf(T)
      /\ RulesOn(p) # {} =>
           /\ entries[p].commit_rule = committed(Latest(RulesOn(p)))
           /\ entries[p].fire_rule = mode(Latest(RulesOn(p)))
           /\ entries[p].commit_on_close_count = Latest(RulesOn(p)).n_close
           /\ Latest(RulesOn(p)).kind = "dirname" => ~ entries[p].is_file
           /\ /\ Latest(RulesOn(p) \cup CountRules).kind = "name"
              /\ \A q \in Registered : Parent[q] # p
              => entries[p].is_file
      /\ DepsRulesOn(p) # {} =>
           entries[p].file_dependencies = file_deps(Latest(DepsRulesOn(p)), prefix)
      /\ CountRulesOn(p) # {} =>
           /\ entries[p].directory_children_count = Latest(CountRulesOn(p)).n_files
           /\ ~ entries[p].enable_directory_count_update
      /\ p \in Named(doc.permanent, prefix) => entries[p].permanent
      /\ p \in Named(doc.exclude, prefix) => entries[p].excluded
      /\ memOnly /\ p \in Registered => entries[p].store_in_memory
      /\ p \in Range(doc.memory) \cup Range(doc.fs) =>
           p \in Registered /\ (memOnly \/ (entries[p].store_in_memory <=>
                                              p \notin Range(doc.fs)))

(* Roles that the table that was saved gives on paths in T.                *)
SavedPaths == {p \in Path \ {EmptyPath} : saved[p] # NoEntry}
SavedRoles(T, field) ==
  {Strip[a] : a \in UNION {Range(saved[q][field]) : q \in SavedPaths \cap T}}

(* What saving and loading keeps: every path and its placement, who        *)
(* produces and consumes it (by their names without white space), the flags*)
(* that are set, and for paths with a producer the commit and fire rules,  *)
(* where a close count makes the rule on_close and a negative one is lost. *)
SavedIsKept ==
  Loaded /\ saved # NoTable /\ prefix = EmptyPath =>
    /\ \A p \in SavedPaths :
         LET old == saved[p] IN
         /\ p \in Registered
         /\ ~ memOnly => entries[p].store_in_memory = old.store_in_memory
         /\ old.permanent => entries[p].permanent
         /\ old.excluded => entries[p].excluded
         /\ old.producers # <<>> =>
              /\ entries[p].fire_rule = old.fire_rule
              /\ entries[p].commit_rule =
                   IF old.commit_on_close_count > 0 THEN "on_close"
                   ELSE old.commit_rule
              /\ entries[p].commit_on_close_count =
                   IF old.commit_on_close_count > 0 THEN old.commit_on_close_count
                   ELSE 0
              /\ entries[p].commit_rule = "on_file" =>
                   Range(old.file_dependencies)
                     \subseteq Range(entries[p].file_dependencies)
    /\ \A p \in Path \ {EmptyPath} :
         /\ SavedRoles(Patterns(p), "producers") \subseteq ProducersOf(p)
         /\ SavedRoles(Patterns(p), "consumers") \subseteq ConsumersOf(p)
         /\ \A T \in Closed : p \in T =>
              /\ ProducersOf(p) \subseteq SavedRoles(T, "producers")
              /\ ConsumersOf(p) \subseteq SavedRoles(T, "consumers")

(* operator== of CapioCLEntry and of Engine.                               *)
SameList(s, u) == Len(s) = Len(u) /\ Range(s) \subseteq Range(u)
SameEntry(e, f) ==
  LET lists == {"producers", "consumers", "file_dependencies"}
  IN  /\ \A x \in DOMAIN e \ lists : e[x] = f[x]
      /\ \A x \in lists : SameList(e[x], f[x])
SameEngine(m, k) ==
  \A p \in Path : \/ m[p] = NoEntry /\ k[p] = NoEntry
                  \/ m[p] # NoEntry /\ k[p] # NoEntry /\ SameEntry(m[p], k[p])

(* Entries that the format can express: files and directories with a       *)
(* producer whose rule fits their close count and dependencies.  A number  *)
(* of files can be written down for a directory only, and is read back as a*)
(* fixed one unless it is 0.                                               *)
Expressible(e) ==
  /\ e.producers # <<>>
  /\ e.is_file => e.directory_children_count = 0
  /\ e.directory_children_count # 0 <=> ~ e.enable_directory_count_update
  /\ e.commit_on_close_count \in Nat
  /\ e.commit_on_close_count > 0 => e.commit_rule = "on_close"
  /\ e.file_dependencies # <<>> => e.commit_rule = "on_file"
  /\ Range(e.file_dependencies) \subseteq SavedPaths

(* Tables of such entries in which no path inherits from another, and none *)
(* is counted by a directory whose number of files is not fixed.           *)
Plain ==
  /\ \A p \in SavedPaths : Expressible(saved[p])
  /\ \A p, q \in SavedPaths : p # q =>
       /\ <<p, q>> \notin Matches
       /\ Parent[q] = p => ~ saved[p].enable_directory_count_update
Mixed == /\ \E p \in SavedPaths : saved[p].directory_children_count # 0
         /\ \E p \in SavedPaths : saved[p].is_file

(* "EXPECT_TRUE(engine == *new_engine)": the equality that the repository's*)
(* round-trip tests expect of the tables they save                         *)
(* (test_serialize_deserialize.hpp), for every table of expressible entries*)
(* that do not inherit from or count each other, whatever order the maps   *)
(* list paths and applications in.  The code does not keep it: loading a   *)
(* directory's number of files makes directories of the files loaded before*)
(* it.                                                                     *)
ReloadsEqual ==
  Loaded /\ saved # NoTable /\ prefix = EmptyPath /\ ~ memOnly /\ Plain =>
    SameEngine(saved, entries)

(* It keeps it for the tables that do not have both a file and a directory *)
(* with a number of files: tables of files, and tables of directories.     *)
PlainReloadsEqual == ~ Mixed => ReloadsEqual

(* Why the parser may refuse what the serializer wrote: an entry with a    *)
(* producer has a close count that std::stoi does not take, a rule that    *)
(* add() did not look at, or is a file that commits on a number of files.  *)
Unreadable(e) ==
  /\ e.producers # <<>>
  /\ \/ e.commit_on_close_count > MaxInt
     \/ e.fire_rule \notin FireRule
     \/ e.commit_on_close_count <= 0 /\ e.commit_rule \notin CommitRule
     \/ /\ e.commit_on_close_count <= 0 /\ e.commit_rule = "on_n_files"
        /\ e.is_file

(* A saved table is refused for one of these reasons and loaded if there   *)
(* is none, whatever order the maps list paths and applications in.        *)
RefusedForAReason ==
  saved # NoTable =>
    /\ phase = "refused" => \E p \in SavedPaths : Unreadable(saved[p])
    /\ phase = "loading" => \A p \in SavedPaths : ~ Unreadable(saved[p])

=============================================================================
