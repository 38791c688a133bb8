---------------------------- MODULE CapioCLEntry ----------------------------
(***************************************************************************)
(* The value stored for one path of a CAPIO-CL configuration               *)
(* (capiocl/engine.h, struct CapioCLEntry) and the operators the engine    *)
(* applies to it.  Application names and paths are opaque values.          *)
(***************************************************************************)
EXTENDS Integers, Sequences, Functions

CONSTANTS
  Path,       (* every path and glob pattern, the empty one included       *)
  App,        (* names of the applications (workflow steps)                *)
  EmptyPath   (* std::filesystem::path("")                                 *)

(* There is an empty path; nothing else is asked of paths here.            *)
ASSUME PathAssumption == EmptyPath \in Path

CommitRule == {"on_close", "on_file", "on_n_files", "on_termination"}
FireRule   == {"no_update", "update"}

(* What the unchecked doors (Engine::add) let in: any string, here one that*)
(* sanitize() would refuse.                                                *)
AnyCommitRule == CommitRule \cup {"not_a_rule"}
AnyFireRule   == FireRule \cup {"not_a_rule"}

Entry == [ producers : Seq(App), consumers : Seq(App),
           file_dependencies : Seq(Path),
           commit_rule : AnyCommitRule, fire_rule : AnyFireRule,
           directory_children_count : Int, commit_on_close_count : Int,
           enable_directory_count_update : BOOLEAN,
           store_in_memory : BOOLEAN, permanent : BOOLEAN,
           excluded : BOOLEAN, is_file : BOOLEAN ]

DefaultEntry ==
  [ producers |-> <<>>, consumers |-> <<>>, file_dependencies |-> <<>>,
    commit_rule |-> "on_termination", fire_rule |-> "update",
    directory_children_count |-> 0, commit_on_close_count |-> 0,
    enable_directory_count_update |-> TRUE, store_in_memory |-> FALSE,
    permanent |-> FALSE, excluded |-> FALSE, is_file |-> TRUE ]

(* Append unless std::find already sees it.                                *)
AppendNew(s, x) == IF x \in Range(s) THEN s ELSE Append(s, x)

(* Seeded fault: the right-hand side replaces the counters.                *)
MergeReplacesCounters(l, r) ==
  [ r EXCEPT !.producers = l.producers \o r.producers,
             !.permanent = l.permanent \/ r.permanent,
             !.is_file = l.is_file /\ r.is_file ]

(* operator+= : lists are concatenated, counters added, flags combined,    *)
(* and the two rules taken from the right-hand side.                       *)
Merge(l, r) ==
  [ producers |-> l.producers \o r.producers,
    consumers |-> l.consumers \o r.consumers,
    file_dependencies |-> l.file_dependencies \o r.file_dependencies,
    commit_rule |-> r.commit_rule, fire_rule |-> r.fire_rule,
    directory_children_count |->
      l.directory_children_count + r.directory_children_count,
    commit_on_close_count |-> l.commit_on_close_count + r.commit_on_close_count,
    enable_directory_count_update |->
      l.enable_directory_count_update /\ r.enable_directory_count_update,
    store_in_memory |-> l.store_in_memory \/ r.store_in_memory,
    permanent |-> l.permanent \/ r.permanent,
    excluded |-> l.excluded \/ r.excluded,
    is_file |-> l.is_file /\ r.is_file ]

=============================================================================
