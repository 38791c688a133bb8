------------------------------- MODULE Engine -------------------------------
(***************************************************************************)
(* The in-memory configuration database of CAPIO-CL (src/Engine.cpp) used  *)
(* by several threads at once.  Every critical section of a method (the    *)
(* scope of one lock_guard or shared_lock_guard on _shared_mutex) is one   *)
(* atomic step; between two sections of the same call any other thread may *)
(* run.  The one piece of code that touches the table without the mutex,   *)
(* the _newFile inside getDirectoryFileCount, is cut into its reads and    *)
(* writes.                                                                 *)
(***************************************************************************)
EXTENDS CapioCLEntry, FiniteSets

CONSTANTS
  Threads,    (* threads that share the Engine                             *)
  Matches,    (* <<pattern, path>>: fnmatch(pattern, path, FNM_NOESCAPE)=0 *)
  Length,     (* filename.length() of a path                               *)
  Parent,     (* parent_path(); EmptyPath where there is none              *)
  Strip,      (* an application name without its white space               *)
  NoEntry,    (* find(path) == end()                                       *)
  Calls,      (* the calls the threads may make                            *)
  MaxCalls    (* bound: calls made by each thread                          *)

Setters == {"setFireRule", "setPermanent", "setExclude", "setDirectory",
            "setFile", "setCommitedCloseNumber", "setStoreFileInMemory",
            "setStoreFileInFileSystem"}
Getters == {"getCommitRule", "getFireRule", "isFirable", "isPermanent",
            "isFile", "isDirectory", "isExcluded", "isStoredInMemory",
            "getCommitCloseCount", "getProducers", "getDirectoryFileCount"}
Lookups == {"getConsumers", "getCommitOnFileDependencies", "contains", "size",
            "getPaths", "getFileToStoreInMemory"}
Scans   == {"isProducer", "isConsumer"}
Loops   == {"setAllStoreInMemory", "setDirectoryFileCount", "setFileDeps"}
Adders  == {"addProducer", "addConsumer", "addFileDependency"}
Api     == Setters \cup Getters \cup Lookups \cup Scans \cup Loops \cup Adders
             \cup {"setCommitRule", "newFile", "remove", "add", "addEntry"}

(* A call: the method, its path, and its other arguments carried in the    *)
(* fields of an entry that they are about (addProducer's application is    *)
(* the one member of arg.producers).                                       *)
ApiCall == [api : Api, path : Path, arg : Entry]

ASSUME ConstantsAssumption ==
  /\ IsFiniteSet(Path) /\ NoEntry \notin Entry
  /\ Matches \subseteq Path \X Path
  /\ Length \in [Path -> Nat] /\ Parent \in [Path -> Path]
  /\ Strip \in [App -> App]
  /\ MaxCalls \in Nat

(* Length is the length of the path's string.                              *)
ASSUME LengthAssumption == \A p \in Path : Length[p] = 0 <=> p = EmptyPath

(* addProducer and its like name an application or a path.                 *)
WellFormed(c) ==
  /\ c.api \in {"addProducer", "isProducer"} => c.arg.producers # <<>>
  /\ c.api \in {"addConsumer", "isConsumer"} => c.arg.consumers # <<>>
  /\ c.api = "addFileDependency" => c.arg.file_dependencies # <<>>

ASSUME CallsAssumption == Calls \subseteq {c \in ApiCall : WellFormed(c)}

VARIABLES
  entries,              (* _capio_cl_entries                               *)
  store_all_in_memory,  (* store_all_in_memory                             *)
  frame,                (* the call each thread is in, and where           *)
  ret,                  (* what each thread's last call returned           *)
  calls,                (* calls each thread has made so far               *)
  fsChoice,             (* history: paths told to stay on the file system  *)
  allInMemory           (* history: a setAllStoreInMemory has returned     *)

vars == <<entries, store_all_in_memory, frame, ret, calls, fsChoice,
          allInMemory>>

(* Where a call stands: which of its critical sections comes next.         *)
Label == {"idle", "body", "create", "tail", "rule", "flag", "snapshot",
          "loop", "find", "emplace", "count", "store"}

Frame == [api : Api \cup {"none"}, path : Path, arg : Entry, at : Label,
          todo : Seq(Path), draft : Entry]

NoFrame == [api |-> "none", path |-> EmptyPath, arg |-> DefaultEntry,
            at |-> "idle", todo |-> <<>>, draft |-> DefaultEntry]

(* Values a call can return, tagged by their C++ type.                     *)
Void     == [void |-> TRUE]
Throws   == [throws |-> "invalid_argument"]
Flag(b)  == [flag |-> b]
Num(n)   == [num |-> n]
Rule(r)  == [rule |-> r]
Apps(s)  == [apps |-> s]
Paths(s) == [paths |-> s]
Value    == {Void, Throws} \cup [flag : BOOLEAN] \cup [num : Int]
              \cup [rule : AnyCommitRule \cup AnyFireRule]
              \cup [apps : Seq(App)] \cup [paths : Seq(Path)]

-----------------------------------------------------------------------------
(* The table.                                                              *)

Registered == {p \in Path : entries[p] # NoEntry}

(* Seeded fault for the checks (as are the definitions marked so below):   *)
(* the shortest match wins.                                                *)
ShortestMatches(p) ==
  LET M == {q \in Registered : <<q, p>> \in Matches /\ Length[q] > 0}
  IN  {q \in M : \A r \in M : Length[q] <= Length[r]}

(* The registered patterns among which the loop of _newFile ends: matching,*)
(* longer than 0, and not shorter than any other.  Of several of the same  *)
(* length the unordered_map's iteration order decides.                     *)
LongestMatches(p) ==
  LET M == {q \in Registered : <<q, p>> \in Matches /\ Length[q] > 0}
  IN  {q \in M : \A r \in M : Length[r] <= Length[q]}

(* Seeded fault: the engine's own flag is not looked at.                   *)
DraftsInheriting(p) ==
  LET L == LongestMatches(p)
  IN  IF L = {} THEN {DefaultEntry} ELSE {entries[q] : q \in L}

(* The entry _newFile builds for p: a copy of the longest match or the     *)
(* default one, in memory if either it or the engine says so.              *)
Drafts(p) ==
  LET L == LongestMatches(p)
      E == IF L = {} THEN {DefaultEntry} ELSE {entries[q] : q \in L}
  IN  {[e EXCEPT !.store_in_memory = @ \/ store_all_in_memory] : e \in E}

(* Seeded fault: counts that were set explicitly are updated too.          *)
CountingAlways(m, d) == d # EmptyPath /\ m[d] # NoEntry

(* Whether d's count follows its children.                                 *)
Counting(m, d) ==
  d # EmptyPath /\ m[d] # NoEntry /\ m[d].enable_directory_count_update

OneMoreChild(e) == [e EXCEPT !.directory_children_count = @ + 1,
                             !.is_file = FALSE]

compute_directory_entry_count(m, p) ==
  IF Counting(m, Parent[p])
  THEN [m EXCEPT ![Parent[p]] = OneMoreChild(@)]
  ELSE m

(* Seeded faults: an entry that is there is replaced; a child that is there*)
(* is counted again; only paths with a match are registered.               *)
_newFileReplacing(p) ==
  IF p = EmptyPath THEN {entries}
  ELSE {compute_directory_entry_count([entries EXCEPT ![p] = e], p) :
          e \in Drafts(p)}
_newFileRecounting(p) ==
  IF p = EmptyPath THEN {entries}
  ELSE {compute_directory_entry_count([entries EXCEPT ![p] = e], p) :
          e \in IF p \in Registered THEN {entries[p]} ELSE Drafts(p)}
_newFileMatched(p) ==
  IF p = EmptyPath \/ p \in Registered \/ LongestMatches(p) = {} THEN {entries}
  ELSE {compute_directory_entry_count([entries EXCEPT ![p] = e], p) :
          e \in Drafts(p)}

(* The tables _newFile(p) can leave behind when it runs under the lock.    *)
_newFile(p) ==
  IF p = EmptyPath \/ p \in Registered
  THEN {entries}
  ELSE {compute_directory_entry_count([entries EXCEPT ![p] = e], p) :
          e \in Drafts(p)}

(* Seeded fault: the walk over the map goes one step past its end.         *)
ListingsPastEnd(S) ==
  {Append(s, NoEntry) : s \in {s \in [1 .. Cardinality(S) -> S] : Range(s) = S}}

(* The orders in which a std::vector can list the keys S of the map.       *)
Listings(S) == {s \in [1 .. Cardinality(S) -> S] : Range(s) = S}

-----------------------------------------------------------------------------
(* Control.                                                                *)

In(t, api)   == frame[t].api = api /\ frame[t].at = "body"
Goto(t, l)   == frame' = [frame EXCEPT ![t].at = l]
Return(t, v) == frame' = [frame EXCEPT ![t] = NoFrame]
                  /\ ret' = [ret EXCEPT ![t] = v]
Hit(t)       == frame[t].path \in Registered
History      == <<fsChoice, allInMemory>>

(* The path early returns, and the argument sanitize() throws on before    *)
(* anything is touched.                                                    *)
NoPathNeeded == Lookups \cup {"remove", "addEntry", "setAllStoreInMemory"}
EmptyAnswer(api) ==
  CASE api \in {"isFirable", "isPermanent", "isFile", "isDirectory",
                "isExcluded", "isStoredInMemory"} \cup Scans -> Flag(TRUE)
    [] api \in {"getDirectoryFileCount", "getCommitCloseCount"} -> Num(0)
    [] api = "getCommitRule" -> Rule("on_termination")
    [] api = "getFireRule"   -> Rule("no_update")
    [] api = "getProducers"  -> Apps(<<>>)
    [] OTHER                 -> Void

(* Seeded fault: the empty path is let in.                                 *)
EmptyGuardDropped(c) == FALSE

EmptyGuard(c) == c.path = EmptyPath /\ c.api \notin NoPathNeeded
BadRule(c) == \/ c.api = "setCommitRule" /\ c.arg.commit_rule \notin CommitRule
              \/ c.api = "setFireRule" /\ c.arg.fire_rule \notin FireRule
NothingToDo(c) == c.api = "setFileDeps" /\ c.arg.file_dependencies = <<>>
Refused(c) == EmptyGuard(c) \/ BadRule(c) \/ NothingToDo(c)

Refuse(t, c) ==
  /\ frame[t] = NoFrame /\ calls[t] < MaxCalls
  /\ Refused(c)
  /\ ret' = [ret EXCEPT ![t] = IF EmptyGuard(c) THEN EmptyAnswer(c.api)
                               ELSE IF BadRule(c) THEN Throws ELSE Void]
  /\ calls' = [calls EXCEPT ![t] = @ + 1]
  /\ UNCHANGED <<entries, store_all_in_memory, frame, History>>

EarlyReturn(t) == \E c \in Calls : Refuse(t, c)

(* Seeded fault: setAllStoreInMemory takes its snapshot first.             *)
EntryPointSnapshot(api) == CASE api = "setAllStoreInMemory"   -> "snapshot"
                             [] api = "setDirectoryFileCount" -> "snapshot"
                             [] api = "setFileDeps"           -> "loop"
                             [] OTHER                         -> "body"

(* The first section of each method.                                       *)
EntryPoint(api) == CASE api = "setAllStoreInMemory"   -> "flag"
                     [] api = "setDirectoryFileCount" -> "snapshot"
                     [] api = "setFileDeps"           -> "loop"
                     [] OTHER                         -> "body"

Invoke(t, c) ==
  /\ frame[t] = NoFrame /\ calls[t] < MaxCalls
  /\ ~ Refused(c)
  /\ frame' = [frame EXCEPT ![t] =
       [api |-> c.api, path |-> c.path, arg |-> c.arg,
        at |-> EntryPoint(c.api), draft |-> DefaultEntry,
        todo |-> IF c.api = "setFileDeps" THEN c.arg.file_dependencies
                 ELSE <<>>]]
  /\ ret' = [ret EXCEPT ![t] = Void]
  /\ calls' = [calls EXCEPT ![t] = @ + 1]
  /\ UNCHANGED <<entries, store_all_in_memory, History>>

Call(t) == \E c \in Calls : Invoke(t, c)

-----------------------------------------------------------------------------
(* Methods with one critical section per attempt: assign to a registered   *)
(* path and return, or register it and start over.                         *)

Assign(t, e) ==
  \/ /\ Hit(t)
     /\ entries' = [entries EXCEPT ![frame[t].path] = e]
     /\ Return(t, Void)
  \/ /\ ~ Hit(t)
     /\ entries' \in _newFile(frame[t].path)
     /\ UNCHANGED <<frame, ret>>

Setter(t, api, e) == /\ In(t, api) /\ Assign(t, e)
                     /\ UNCHANGED <<store_all_in_memory, calls, History>>

Old(t) == entries[frame[t].path]
Arg(t) == frame[t].arg

setFireRule(t)  == Setter(t, "setFireRule",
                          [Old(t) EXCEPT !.fire_rule = Arg(t).fire_rule])
setPermanent(t) == Setter(t, "setPermanent",
                          [Old(t) EXCEPT !.permanent = Arg(t).permanent])
setExclude(t)   == Setter(t, "setExclude",
                          [Old(t) EXCEPT !.excluded = Arg(t).excluded])
setDirectory(t) == Setter(t, "setDirectory", [Old(t) EXCEPT !.is_file = FALSE])
setFile(t)      == Setter(t, "setFile", [Old(t) EXCEPT !.is_file = TRUE])
setCommitedCloseNumber(t) ==
  Setter(t, "setCommitedCloseNumber",
         [Old(t) EXCEPT !.commit_on_close_count = Arg(t).commit_on_close_count])

setStoreFileInMemory(t) ==
  /\ In(t, "setStoreFileInMemory")
  /\ Assign(t, [Old(t) EXCEPT !.store_in_memory = TRUE])
  /\ fsChoice' = IF Hit(t) THEN fsChoice \ {frame[t].path} ELSE fsChoice
  /\ UNCHANGED <<store_all_in_memory, calls, allInMemory>>

setStoreFileInFileSystem(t) ==
  /\ In(t, "setStoreFileInFileSystem")
  /\ Assign(t, [Old(t) EXCEPT !.store_in_memory = FALSE])
  /\ fsChoice' = IF Hit(t) THEN fsChoice \cup {frame[t].path} ELSE fsChoice
  /\ UNCHANGED <<store_all_in_memory, calls, allInMemory>>

newFile(t) ==
  /\ In(t, "newFile")
  /\ entries' \in _newFile(frame[t].path)
  /\ Return(t, Void)
  /\ UNCHANGED <<store_all_in_memory, calls, History>>

(* add(path, producers, consumers, ...): register and overwrite at once.   *)
add(t) ==
  /\ In(t, "add")
  /\ \E m \in _newFile(frame[t].path) :
       entries' = [m EXCEPT ![frame[t].path] =
                     [@ EXCEPT !.producers = Arg(t).producers,
                               !.consumers = Arg(t).consumers,
                               !.commit_rule = Arg(t).commit_rule,
                               !.fire_rule = Arg(t).fire_rule,
                               !.permanent = Arg(t).permanent,
                               !.excluded = Arg(t).excluded,
                               !.file_dependencies = Arg(t).file_dependencies]]
  /\ Return(t, Void)
  /\ UNCHANGED <<store_all_in_memory, calls, History>>

(* add(path, entry): insert the entry as it is, or merge it.               *)
addEntry(t) ==
  /\ In(t, "addEntry")
  /\ entries' = [entries EXCEPT ![frame[t].path] =
                   IF Hit(t) THEN Merge(@, Arg(t)) ELSE Arg(t)]
  /\ fsChoice' = IF Hit(t) \/ Arg(t).store_in_memory THEN fsChoice
                 ELSE fsChoice \cup {frame[t].path}
  /\ Return(t, Void)
  /\ UNCHANGED <<store_all_in_memory, calls, allInMemory>>

remove(t) ==
  /\ In(t, "remove")
  /\ entries' = [entries EXCEPT ![frame[t].path] = NoEntry]
  /\ fsChoice' = fsChoice \ {frame[t].path}
  /\ Return(t, Void)
  /\ UNCHANGED <<store_all_in_memory, calls, allInMemory>>

-----------------------------------------------------------------------------
(* Methods with two critical sections: look the path up, and if it is not  *)
(* there give the lock up, register it in a section of its own ("create")  *)
(* and start over.                                                         *)

Query(t, v) ==
  /\ \/ Hit(t) /\ Return(t, v)
     \/ ~ Hit(t) /\ Goto(t, "create") /\ UNCHANGED ret
  /\ UNCHANGED <<entries, store_all_in_memory, calls, History>>

getCommitRule(t)    == In(t, "getCommitRule") /\ Query(t, Rule(Old(t).commit_rule))
getFireRule(t)      == In(t, "getFireRule") /\ Query(t, Rule(Old(t).fire_rule))
isFirable(t)        == In(t, "isFirable")
                         /\ Query(t, Flag(Old(t).fire_rule = "no_update"))
isExcluded(t)       == In(t, "isExcluded") /\ Query(t, Flag(Old(t).excluded))
isStoredInMemory(t) == In(t, "isStoredInMemory")
                         /\ Query(t, Flag(Old(t).store_in_memory))
getCommitCloseCount(t) == In(t, "getCommitCloseCount")
                            /\ Query(t, Num(Old(t).commit_on_close_count))
getProducers(t)     == In(t, "getProducers") /\ Query(t, Apps(Old(t).producers))
isPermanent(t)      == In(t, "isPermanent") /\ Query(t, Flag(Old(t).permanent))

(* isFile ends, when it had to register the path, with a call of           *)
(* isPermanent ("tail"); isDirectory is the negation of isFile.            *)
isFile(t) ==
  \/ In(t, "isFile") /\ Query(t, Flag(Old(t).is_file))
  \/ /\ frame[t].api = "isFile" /\ frame[t].at = "tail"
     /\ Query(t, Flag(Old(t).permanent))
isDirectory(t) ==
  \/ In(t, "isDirectory") /\ Query(t, Flag(~ Old(t).is_file))
  \/ /\ frame[t].api = "isDirectory" /\ frame[t].at = "tail"
     /\ Query(t, Flag(~ Old(t).permanent))

(* The same for the methods that change the entry.                         *)
Update(t, api, e) ==
  /\ In(t, api)
  /\ \/ /\ Hit(t)
        /\ entries' = [entries EXCEPT ![frame[t].path] = e]
        /\ Return(t, Void)
     \/ ~ Hit(t) /\ Goto(t, "create") /\ UNCHANGED <<entries, ret>>
  /\ UNCHANGED <<store_all_in_memory, calls, History>>

setCommitRule(t) ==
  Update(t, "setCommitRule",
         [Old(t) EXCEPT !.commit_rule = Arg(t).commit_rule])

addProducer(t) ==
  Update(t, "addProducer",
         [Old(t) EXCEPT !.producers = AppendNew(@, Strip[Head(Arg(t).producers)])])
addConsumer(t) ==
  Update(t, "addConsumer",
         [Old(t) EXCEPT !.consumers = AppendNew(@, Strip[Head(Arg(t).consumers)])])

(* On a miss addFileDependency also calls setCommitRule(path, ON_FILE), a  *)
(* lookup section ("rule") with a create section of its own.               *)
addFileDependency(t) ==
  \/ Update(t, "addFileDependency",
            [Old(t) EXCEPT !.file_dependencies =
               AppendNew(@, Head(Arg(t).file_dependencies))])
  \/ /\ frame[t].api = "addFileDependency" /\ frame[t].at = "rule"
     /\ \/ /\ Hit(t) /\ Goto(t, "body")
           /\ entries' = [entries EXCEPT ![frame[t].path].commit_rule = "on_file"]
        \/ ~ Hit(t) /\ Goto(t, "create") /\ UNCHANGED entries
     /\ UNCHANGED <<store_all_in_memory, ret, calls, History>>

(* isProducer and isConsumer look through every pattern that matches.      *)
isProducer(t) ==
  /\ In(t, "isProducer")
  /\ \/ /\ \E q \in Registered :
             /\ <<q, frame[t].path>> \in Matches
             /\ Head(Arg(t).producers) \in Range(entries[q].producers)
        /\ Return(t, Flag(TRUE))
     \/ /\ \A q \in Registered :
             <<q, frame[t].path>> \in Matches =>
               Head(Arg(t).producers) \notin Range(entries[q].producers)
        /\ Goto(t, "create") /\ UNCHANGED ret
  /\ UNCHANGED <<entries, store_all_in_memory, calls, History>>
isConsumer(t) ==
  /\ In(t, "isConsumer")
  /\ \/ /\ \E q \in Registered :
             /\ <<q, frame[t].path>> \in Matches
             /\ Head(Arg(t).consumers) \in Range(entries[q].consumers)
        /\ Return(t, Flag(TRUE))
     \/ /\ \A q \in Registered :
             <<q, frame[t].path>> \in Matches =>
               Head(Arg(t).consumers) \notin Range(entries[q].consumers)
        /\ Goto(t, "create") /\ UNCHANGED ret
  /\ UNCHANGED <<entries, store_all_in_memory, calls, History>>

(* The second section, and where each method goes from it.                 *)
AfterCreate(api) == CASE api \in {"isFile", "isDirectory"} -> "tail"
                      [] api = "addFileDependency"         -> "rule"
                      [] OTHER                             -> "body"
Create(t) ==
  /\ frame[t].at = "create"
  /\ entries' \in _newFile(frame[t].path)
  /\ \/ frame[t].api \in Scans /\ Return(t, Flag(FALSE))
     \/ /\ frame[t].api \notin Scans
        /\ Goto(t, AfterCreate(frame[t].api)) /\ UNCHANGED ret
  /\ UNCHANGED <<store_all_in_memory, calls, History>>

-----------------------------------------------------------------------------
(* Methods that walk over a list of paths, one call per member.            *)

Looping(t, api) == frame[t].api = api /\ frame[t].at = "loop"
Todo(t)         == frame[t].todo
Pop(t)          == frame' = [frame EXCEPT ![t].todo = Tail(@)]

(* getPaths: the keys as they are now, in the map's order.                 *)
Snapshot(t) ==
  /\ frame[t].at = "snapshot"
  /\ \E s \in Listings(Registered) :
       frame' = [frame EXCEPT ![t].todo = s, ![t].at = "loop"]
  /\ UNCHANGED <<entries, store_all_in_memory, ret, calls, History>>

(* One iteration: the setter applied to the first path left gives e.       *)
Each(t, e) ==
  \/ Head(Todo(t)) = EmptyPath /\ Pop(t) /\ UNCHANGED entries
  \/ /\ Head(Todo(t)) \in Registered \ {EmptyPath} /\ Pop(t)
     /\ entries' = [entries EXCEPT ![Head(Todo(t))] = e]
  \/ /\ Head(Todo(t)) \notin Registered \cup {EmptyPath}
     /\ entries' \in _newFile(Head(Todo(t))) /\ UNCHANGED frame

setAllStoreInMemory(t) ==
  \/ /\ frame[t].at = "flag" /\ Goto(t, "snapshot")
     /\ store_all_in_memory' = TRUE
     /\ UNCHANGED <<entries, ret, calls, History>>
  \/ /\ Looping(t, "setAllStoreInMemory") /\ Todo(t) # <<>>
     /\ Each(t, [entries[Head(Todo(t))] EXCEPT !.store_in_memory = TRUE])
     /\ fsChoice' = IF Head(Todo(t)) \in Registered \ {EmptyPath}
                    THEN fsChoice \ {Head(Todo(t))} ELSE fsChoice
     /\ UNCHANGED <<store_all_in_memory, ret, calls, allInMemory>>
  \/ /\ Looping(t, "setAllStoreInMemory") /\ Todo(t) = <<>>
     /\ allInMemory' = TRUE /\ Return(t, Void)
     /\ UNCHANGED <<entries, store_all_in_memory, calls, fsChoice>>

setDirectoryFileCount(t) ==
  \/ /\ Looping(t, "setDirectoryFileCount") /\ Todo(t) # <<>>
     /\ Each(t, [entries[Head(Todo(t))] EXCEPT !.is_file = FALSE])
     /\ UNCHANGED <<store_all_in_memory, ret, calls, History>>
  \/ /\ Looping(t, "setDirectoryFileCount") /\ Todo(t) = <<>>
     /\ \/ /\ Hit(t) /\ Return(t, Void)
           /\ entries' = [entries EXCEPT ![frame[t].path] =
                [@ EXCEPT !.directory_children_count =
                            Arg(t).directory_children_count,
                          !.enable_directory_count_update = FALSE]]
        \/ /\ ~ Hit(t) /\ Goto(t, "snapshot") /\ UNCHANGED ret
           /\ entries' \in _newFile(frame[t].path)
     /\ UNCHANGED <<store_all_in_memory, calls, History>>

setFileDeps(t) ==
  \/ /\ Looping(t, "setFileDeps") /\ Todo(t) # <<>> /\ Pop(t)
     /\ entries' \in _newFile(Head(Todo(t)))
     /\ UNCHANGED <<store_all_in_memory, ret, calls, History>>
  \/ /\ Looping(t, "setFileDeps") /\ Todo(t) = <<>>
     /\ \/ /\ Hit(t) /\ Return(t, Void)
           /\ entries' = [entries EXCEPT ![frame[t].path].file_dependencies =
                            Arg(t).file_dependencies]
        \/ /\ ~ Hit(t) /\ UNCHANGED ret
           /\ entries' \in _newFile(frame[t].path)
           /\ frame' = [frame EXCEPT ![t].todo = Arg(t).file_dependencies]
     /\ UNCHANGED <<store_all_in_memory, calls, History>>

-----------------------------------------------------------------------------
(* getDirectoryFileCount runs _newFile without the lock, so its reads and  *)
(* writes are steps of their own: the search for the path and its longest  *)
(* match ("find"), the emplace, which leaves an entry that has appeared    *)
(* meanwhile alone ("emplace"), and the parent's counter, read ("count")   *)
(* and written back ("store").                                             *)

getDirectoryFileCount(t) ==
  /\ In(t, "getDirectoryFileCount")
  /\ \/ Hit(t) /\ Return(t, Num(Old(t).directory_children_count))
     \/ ~ Hit(t) /\ Goto(t, "find") /\ UNCHANGED ret
  /\ UNCHANGED <<entries, store_all_in_memory, calls, History>>

UnlockedFind(t) ==
  /\ frame[t].at = "find"
  /\ \/ Hit(t) /\ Goto(t, "body")
     \/ /\ ~ Hit(t)
        /\ \E e \in Drafts(frame[t].path) :
             frame' = [frame EXCEPT ![t].draft = e, ![t].at = "emplace"]
  /\ UNCHANGED <<entries, store_all_in_memory, ret, calls, History>>

UnlockedEmplace(t) ==
  /\ frame[t].at = "emplace" /\ Goto(t, "count")
  /\ entries' = IF Hit(t) THEN entries
                ELSE [entries EXCEPT ![frame[t].path] = frame[t].draft]
  /\ UNCHANGED <<store_all_in_memory, ret, calls, History>>

UnlockedCount(t) ==
  LET d == Parent[frame[t].path]
  IN  /\ frame[t].at = "count"
      /\ \/ /\ Counting(entries, d)
            /\ frame' = [frame EXCEPT ![t].draft = entries[d],
                                      ![t].at = "store"]
         \/ ~ Counting(entries, d) /\ Goto(t, "body")
      /\ UNCHANGED <<entries, store_all_in_memory, ret, calls, History>>

UnlockedStore(t) ==
  LET d == Parent[frame[t].path]
  IN  /\ frame[t].at = "store" /\ Goto(t, "body")
      /\ entries' = IF entries[d] = NoEntry THEN entries
                    ELSE [entries EXCEPT ![d] =
                           [@ EXCEPT !.directory_children_count =
                                frame[t].draft.directory_children_count + 1,
                              !.is_file = FALSE]]
      /\ UNCHANGED <<store_all_in_memory, ret, calls, History>>

-----------------------------------------------------------------------------
(* Methods that only read, in one section.                                 *)

Lookup(t, api, v) == /\ In(t, api) /\ Return(t, v)
                     /\ UNCHANGED <<entries, store_all_in_memory, calls, History>>

getConsumers(t) ==
  Lookup(t, "getConsumers", Apps(IF Hit(t) THEN Old(t).consumers ELSE <<>>))
getCommitOnFileDependencies(t) ==
  Lookup(t, "getCommitOnFileDependencies",
         Paths(IF Hit(t) THEN Old(t).file_dependencies ELSE <<>>))
contains(t) ==
  Lookup(t, "contains",
         Flag(\E q \in Registered : <<q, frame[t].path>> \in Matches))
size(t) == Lookup(t, "size", Num(Cardinality(Registered)))
getPaths(t) ==
  \E s \in Listings(Registered) : Lookup(t, "getPaths", Paths(s))
getFileToStoreInMemory(t) ==
  \E s \in Listings({p \in Registered : entries[p].store_in_memory}) :
    Lookup(t, "getFileToStoreInMemory", Paths(s))

-----------------------------------------------------------------------------
Init ==
  /\ entries = [p \in Path |-> NoEntry]
  /\ store_all_in_memory = FALSE
  /\ frame = [t \in Threads |-> NoFrame]
  /\ ret = [t \in Threads |-> Void]
  /\ calls = [t \in Threads |-> 0]
  /\ fsChoice = {} /\ allInMemory = FALSE

(* A step of the call thread t is in.                                      *)
Step(t) ==
  \/ setFireRule(t) \/ setPermanent(t) \/ setExclude(t) \/ setDirectory(t)
  \/ setFile(t) \/ setCommitedCloseNumber(t) \/ setStoreFileInMemory(t)
  \/ setStoreFileInFileSystem(t) \/ newFile(t) \/ add(t) \/ addEntry(t)
  \/ remove(t) \/ getCommitRule(t) \/ getFireRule(t) \/ isFirable(t)
  \/ isExcluded(t) \/ isStoredInMemory(t) \/ getCommitCloseCount(t)
  \/ getProducers(t) \/ isPermanent(t) \/ isFile(t) \/ isDirectory(t)
  \/ setCommitRule(t) \/ addProducer(t) \/ addConsumer(t)
  \/ addFileDependency(t) \/ isProducer(t) \/ isConsumer(t) \/ Create(t)
  \/ Snapshot(t) \/ setAllStoreInMemory(t) \/ setDirectoryFileCount(t)
  \/ setFileDeps(t) \/ getDirectoryFileCount(t) \/ UnlockedFind(t)
  \/ UnlockedEmplace(t) \/ UnlockedCount(t) \/ UnlockedStore(t)
  \/ getConsumers(t) \/ getCommitOnFileDependencies(t) \/ contains(t)
  \/ size(t) \/ getPaths(t) \/ getFileToStoreInMemory(t)

Next == \E t \in Threads : EarlyReturn(t) \/ Call(t) \/ Step(t)

(* A thread inside a call is not descheduled for ever, and std::shared_    *)
(* mutex lets it in; nothing obliges it to make another call.              *)
Fairness == \A t \in Threads : WF_vars(Step(t))

Spec == Init /\ [][Next]_vars /\ Fairness

-----------------------------------------------------------------------------
(* Properties.                                                             *)

(* Frames of calls that can be made and that did not return at once.       *)
ValidFrame ==
  {f \in Frame : f.at # "idle" => /\ f.api \in Api /\ WellFormed(f)
                                  /\ ~ Refused(f)}

(* Every variable has its type, and a thread inside a method has the       *)
(* arguments the method needs, those that return early being done with.    *)
TypeOK ==
  /\ entries \in [Path -> Entry \cup {NoEntry}]
  /\ store_all_in_memory \in BOOLEAN
  /\ frame \in [Threads -> ValidFrame]
  /\ ret \in [Threads -> Value]
  /\ calls \in [Threads -> 0 .. MaxCalls]
  /\ fsChoice \subseteq Path
  /\ allInMemory \in BOOLEAN

(* Once a setAllStoreInMemory has returned, every registered path is kept  *)
(* in memory unless setStoreFileInFileSystem, or the insertion of a ready- *)
(* made entry, has put it on the file system: none slips through between   *)
(* the flag, the snapshot and the walk, whoever registers it meanwhile.    *)
AllInMemory ==
  allInMemory =>
    \A p \in Registered : entries[p].store_in_memory \/ p \in fsChoice

(* Registered paths on the file system that nobody has put there.          *)
Misplaced ==
  {p \in Registered : ~ entries[p].store_in_memory /\ p \notin fsChoice}

(* The sections of the _newFile that runs without the lock; Locked says no *)
(* thread makes the call that has them.                                    *)
Unlocked == {"find", "emplace", "count", "store"}
Locked   == \A c \in Calls : c.api # "getDirectoryFileCount"

(* Which sections belong to which method.                                  *)
SectionsOK(f) ==
  /\ f.api = "setAllStoreInMemory" => f.at \in {"flag", "snapshot", "loop"}
  /\ f.at = "flag" => f.api = "setAllStoreInMemory"
  /\ f.at \in Unlocked => f.api = "getDirectoryFileCount"

(* Why AllInMemory holds when every section is locked: from its flag on, no*)
(* step adds a misplaced path, and the walk of a setAllStoreInMemory still *)
(* has all of them ahead of it.  The empty path, which the walk skips, is  *)
(* never misplaced.                                                        *)
StorageInv ==
  /\ EmptyPath \notin Misplaced
  /\ \A t \in Threads :
       /\ SectionsOK(frame[t])
       /\ frame[t].api = "setAllStoreInMemory" /\ frame[t].at # "flag" =>
            store_all_in_memory
       /\ Looping(t, "setAllStoreInMemory") => Misplaced \subseteq Range(Todo(t))
  /\ allInMemory => store_all_in_memory /\ Misplaced = {}

(* The call of thread t to one of methods M on path p ends in this step.   *)
Ends(t, M, p) ==
  frame[t].api \in M /\ frame[t].path = p /\ frame'[t] = NoFrame

(* The applications that call c makes producers of its path.               *)
Credited(c) == IF c.api = "addProducer" THEN {Strip[Head(c.arg.producers)]}
               ELSE IF c.api \in {"add", "addEntry"} THEN Range(c.arg.producers)
               ELSE {}

(* Whom isProducer and isConsumer would answer "yes" for.                  *)
ProducersOf(p) == UNION {Range(entries[q].producers) :
                           q \in {r \in Registered : <<r, p>> \in Matches}}
ConsumersOf(p) == UNION {Range(entries[q].consumers) :
                           q \in {r \in Registered : <<r, p>> \in Matches}}

(* A step that loses no application of any path.                           *)
KeepsRoles ==
  \A p \in Path :
    \/ ProducersOf(p) \subseteq ProducersOf(p)'
         /\ ConsumersOf(p) \subseteq ConsumersOf(p)'
    \/ \E t \in Threads, q \in Path :
         <<q, p>> \in Matches /\ Ends(t, {"remove", "add"}, q)

(* An application that is a producer or consumer of a path stays one until *)
(* some call removes or overwrites an entry that matches the path: two     *)
(* threads that both find a path missing and both register it do not lose  *)
(* each other's applications.                                              *)
NoLostRoles == [][KeepsRoles]_vars

(* A step that leaves the counts alone that do not follow the children.    *)
KeepsFrozenCounts ==
  \A p \in Registered :
    \/ entries[p].enable_directory_count_update
    \/ /\ p \in Registered' /\ ~ entries'[p].enable_directory_count_update
       /\ entries'[p].directory_children_count =
            entries[p].directory_children_count
    \/ \E t \in Threads :
         Ends(t, {"remove", "setDirectoryFileCount", "addEntry"}, p)

(* A count that setDirectoryFileCount has fixed (here or in the pattern the*)
(* entry was copied from) is not touched by the automatic counting: only   *)
(* calls that name the directory change it.                                *)
FrozenCount == [][KeepsFrozenCounts]_vars

Children(d) == {p \in Registered : Parent[p] = d}

NewChildren(d) == Children(d)' \ Children(d)

(* A step that adds to each count the children it registers.               *)
CountsNewChildren ==
  \A d \in Registered \ {EmptyPath} :
    /\ entries[d].enable_directory_count_update
    /\ d \in Registered' /\ entries'[d].enable_directory_count_update
    => \/ entries'[d].directory_children_count =
            entries[d].directory_children_count + Cardinality(NewChildren(d))
       \/ \E t \in Threads, p \in {d} \cup NewChildren(d) :
            Ends(t, {"addEntry"}, p)

(* While the automatic counting is on, the count of a registered directory *)
(* grows by exactly the children that get registered, each counted once.   *)
(* Only the merge of a ready-made entry may differ: it adds the count of   *)
(* the entry to the directory's own, and does not count a child it inserts.*)
CountFollowsChildren == [][CountsNewChildren]_vars

(* What an entry says about coordination (counters and storage left aside).*)
Semantics(e) == <<e.producers, e.consumers, e.commit_rule, e.fire_rule,
                  e.permanent, e.excluded, e.file_dependencies>>

(* The semantics the longest registered match gives a path that is not     *)
(* registered itself.                                                      *)
Governing(p) ==
  LET M == {q \in Registered \ {EmptyPath} : <<q, p>> \in Matches}
      L == {q \in M : \A r \in M : Length[r] <= Length[q]}
  IN  IF p \in Registered THEN {Semantics(entries[p])}
      ELSE IF L = {} THEN {Semantics(DefaultEntry)}
      ELSE {Semantics(entries[q]) : q \in L}

(* A step in which the create section of a path that is no pattern for     *)
(* others changes no semantics.                                            *)
CreatesQuietly ==
  \A t \in Threads :
    /\ frame[t].at = "create" /\ frame'[t] # frame[t]
    /\ \A q \in Path : <<frame[t].path, q>> \in Matches => q = frame[t].path
    => \A q \in Path : Governing(q)' \subseteq Governing(q)

(* Registering a path that is no pattern for others, as every query does   *)
(* with a path it does not find, changes nobody's semantics: not its own,  *)
(* nor that of any path looked up later.                                   *)
LookupsPreserveSemantics == [][CreatesQuietly]_vars

(* Every call returns: the "register it and try again" recursions end.     *)
CallsReturn ==
  \A t \in Threads : frame[t].at # "idle" ~> frame[t].at = "idle"

=============================================================================
