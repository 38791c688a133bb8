---------------------------- MODULE EngineProofs ----------------------------
(***************************************************************************)
(* Proofs about Engine for every set of paths, threads, patterns and calls.*)
(***************************************************************************)
EXTENDS Engine, TLAPS, FiniteSetTheorems, WellFoundedInduction

(* Induction over the natural numbers, for a set instead of a predicate.   *)
LEMMA SetInduction ==
  ASSUME NEW T, 0 \in T, \A n \in T \cap Nat : n + 1 \in T
  PROVE  \A n \in Nat : n \in T
<1> SUFFICES ASSUME NEW k \in Nat, k \notin T PROVE FALSE
  OBVIOUS
<1> DEFINE C == Nat \ T
           R == OpToRel(<, Nat)
<1>1. IsWellFoundedOn(R, Nat)
  BY NatLessThanWellFounded
<1>2. PICK x \in C : \A y \in C : ~ (<<y, x>> \in R)
  <2>1. C \subseteq Nat /\ C # {}
    OBVIOUS
  <2> HIDE DEF C, R
  <2> QED
    BY <1>1, <2>1, WFMin
<1>3. x # 0 /\ x - 1 \in Nat
  OBVIOUS
<1>4. <<x - 1, x>> \in R
  BY <1>3 DEF OpToRel
<1>5. x - 1 \in T
  BY <1>2, <1>3, <1>4
<1>6. (x - 1) + 1 \in T
  BY <1>3, <1>5
<1> QED
  BY <1>6

(* The default entry is an entry.                                          *)
LEMMA DefaultEntryType == DefaultEntry \in Entry
  BY DEF DefaultEntry, Entry, AnyCommitRule, AnyFireRule, CommitRule, FireRule

(* The entry _newFile builds is an entry.                                  *)
LEMMA DraftsType ==
  ASSUME TypeOK, NEW p \in Path
  PROVE  Drafts(p) \subseteq Entry
<1>1. \A q \in LongestMatches(p) : entries[q] \in Entry
  BY DEF LongestMatches, Registered, TypeOK
<1>2. \A e \in Entry :
        [e EXCEPT !.store_in_memory = @ \/ store_all_in_memory] \in Entry
  BY DEF Entry, TypeOK
<1> QED
  BY <1>1, <1>2, DefaultEntryType DEF Drafts

(* Counting one more child gives an entry.                                 *)
LEMMA OneMoreChildType == \A e \in Entry : OneMoreChild(e) \in Entry
<1> SUFFICES ASSUME NEW e \in Entry PROVE OneMoreChild(e) \in Entry
  OBVIOUS
<1>1. e.directory_children_count + 1 \in Int
  BY DEF Entry
<1> QED
  BY <1>1 DEF Entry, OneMoreChild

(* Registering a path yields a table.                                      *)
LEMMA NewFileType ==
  ASSUME TypeOK, NEW p \in Path, NEW m \in _newFile(p)
  PROVE  m \in [Path -> Entry \cup {NoEntry}]
<1>1. CASE p = EmptyPath \/ p \in Registered
  BY <1>1 DEF _newFile, TypeOK
<1>2. CASE ~ (p = EmptyPath \/ p \in Registered)
  <2>1. PICK e \in Drafts(p) :
          m = compute_directory_entry_count([entries EXCEPT ![p] = e], p)
    BY <1>2 DEF _newFile
  <2> DEFINE n == [entries EXCEPT ![p] = e]
             d == Parent[p]
  <2>2. n \in [Path -> Entry \cup {NoEntry}]
    BY DraftsType DEF TypeOK
  <2>3. d \in Path
    BY ConstantsAssumption
  <2>4. CASE Counting(n, d)
    <3>1. n[d] \in Entry
      BY <2>2, <2>3, <2>4 DEF Counting
    <3>2. OneMoreChild(n[d]) \in Entry
      BY <3>1, OneMoreChildType
    <3>3. m = [n EXCEPT ![d] = OneMoreChild(n[d])]
      BY <2>1, <2>4 DEF compute_directory_entry_count
    <3> QED
      BY <2>2, <2>3, <3>2, <3>3
  <2>5. CASE ~ Counting(n, d)
    BY <2>1, <2>2, <2>5 DEF compute_directory_entry_count
  <2> QED
    BY <2>4, <2>5
<1> QED
  BY <1>1, <1>2

(* Registering a path, unless it is the empty one, gives it an entry.      *)
LEMMA NewFileRegisters ==
  ASSUME TypeOK, NEW p \in Path, NEW m \in _newFile(p), p # EmptyPath
  PROVE  m[p] \in Entry
<1>1. CASE p \in Registered
  BY <1>1 DEF _newFile, Registered, TypeOK
<1>2. CASE p \notin Registered
  <2>1. PICK e \in Drafts(p) :
          m = compute_directory_entry_count([entries EXCEPT ![p] = e], p)
    BY <1>2 DEF _newFile
  <2> DEFINE n == [entries EXCEPT ![p] = e]
  <2>2. n[p] \in Entry /\ n \in [Path -> Entry \cup {NoEntry}]
    BY DraftsType DEF TypeOK
  <2> HIDE DEF n
  <2>3. m[p] = n[p] \/ m[p] = OneMoreChild(n[p])
    BY <2>1, <2>2 DEF compute_directory_entry_count, n
  <2> QED
    BY <2>2, <2>3, OneMoreChildType
<1> QED
  BY <1>1, <1>2

(* getPaths lists paths.                                                   *)
LEMMA ListingsType ==
  ASSUME NEW S \in SUBSET Path, NEW s \in Listings(S)
  PROVE  s \in Seq(Path)
<1>1. Cardinality(S) \in Nat
  BY ConstantsAssumption, FS_Subset, FS_CardinalityType
<1> QED
  BY <1>1 DEF Listings

(* A frame of the same call is as valid.                                   *)
LEMMA SameCallValid ==
  ASSUME NEW g \in ValidFrame, g.at # "idle", NEW f \in Frame,
         f.api = g.api, f.path = g.path, f.arg = g.arg
  PROVE  f \in ValidFrame
BY DEF ValidFrame, WellFormed, Refused, EmptyGuard, BadRule, NothingToDo

(* Jumping to another section of the same call keeps the frames valid.     *)
LEMMA GotoType ==
  ASSUME TypeOK, NEW t \in Threads, NEW l \in Label,
         frame[t].at # "idle", Goto(t, l)
  PROVE  frame' \in [Threads -> ValidFrame]
<1> DEFINE f == [frame[t] EXCEPT !.at = l]
<1>1. frame[t] \in ValidFrame
  BY DEF TypeOK
<1>2. f \in Frame /\ f.api = frame[t].api /\ f.path = frame[t].path
        /\ f.arg = frame[t].arg
  BY <1>1 DEF ValidFrame, Frame
<1>3. f \in ValidFrame
  BY <1>1, <1>2, SameCallValid
<1> QED
  BY <1>3 DEF Goto, TypeOK

(* Returning keeps the frames and the results valid.                       *)
LEMMA ReturnType ==
  ASSUME TypeOK, NEW t \in Threads, NEW v \in Value, Return(t, v)
  PROVE  frame' \in [Threads -> ValidFrame] /\ ret' \in [Threads -> Value]
<1>1. NoFrame \in ValidFrame
  BY DefaultEntryType, PathAssumption DEF NoFrame, ValidFrame, Frame, Label
<1> QED
  BY <1>1 DEF Return, TypeOK

(* What the code finds in the frame of a call in progress.                 *)
LEMMA FrameFacts ==
  ASSUME TypeOK, NEW t \in Threads, frame[t].at # "idle"
  PROVE  /\ frame[t] \in ValidFrame /\ frame[t] \in Frame
         /\ frame[t].path \in Path /\ Arg(t) \in Entry
         /\ Todo(t) \in Seq(Path) /\ frame[t].draft \in Entry
         /\ frame[t].api \in {"addProducer", "isProducer"} =>
              Arg(t).producers # <<>>
         /\ frame[t].api \in {"addConsumer", "isConsumer"} =>
              Arg(t).consumers # <<>>
         /\ frame[t].api = "addFileDependency" =>
              Arg(t).file_dependencies # <<>>
         /\ frame[t].path = EmptyPath => frame[t].api \in NoPathNeeded
         /\ Hit(t) => Old(t) \in Entry
<1>1. frame[t] \in ValidFrame /\ frame[t] \in Frame
  BY DEF TypeOK, ValidFrame
<1>2. /\ frame[t].path \in Path /\ Arg(t) \in Entry
      /\ Todo(t) \in Seq(Path) /\ frame[t].draft \in Entry
  BY <1>1 DEF Frame, Arg, Todo
<1>3. ~ EmptyGuard(frame[t]) /\ WellFormed(frame[t])
  BY <1>1 DEF ValidFrame, Refused
<1>4. Hit(t) => Old(t) \in Entry
  BY <1>2 DEF Hit, Old, Registered, TypeOK
<1> QED
  BY <1>1, <1>2, <1>3, <1>4 DEF Arg, EmptyGuard, WellFormed

(* Every assignment the methods make to an entry gives an entry.           *)
LEMMA EntryUpdates ==
  ASSUME NEW e \in Entry, NEW a \in Entry
  PROVE  /\ [e EXCEPT !.fire_rule = a.fire_rule] \in Entry
         /\ [e EXCEPT !.commit_rule = a.commit_rule] \in Entry
         /\ [e EXCEPT !.commit_rule = "on_file"] \in Entry
         /\ [e EXCEPT !.permanent = a.permanent] \in Entry
         /\ [e EXCEPT !.excluded = a.excluded] \in Entry
         /\ [e EXCEPT !.is_file = FALSE] \in Entry
         /\ [e EXCEPT !.is_file = TRUE] \in Entry
         /\ [e EXCEPT !.store_in_memory = FALSE] \in Entry
         /\ [e EXCEPT !.store_in_memory = TRUE] \in Entry
         /\ [e EXCEPT !.commit_on_close_count = a.commit_on_close_count] \in Entry
         /\ [e EXCEPT !.file_dependencies = a.file_dependencies] \in Entry
         /\ [e EXCEPT !.directory_children_count = a.directory_children_count,
                      !.enable_directory_count_update = FALSE] \in Entry
         /\ [e EXCEPT !.directory_children_count = a.directory_children_count + 1,
                      !.is_file = FALSE] \in Entry
         /\ [e EXCEPT !.producers = a.producers, !.consumers = a.consumers,
                      !.commit_rule = a.commit_rule, !.fire_rule = a.fire_rule,
                      !.permanent = a.permanent, !.excluded = a.excluded,
                      !.file_dependencies = a.file_dependencies] \in Entry
<1>1. "on_file" \in AnyCommitRule
  BY DEF AnyCommitRule, CommitRule
<1>2. a.directory_children_count + 1 \in Int
  BY DEF Entry
<1> QED
  BY <1>1, <1>2 DEF Entry

(* Appending an application or a path gives an entry.                      *)
LEMMA AppendNewType ==
  ASSUME NEW S, NEW s \in Seq(S), NEW x \in S
  PROVE  AppendNew(s, x) \in Seq(S)
BY DEF AppendNew

(* Merging two entries gives an entry.                                     *)
LEMMA MergeType == \A l, r \in Entry : Merge(l, r) \in Entry
<1> SUFFICES ASSUME NEW l \in Entry, NEW r \in Entry
             PROVE  Merge(l, r) \in Entry
  OBVIOUS
<1>1. /\ l.producers \o r.producers \in Seq(App)
      /\ l.consumers \o r.consumers \in Seq(App)
      /\ l.file_dependencies \o r.file_dependencies \in Seq(Path)
  BY DEF Entry
<1>2. /\ l.directory_children_count + r.directory_children_count \in Int
      /\ l.commit_on_close_count + r.commit_on_close_count \in Int
  BY DEF Entry
<1>3. r.commit_rule \in AnyCommitRule /\ r.fire_rule \in AnyFireRule
  BY DEF Entry
<1> QED
  BY <1>1, <1>2, <1>3 DEF Entry, Merge

(* Storing an entry gives a table.                                         *)
LEMMA StoreType ==
  ASSUME TypeOK, NEW p \in Path, NEW e \in Entry
  PROVE  [entries EXCEPT ![p] = e] \in [Path -> Entry \cup {NoEntry}]
BY DEF TypeOK

(* The results the methods return are values.                              *)
LEMMA ValueType ==
  /\ Void \in Value /\ Throws \in Value
  /\ \A b \in BOOLEAN : Flag(b) \in Value
  /\ \A n \in Int : Num(n) \in Value
  /\ \A r \in AnyCommitRule \cup AnyFireRule : Rule(r) \in Value
  /\ \A s \in Seq(App) : Apps(s) \in Value
  /\ \A s \in Seq(Path) : Paths(s) \in Value
<1>1. Void \in Value /\ Throws \in Value
  BY DEF Value
<1>2. \A b \in BOOLEAN : Flag(b) \in Value
  BY DEF Value, Flag
<1>3. \A n \in Int : Num(n) \in Value
  BY DEF Value, Num
<1>4. \A r \in AnyCommitRule \cup AnyFireRule : Rule(r) \in Value
  BY DEF Value, Rule
<1>5. \A s \in Seq(App) : Apps(s) \in Value
  BY DEF Value, Apps
<1>6. \A s \in Seq(Path) : Paths(s) \in Value
  BY DEF Value, Paths
<1> QED
  BY <1>1, <1>2, <1>3, <1>4, <1>5, <1>6

-----------------------------------------------------------------------------
(* One lemma per shape of method.                                          *)

(* "Assign or register and start over" keeps table, frames and results.    *)
LEMMA AssignType ==
  ASSUME TypeOK, NEW t \in Threads, frame[t].at # "idle",
         NEW e, Hit(t) => e \in Entry, Assign(t, e)
  PROVE  /\ entries' \in [Path -> Entry \cup {NoEntry}]
         /\ frame' \in [Threads -> ValidFrame] /\ ret' \in [Threads -> Value]
<1>1. CASE Hit(t) /\ entries' = [entries EXCEPT ![frame[t].path] = e]
                  /\ Return(t, Void)
  BY <1>1, FrameFacts, StoreType, ReturnType, ValueType
<1>2. CASE entries' \in _newFile(frame[t].path) /\ UNCHANGED <<frame, ret>>
  BY <1>2, FrameFacts, NewFileType DEF TypeOK
<1> QED
  BY <1>1, <1>2 DEF Assign

(* A setter keeps the types.                                               *)
LEMMA SetterType ==
  ASSUME TypeOK, NEW t \in Threads, NEW api, NEW e, Hit(t) => e \in Entry,
         Setter(t, api, e)
  PROVE  TypeOK'
<1>1. frame[t].at # "idle" /\ Assign(t, e)
  BY DEF Setter, In
<1> QED
  BY <1>1, AssignType DEF Setter, History, TypeOK

(* A method that looks up and then changes keeps the types.                *)
LEMMA UpdateType ==
  ASSUME TypeOK, NEW t \in Threads, NEW api, NEW e,
         Hit(t) /\ frame[t].api = api => e \in Entry, Update(t, api, e)
  PROVE  TypeOK'
<1>1. frame[t].at # "idle" /\ frame[t].api = api
  BY DEF Update, In
<1>2. CASE Hit(t) /\ entries' = [entries EXCEPT ![frame[t].path] = e]
                  /\ Return(t, Void)
  BY <1>1, <1>2, FrameFacts, StoreType, ReturnType, ValueType
  DEF Update, History, TypeOK
<1>3. CASE Goto(t, "create") /\ UNCHANGED <<entries, ret>>
  BY <1>1, <1>3, GotoType DEF Update, History, TypeOK, Label
<1> QED
  BY <1>2, <1>3 DEF Update

(* A query keeps the types.                                                *)
LEMMA QueryType ==
  ASSUME TypeOK, NEW t \in Threads, frame[t].at # "idle",
         NEW v, Hit(t) => v \in Value, Query(t, v)
  PROVE  TypeOK'
<1>1. CASE Hit(t) /\ Return(t, v)
  BY <1>1, ReturnType DEF Query, History, TypeOK
<1>2. CASE Goto(t, "create") /\ UNCHANGED ret
  BY <1>2, GotoType DEF Query, History, TypeOK, Label
<1> QED
  BY <1>1, <1>2 DEF Query

(* A read-only method keeps the types.                                     *)
LEMMA LookupType ==
  ASSUME TypeOK, NEW t \in Threads, NEW api, NEW v \in Value, Lookup(t, api, v)
  PROVE  TypeOK'
BY ReturnType DEF Lookup, History, TypeOK

(* One iteration of a walk keeps table and frames.                         *)
LEMMA EachType ==
  ASSUME TypeOK, NEW t \in Threads, frame[t].at = "loop", Todo(t) # <<>>,
         NEW e, Head(Todo(t)) \in Registered => e \in Entry, Each(t, e)
  PROVE  /\ entries' \in [Path -> Entry \cup {NoEntry}]
         /\ frame' \in [Threads -> ValidFrame]
<1> DEFINE p == Head(Todo(t))
<1>1. p \in Path /\ Tail(Todo(t)) \in Seq(Path)
  BY FrameFacts
<1>2. ASSUME Pop(t) PROVE frame' \in [Threads -> ValidFrame]
  <2> DEFINE f == [frame[t] EXCEPT !.todo = Tail(Todo(t))]
  <2>2. f \in Frame /\ f.api = frame[t].api /\ f.path = frame[t].path
          /\ f.arg = frame[t].arg
    BY <1>1, FrameFacts DEF Frame
  <2>1. f \in ValidFrame
    BY <2>2, FrameFacts, SameCallValid
  <2> QED
    BY <2>1, <1>2 DEF Pop, Todo, TypeOK
<1>3. CASE p = EmptyPath /\ Pop(t) /\ UNCHANGED entries
  BY <1>2, <1>3 DEF TypeOK
<1>4. CASE p \in Registered /\ Pop(t) /\ entries' = [entries EXCEPT ![p] = e]
  BY <1>1, <1>2, <1>4, StoreType
<1>5. CASE entries' \in _newFile(p) /\ UNCHANGED frame
  BY <1>1, <1>5, NewFileType DEF TypeOK
<1> QED
  BY <1>3, <1>4, <1>5 DEF Each

-----------------------------------------------------------------------------
(* One lemma per group of actions.                                         *)

(* The setters, newFile, both add methods and remove keep the types.       *)
LEMMA SettersType ==
  ASSUME TypeOK, NEW t \in Threads,
         \/ setFireRule(t) \/ setPermanent(t) \/ setExclude(t)
         \/ setDirectory(t) \/ setFile(t) \/ setCommitedCloseNumber(t)
         \/ setStoreFileInMemory(t) \/ setStoreFileInFileSystem(t)
         \/ newFile(t) \/ add(t) \/ addEntry(t) \/ remove(t)
  PROVE  TypeOK'
<1> DEFINE p == frame[t].path
<1>1. frame[t].at # "idle"
  BY DEF In, Setter, setFireRule, setPermanent, setExclude, setDirectory,
         setFile, setCommitedCloseNumber, setStoreFileInMemory,
         setStoreFileInFileSystem, newFile, add, addEntry, remove
<1>2. p \in Path /\ Arg(t) \in Entry /\ (Hit(t) => Old(t) \in Entry)
  BY <1>1, FrameFacts
<1>3. CASE setFireRule(t)
  BY <1>2, <1>3, EntryUpdates, SetterType DEF setFireRule
<1>4. CASE setPermanent(t)
  BY <1>2, <1>4, EntryUpdates, SetterType DEF setPermanent
<1>5. CASE setExclude(t)
  BY <1>2, <1>5, EntryUpdates, SetterType DEF setExclude
<1>6. CASE setDirectory(t)
  BY <1>2, <1>6, EntryUpdates, SetterType DEF setDirectory
<1>7. CASE setFile(t)
  BY <1>2, <1>7, EntryUpdates, SetterType DEF setFile
<1>8. CASE setCommitedCloseNumber(t)
  BY <1>2, <1>8, EntryUpdates, SetterType DEF setCommitedCloseNumber
<1>9. CASE setStoreFileInMemory(t)
  <2>1. Hit(t) => [Old(t) EXCEPT !.store_in_memory = TRUE] \in Entry
    BY <1>2, EntryUpdates
  <2> QED
    BY <1>1, <1>9, <2>1, AssignType DEF setStoreFileInMemory, TypeOK
<1>10. CASE setStoreFileInFileSystem(t)
  <2>1. Hit(t) => [Old(t) EXCEPT !.store_in_memory = FALSE] \in Entry
    BY <1>2, EntryUpdates
  <2> QED
    BY <1>1, <1>2, <1>10, <2>1, AssignType DEF setStoreFileInFileSystem, TypeOK
<1>11. CASE newFile(t)
  BY <1>2, <1>11, NewFileType, ReturnType, ValueType
  DEF newFile, History, TypeOK
<1>12. CASE add(t)
  <2> DEFINE Over(e) ==
        [e EXCEPT !.producers = Arg(t).producers,
                  !.consumers = Arg(t).consumers,
                  !.commit_rule = Arg(t).commit_rule,
                  !.fire_rule = Arg(t).fire_rule,
                  !.permanent = Arg(t).permanent,
                  !.excluded = Arg(t).excluded,
                  !.file_dependencies = Arg(t).file_dependencies]
  <2>1. PICK m \in _newFile(p) : entries' = [m EXCEPT ![p] = Over(m[p])]
    BY <1>12 DEF add
  <2>2. m \in [Path -> Entry \cup {NoEntry}]
    BY <1>2, <2>1, NewFileType
  <2>3. p # EmptyPath
    BY <1>1, <1>12, FrameFacts DEF add, In, NoPathNeeded, Lookups
  <2>4. m[p] \in Entry
    BY <1>2, <2>1, <2>3, NewFileRegisters DEF TypeOK
  <2>5. Over(m[p]) \in Entry
    BY <1>2, <2>4, EntryUpdates
  <2>6. entries' \in [Path -> Entry \cup {NoEntry}]
    BY <2>1, <2>2, <2>5
  <2> QED
    BY <1>12, <2>6, ReturnType, ValueType DEF add, History, TypeOK
<1>13. CASE addEntry(t)
  <2>1. (IF Hit(t) THEN Merge(entries[p], Arg(t)) ELSE Arg(t)) \in Entry
    BY <1>2, MergeType DEF Old
  <2>2. entries' \in [Path -> Entry \cup {NoEntry}]
    BY <1>2, <1>13, <2>1, StoreType DEF addEntry
  <2> QED
    BY <1>2, <1>13, <2>2, ReturnType, ValueType DEF addEntry, TypeOK
<1>14. CASE remove(t)
  BY <1>2, <1>14, ReturnType, ValueType DEF remove, TypeOK
<1> QED
  BY <1>3, <1>4, <1>5, <1>6, <1>7, <1>8, <1>9, <1>10, <1>11, <1>12, <1>13,
     <1>14

(* The queries keep the types.                                             *)
LEMMA QueriesType ==
  ASSUME TypeOK, NEW t \in Threads,
         \/ getCommitRule(t) \/ getFireRule(t) \/ isFirable(t)
         \/ isExcluded(t) \/ isStoredInMemory(t) \/ getCommitCloseCount(t)
         \/ getProducers(t) \/ isPermanent(t) \/ isFile(t) \/ isDirectory(t)
  PROVE  TypeOK'
<1>1. frame[t].at # "idle"
  BY DEF In, getCommitRule, getFireRule, isFirable, isExcluded,
         isStoredInMemory, getCommitCloseCount, getProducers, isPermanent,
         isFile, isDirectory
<1>2. Hit(t) => Old(t) \in Entry
  BY <1>1, FrameFacts
<1>3. Hit(t) => /\ Rule(Old(t).commit_rule) \in Value
                /\ Rule(Old(t).fire_rule) \in Value
                /\ Flag(Old(t).fire_rule = "no_update") \in Value
                /\ Flag(Old(t).excluded) \in Value
                /\ Flag(Old(t).store_in_memory) \in Value
                /\ Num(Old(t).commit_on_close_count) \in Value
                /\ Apps(Old(t).producers) \in Value
                /\ Flag(Old(t).permanent) \in Value
                /\ Flag(~ Old(t).permanent) \in Value
                /\ Flag(Old(t).is_file) \in Value
                /\ Flag(~ Old(t).is_file) \in Value
  BY <1>2, ValueType DEF Entry
<1>4. CASE getCommitRule(t)
  BY <1>1, <1>3, <1>4, QueryType DEF getCommitRule
<1>5. CASE getFireRule(t)
  BY <1>1, <1>3, <1>5, QueryType DEF getFireRule
<1>6. CASE isFirable(t)
  BY <1>1, <1>3, <1>6, QueryType DEF isFirable
<1>7. CASE isExcluded(t)
  BY <1>1, <1>3, <1>7, QueryType DEF isExcluded
<1>8. CASE isStoredInMemory(t)
  BY <1>1, <1>3, <1>8, QueryType DEF isStoredInMemory
<1>9. CASE getCommitCloseCount(t)
  BY <1>1, <1>3, <1>9, QueryType DEF getCommitCloseCount
<1>10. CASE getProducers(t)
  BY <1>1, <1>3, <1>10, QueryType DEF getProducers
<1>11. CASE isPermanent(t)
  BY <1>1, <1>3, <1>11, QueryType DEF isPermanent
<1>12. CASE isFile(t)
  BY <1>1, <1>3, <1>12, QueryType DEF isFile
<1>13. CASE isDirectory(t)
  BY <1>1, <1>3, <1>13, QueryType DEF isDirectory
<1> QED
  BY <1>4, <1>5, <1>6, <1>7, <1>8, <1>9, <1>10, <1>11, <1>12, <1>13

(* The methods that look a path up and then change it, the searches for an *)
(* application and the create section keep the types.                      *)
LEMMA UpdatesType ==
  ASSUME TypeOK, NEW t \in Threads,
         \/ setCommitRule(t) \/ addProducer(t) \/ addConsumer(t)
         \/ addFileDependency(t) \/ isProducer(t) \/ isConsumer(t)
         \/ Create(t)
  PROVE  TypeOK'
<1> DEFINE p == frame[t].path
<1>1. frame[t].at # "idle"
  BY DEF In, Update, setCommitRule, addProducer, addConsumer,
         addFileDependency, isProducer, isConsumer, Create
<1>2. p \in Path /\ Arg(t) \in Entry /\ (Hit(t) => Old(t) \in Entry)
  BY <1>1, FrameFacts
<1>3. CASE setCommitRule(t)
  BY <1>2, <1>3, EntryUpdates, UpdateType DEF setCommitRule
<1>4. CASE addProducer(t)
  <2>1. ASSUME Hit(t), frame[t].api = "addProducer"
        PROVE  [Old(t) EXCEPT !.producers =
                  AppendNew(@, Strip[Head(Arg(t).producers)])] \in Entry
    <3>1. Arg(t).producers \in Seq(App) /\ Arg(t).producers # <<>>
      BY <1>1, <1>2, <2>1, FrameFacts DEF Entry
    <3>2. Strip[Head(Arg(t).producers)] \in App
      BY <3>1, ConstantsAssumption
    <3>3. AppendNew(Old(t).producers, Strip[Head(Arg(t).producers)]) \in Seq(App)
      BY <1>2, <2>1, <3>2, AppendNewType DEF Entry
    <3> QED
      BY <1>2, <2>1, <3>3 DEF Entry
  <2> QED
    BY <1>4, <2>1, UpdateType DEF addProducer
<1>5. CASE addConsumer(t)
  <2>1. ASSUME Hit(t), frame[t].api = "addConsumer"
        PROVE  [Old(t) EXCEPT !.consumers =
                  AppendNew(@, Strip[Head(Arg(t).consumers)])] \in Entry
    <3>1. Arg(t).consumers \in Seq(App) /\ Arg(t).consumers # <<>>
      BY <1>1, <1>2, <2>1, FrameFacts DEF Entry
    <3>2. Strip[Head(Arg(t).consumers)] \in App
      BY <3>1, ConstantsAssumption
    <3>3. AppendNew(Old(t).consumers, Strip[Head(Arg(t).consumers)]) \in Seq(App)
      BY <1>2, <2>1, <3>2, AppendNewType DEF Entry
    <3> QED
      BY <1>2, <2>1, <3>3 DEF Entry
  <2> QED
    BY <1>5, <2>1, UpdateType DEF addConsumer
<1>6. CASE addFileDependency(t)
  <2> DEFINE e == [Old(t) EXCEPT !.file_dependencies =
                     AppendNew(@, Head(Arg(t).file_dependencies))]
  <2>1. ASSUME Hit(t), frame[t].api = "addFileDependency" PROVE e \in Entry
    <3>1. /\ Arg(t).file_dependencies \in Seq(Path)
          /\ Arg(t).file_dependencies # <<>>
      BY <1>1, <1>2, <2>1, FrameFacts DEF Entry
    <3>2. AppendNew(Old(t).file_dependencies, Head(Arg(t).file_dependencies))
            \in Seq(Path)
      <4>1. Head(Arg(t).file_dependencies) \in Path
        BY <3>1
      <4>2. Old(t).file_dependencies \in Seq(Path)
        BY <1>2, <2>1 DEF Entry
      <4> QED
        BY <4>1, <4>2, AppendNewType
    <3> QED
      BY <1>2, <2>1, <3>2 DEF Entry
  <2>2. CASE Update(t, "addFileDependency", e)
    BY <2>1, <2>2, UpdateType
  <2>3. CASE /\ Hit(t) /\ Goto(t, "body")
             /\ entries' = [entries EXCEPT ![p].commit_rule = "on_file"]
             /\ UNCHANGED <<store_all_in_memory, ret, calls, History>>
    <3>1. entries' = [entries EXCEPT ![p] =
                        [Old(t) EXCEPT !.commit_rule = "on_file"]]
      BY <2>3 DEF Old
    <3>2. entries' \in [Path -> Entry \cup {NoEntry}]
      <4>1. [Old(t) EXCEPT !.commit_rule = "on_file"] \in Entry
        BY <1>2, <2>3, EntryUpdates
      <4> QED
        BY <1>2, <3>1, <4>1, StoreType
    <3> QED
      BY <1>1, <2>3, <3>2, GotoType DEF Label, History, TypeOK
  <2>4. CASE /\ Goto(t, "create")
             /\ UNCHANGED <<entries, store_all_in_memory, ret, calls, History>>
    BY <1>1, <2>4, GotoType DEF Label, History, TypeOK
  <2> QED
    BY <1>6, <2>2, <2>3, <2>4 DEF addFileDependency
<1>7. CASE isProducer(t)
  BY <1>1, <1>7, GotoType, ReturnType, ValueType
  DEF isProducer, Label, History, TypeOK
<1>8. CASE isConsumer(t)
  BY <1>1, <1>8, GotoType, ReturnType, ValueType
  DEF isConsumer, Label, History, TypeOK
<1>9. CASE Create(t)
  <2>1. entries' \in [Path -> Entry \cup {NoEntry}]
    BY <1>2, <1>9, NewFileType DEF Create
  <2>2. AfterCreate(frame[t].api) \in Label
    BY DEF AfterCreate, Label
  <2> QED
    BY <1>1, <1>9, <2>1, <2>2, GotoType, ReturnType, ValueType
    DEF Create, History, TypeOK
<1> QED
  BY <1>3, <1>4, <1>5, <1>6, <1>7, <1>8, <1>9

(* The answers of the early returns.                                       *)
LEMMA EmptyAnswerCases ==
  ASSUME NEW api
  PROVE  EmptyAnswer(api) \in {Flag(TRUE), Num(0), Rule("on_termination"),
                              Rule("no_update"), Apps(<<>>), Void}
BY DEF EmptyAnswer

(* Making a call, with or without an early return, keeps the types.        *)
LEMMA MadeCallType ==
  ASSUME TypeOK, NEW t \in Threads, NEW c \in ApiCall, WellFormed(c),
         Refuse(t, c) \/ Invoke(t, c)
  PROVE  TypeOK'
<1>1. CASE Refuse(t, c)
  <2>1. /\ calls[t] < MaxCalls
        /\ ret' = [ret EXCEPT ![t] =
             IF EmptyGuard(c) THEN EmptyAnswer(c.api)
             ELSE IF BadRule(c) THEN Throws ELSE Void]
        /\ calls' = [calls EXCEPT ![t] = @ + 1]
        /\ UNCHANGED <<entries, store_all_in_memory, frame, History>>
    BY <1>1 DEF Refuse
  <2>2. EmptyAnswer(c.api) \in Value
    <3>1. /\ Flag(TRUE) \in Value /\ Num(0) \in Value
          /\ Rule("on_termination") \in Value /\ Rule("no_update") \in Value
          /\ Apps(<<>>) \in Value /\ Void \in Value
      <4>1. /\ "on_termination" \in AnyCommitRule \cup AnyFireRule
            /\ "no_update" \in AnyCommitRule \cup AnyFireRule
        BY DEF AnyCommitRule, AnyFireRule, CommitRule, FireRule
      <4>2. 0 \in Int /\ <<>> \in Seq(App)
        OBVIOUS
      <4> QED
        BY <4>1, <4>2, ValueType
    <3>2. EmptyAnswer(c.api) \in {Flag(TRUE), Num(0), Rule("on_termination"),
                                 Rule("no_update"), Apps(<<>>), Void}
      BY EmptyAnswerCases
    <3> QED
      BY <3>1, <3>2
  <2>3. ret' \in [Threads -> Value]
    BY <2>1, <2>2, ValueType DEF TypeOK
  <2>4. calls' \in [Threads -> 0 .. MaxCalls]
    BY <2>1, ConstantsAssumption DEF TypeOK
  <2> QED
    BY <2>1, <2>3, <2>4 DEF History, TypeOK
<1>2. CASE Invoke(t, c)
  <2> DEFINE F ==
        [api |-> c.api, path |-> c.path, arg |-> c.arg,
         at |-> EntryPoint(c.api), draft |-> DefaultEntry,
         todo |-> IF c.api = "setFileDeps" THEN c.arg.file_dependencies
                  ELSE <<>>]
  <2>1. /\ calls[t] < MaxCalls /\ ~ Refused(c)
        /\ frame' = [frame EXCEPT ![t] = F]
        /\ ret' = [ret EXCEPT ![t] = Void]
        /\ calls' = [calls EXCEPT ![t] = @ + 1]
        /\ UNCHANGED <<entries, store_all_in_memory, History>>
    BY <1>2 DEF Invoke
  <2>3. c.api \in Api /\ c.path \in Path /\ c.arg \in Entry
    BY DEF ApiCall
  <2>4. c.arg.file_dependencies \in Seq(Path)
    BY <2>3 DEF Entry
  <2>5. EntryPoint(c.api) \in Label
    BY DEF EntryPoint, Label
  <2>6. F \in Frame
    BY <2>3, <2>4, <2>5, DefaultEntryType DEF Frame
  <2>7. F \in ValidFrame
    <3>1. WellFormed(F) /\ ~ Refused(F)
      BY <2>1 DEF WellFormed, Refused, EmptyGuard, BadRule, NothingToDo
    <3> QED
      BY <2>3, <2>6, <3>1 DEF ValidFrame
  <2>8. frame' \in [Threads -> ValidFrame]
    BY <2>1, <2>7 DEF TypeOK
  <2>9. ret' \in [Threads -> Value]
    BY <2>1, ValueType DEF TypeOK
  <2>10. calls' \in [Threads -> 0 .. MaxCalls]
    BY <2>1, ConstantsAssumption DEF TypeOK
  <2> QED
    BY <2>1, <2>8, <2>9, <2>10 DEF History, TypeOK
<1> QED
  BY <1>1, <1>2

LEMMA CallType ==
  ASSUME TypeOK, NEW t \in Threads, EarlyReturn(t) \/ Call(t)
  PROVE  TypeOK'
BY CallsAssumption, MadeCallType DEF EarlyReturn, Call

(* The walks over a list of paths keep the types.                          *)
LEMMA LoopsType ==
  ASSUME TypeOK, NEW t \in Threads,
         \/ Snapshot(t) \/ setAllStoreInMemory(t)
         \/ setDirectoryFileCount(t) \/ setFileDeps(t)
  PROVE  TypeOK'
<1> DEFINE p == frame[t].path
           h == Head(Todo(t))
<1>1. frame[t].at # "idle"
  BY DEF Looping, Snapshot, setAllStoreInMemory, setDirectoryFileCount,
         setFileDeps
<1>2. /\ p \in Path /\ Arg(t) \in Entry /\ (Hit(t) => Old(t) \in Entry)
      /\ Todo(t) \in Seq(Path)
  BY <1>1, FrameFacts
<1>3. ASSUME NEW s \in Seq(Path), NEW l \in Label
      PROVE  [frame[t] EXCEPT !.todo = s, !.at = l] \in ValidFrame
  <2>1. frame[t] \in ValidFrame /\ frame[t] \in Frame
    BY <1>1, FrameFacts
  <2> DEFINE f == [frame[t] EXCEPT !.todo = s, !.at = l]
  <2>2. f \in Frame /\ f.api = frame[t].api /\ f.path = frame[t].path
          /\ f.arg = frame[t].arg
    BY <2>1 DEF Frame
  <2> QED
    BY <1>1, <2>1, <2>2, SameCallValid
<1>4. ASSUME NEW s \in Seq(Path)
      PROVE  [frame[t] EXCEPT !.todo = s] \in ValidFrame
  <2>1. frame[t] \in ValidFrame /\ frame[t] \in Frame
    BY <1>1, FrameFacts
  <2> DEFINE f == [frame[t] EXCEPT !.todo = s]
  <2>2. f \in Frame /\ f.api = frame[t].api /\ f.path = frame[t].path
          /\ f.arg = frame[t].arg
    BY <2>1 DEF Frame
  <2> QED
    BY <1>1, <2>1, <2>2, SameCallValid
<1>5. ASSUME Todo(t) # <<>>
      PROVE  /\ h \in Path /\ Tail(Todo(t)) \in Seq(Path)
             /\ h \in Registered => entries[h] \in Entry
  BY <1>2, <1>5 DEF Registered, TypeOK
<1>6. CASE Snapshot(t)
  <2>1. PICK s \in Listings(Registered) :
          frame' = [frame EXCEPT ![t].todo = s, ![t].at = "loop"]
    BY <1>6 DEF Snapshot
  <2>2. s \in Seq(Path)
    BY ListingsType DEF Registered
  <2>3. [frame[t] EXCEPT !.todo = s, !.at = "loop"] \in ValidFrame
    BY <1>3, <2>2 DEF Label
  <2>4. frame' \in [Threads -> ValidFrame]
    BY <2>1, <2>3 DEF TypeOK
  <2> QED
    BY <1>6, <2>4 DEF Snapshot, History, TypeOK
<1>7. CASE setAllStoreInMemory(t)
  <2>1. CASE /\ Goto(t, "snapshot") /\ store_all_in_memory' = TRUE
             /\ UNCHANGED <<entries, ret, calls, History>>
    BY <1>1, <2>1, GotoType DEF Label, History, TypeOK
  <2>2. CASE /\ Looping(t, "setAllStoreInMemory") /\ Todo(t) # <<>>
             /\ Each(t, [entries[h] EXCEPT !.store_in_memory = TRUE])
             /\ fsChoice' = IF h \in Registered \ {EmptyPath}
                            THEN fsChoice \ {h} ELSE fsChoice
             /\ UNCHANGED <<store_all_in_memory, ret, calls, allInMemory>>
    <3>1. h \in Registered =>
            [entries[h] EXCEPT !.store_in_memory = TRUE] \in Entry
      BY <1>5, <2>2, EntryUpdates
    <3>2. /\ entries' \in [Path -> Entry \cup {NoEntry}]
          /\ frame' \in [Threads -> ValidFrame]
      BY <2>2, <3>1, EachType DEF Looping
    <3> QED
      BY <2>2, <3>2 DEF TypeOK
  <2>3. CASE /\ allInMemory' = TRUE /\ Return(t, Void)
             /\ UNCHANGED <<entries, store_all_in_memory, calls, fsChoice>>
    BY <2>3, ReturnType, ValueType DEF TypeOK
  <2> QED
    BY <1>7, <2>1, <2>2, <2>3 DEF setAllStoreInMemory
<1>8. CASE setDirectoryFileCount(t)
  <2>1. CASE /\ Looping(t, "setDirectoryFileCount") /\ Todo(t) # <<>>
             /\ Each(t, [entries[h] EXCEPT !.is_file = FALSE])
             /\ UNCHANGED <<store_all_in_memory, ret, calls, History>>
    <3>1. h \in Registered => [entries[h] EXCEPT !.is_file = FALSE] \in Entry
      BY <1>5, <2>1, EntryUpdates
    <3>2. /\ entries' \in [Path -> Entry \cup {NoEntry}]
          /\ frame' \in [Threads -> ValidFrame]
      BY <2>1, <3>1, EachType DEF Looping
    <3> QED
      BY <2>1, <3>2 DEF History, TypeOK
  <2>2. CASE /\ Hit(t) /\ Return(t, Void)
             /\ entries' = [entries EXCEPT ![p] =
                  [@ EXCEPT !.directory_children_count =
                              Arg(t).directory_children_count,
                            !.enable_directory_count_update = FALSE]]
             /\ UNCHANGED <<store_all_in_memory, calls, History>>
    <3>1. [Old(t) EXCEPT !.directory_children_count =
                           Arg(t).directory_children_count,
                         !.enable_directory_count_update = FALSE] \in Entry
      BY <1>2, <2>2, EntryUpdates
    <3>2. entries' \in [Path -> Entry \cup {NoEntry}]
      BY <1>2, <2>2, <3>1, StoreType DEF Old
    <3> QED
      BY <2>2, <3>2, ReturnType, ValueType DEF History, TypeOK
  <2>3. CASE /\ Goto(t, "snapshot") /\ UNCHANGED ret
             /\ entries' \in _newFile(p)
             /\ UNCHANGED <<store_all_in_memory, calls, History>>
    BY <1>1, <1>2, <2>3, GotoType, NewFileType DEF Label, History, TypeOK
  <2> QED
    BY <1>8, <2>1, <2>2, <2>3 DEF setDirectoryFileCount
<1>9. CASE setFileDeps(t)
  <2>1. CASE /\ Todo(t) # <<>> /\ Pop(t) /\ entries' \in _newFile(h)
             /\ UNCHANGED <<store_all_in_memory, ret, calls, History>>
    <3>1. frame' \in [Threads -> ValidFrame]
      BY <1>4, <1>5, <2>1 DEF Pop, Todo, TypeOK
    <3>2. entries' \in [Path -> Entry \cup {NoEntry}]
      BY <1>5, <2>1, NewFileType
    <3> QED
      BY <2>1, <3>1, <3>2 DEF History, TypeOK
  <2>2. CASE /\ Hit(t) /\ Return(t, Void)
             /\ entries' = [entries EXCEPT ![p].file_dependencies =
                              Arg(t).file_dependencies]
             /\ UNCHANGED <<store_all_in_memory, calls, History>>
    <3>1. [Old(t) EXCEPT !.file_dependencies = Arg(t).file_dependencies]
            \in Entry
      BY <1>2, <2>2, EntryUpdates
    <3>2. entries' \in [Path -> Entry \cup {NoEntry}]
      BY <1>2, <2>2, <3>1, StoreType DEF Old
    <3> QED
      BY <2>2, <3>2, ReturnType, ValueType DEF History, TypeOK
  <2>3. CASE /\ UNCHANGED ret /\ entries' \in _newFile(p)
             /\ frame' = [frame EXCEPT ![t].todo = Arg(t).file_dependencies]
             /\ UNCHANGED <<store_all_in_memory, calls, History>>
    <3>1. Arg(t).file_dependencies \in Seq(Path)
      BY <1>2 DEF Entry
    <3>2. frame' \in [Threads -> ValidFrame]
      BY <1>4, <2>3, <3>1 DEF TypeOK
    <3>3. entries' \in [Path -> Entry \cup {NoEntry}]
      BY <1>2, <2>3, NewFileType
    <3> QED
      BY <2>3, <3>2, <3>3 DEF History, TypeOK
  <2> QED
    BY <1>9, <2>1, <2>2, <2>3 DEF setFileDeps
<1> QED
  BY <1>6, <1>7, <1>8, <1>9

(* getDirectoryFileCount and its unlocked _newFile keep the types.         *)
LEMMA UnlockedType ==
  ASSUME TypeOK, NEW t \in Threads,
         \/ getDirectoryFileCount(t) \/ UnlockedFind(t) \/ UnlockedEmplace(t)
         \/ UnlockedCount(t) \/ UnlockedStore(t)
  PROVE  TypeOK'
<1> DEFINE p == frame[t].path
           d == Parent[p]
<1>1. frame[t].at # "idle"
  BY DEF In, getDirectoryFileCount, UnlockedFind, UnlockedEmplace,
         UnlockedCount, UnlockedStore
<1>2. /\ p \in Path /\ frame[t].draft \in Entry
      /\ Hit(t) => Old(t) \in Entry
  BY <1>1, FrameFacts
<1>3. d \in Path /\ (entries[d] # NoEntry => entries[d] \in Entry)
  BY <1>2, ConstantsAssumption DEF TypeOK
<1>4. ASSUME NEW e \in Entry, NEW l \in Label
      PROVE  [frame[t] EXCEPT !.draft = e, !.at = l] \in ValidFrame
  <2>1. frame[t] \in ValidFrame /\ frame[t] \in Frame
    BY <1>1, FrameFacts
  <2> DEFINE f == [frame[t] EXCEPT !.draft = e, !.at = l]
  <2>2. f \in Frame /\ f.api = frame[t].api /\ f.path = frame[t].path
          /\ f.arg = frame[t].arg
    BY <2>1 DEF Frame
  <2> QED
    BY <1>1, <2>1, <2>2, SameCallValid
<1>5. CASE getDirectoryFileCount(t)
  <2>1. Hit(t) => Num(Old(t).directory_children_count) \in Value
    BY <1>2, ValueType DEF Entry
  <2> QED
    BY <1>1, <1>5, <2>1, GotoType, ReturnType
    DEF getDirectoryFileCount, Label, History, TypeOK
<1>6. CASE UnlockedFind(t)
  <2>1. CASE Goto(t, "body")
    BY <1>1, <1>6, <2>1, GotoType DEF UnlockedFind, Label, History, TypeOK
  <2>2. CASE \E e \in Drafts(p) :
               frame' = [frame EXCEPT ![t].draft = e, ![t].at = "emplace"]
    <3>1. PICK e \in Drafts(p) :
            frame' = [frame EXCEPT ![t].draft = e, ![t].at = "emplace"]
      BY <2>2
    <3>2. [frame[t] EXCEPT !.draft = e, !.at = "emplace"] \in ValidFrame
      BY <1>2, <1>4, DraftsType DEF Label
    <3>3. frame' \in [Threads -> ValidFrame]
      BY <3>1, <3>2 DEF TypeOK
    <3> QED
      BY <1>6, <3>3 DEF UnlockedFind, History, TypeOK
  <2> QED
    BY <1>6, <2>1, <2>2 DEF UnlockedFind
<1>7. CASE UnlockedEmplace(t)
  <2>1. entries' \in [Path -> Entry \cup {NoEntry}]
    BY <1>2, <1>7, StoreType DEF UnlockedEmplace, TypeOK
  <2> QED
    BY <1>1, <1>7, <2>1, GotoType DEF UnlockedEmplace, Label, History, TypeOK
<1>8. CASE UnlockedCount(t)
  <2>1. CASE Goto(t, "body")
    BY <1>1, <1>8, <2>1, GotoType DEF UnlockedCount, Label, History, TypeOK
  <2>2. CASE /\ Counting(entries, d)
             /\ frame' = [frame EXCEPT ![t].draft = entries[d],
                                       ![t].at = "store"]
    <3>1. entries[d] \in Entry
      BY <1>3, <2>2 DEF Counting
    <3>2. [frame[t] EXCEPT !.draft = entries[d], !.at = "store"] \in ValidFrame
      BY <1>4, <3>1 DEF Label
    <3>3. frame' \in [Threads -> ValidFrame]
      BY <2>2, <3>2 DEF TypeOK
    <3> QED
      BY <1>8, <3>3 DEF UnlockedCount, History, TypeOK
  <2> QED
    BY <1>8, <2>1, <2>2 DEF UnlockedCount
<1>9. CASE UnlockedStore(t)
  <2> DEFINE e == [entries[d] EXCEPT
                     !.directory_children_count =
                        frame[t].draft.directory_children_count + 1,
                     !.is_file = FALSE]
  <2>1. entries' = IF entries[d] = NoEntry THEN entries
                   ELSE [entries EXCEPT ![d] = e]
    BY <1>9 DEF UnlockedStore
  <2>2. entries[d] # NoEntry => e \in Entry
    BY <1>2, <1>3, EntryUpdates
  <2>3. entries' \in [Path -> Entry \cup {NoEntry}]
    BY <1>3, <2>1, <2>2, StoreType DEF TypeOK
  <2> QED
    BY <1>1, <1>9, <2>3, GotoType DEF UnlockedStore, Label, History, TypeOK
<1> QED
  BY <1>5, <1>6, <1>7, <1>8, <1>9

(* The methods that only read keep the types.                              *)
LEMMA LookupsType ==
  ASSUME TypeOK, NEW t \in Threads,
         \/ getConsumers(t) \/ getCommitOnFileDependencies(t) \/ contains(t)
         \/ size(t) \/ getPaths(t) \/ getFileToStoreInMemory(t)
  PROVE  TypeOK'
<1>1. frame[t].at # "idle"
  BY DEF In, Lookup, getConsumers, getCommitOnFileDependencies, contains, size,
         getPaths, getFileToStoreInMemory
<1>2. Hit(t) => /\ Old(t).consumers \in Seq(App)
                /\ Old(t).file_dependencies \in Seq(Path)
  BY <1>1, FrameFacts DEF Entry
<1>3. CASE getConsumers(t)
  <2>1. Apps(IF Hit(t) THEN Old(t).consumers ELSE <<>>) \in Value
    <3>1. (IF Hit(t) THEN Old(t).consumers ELSE <<>>) \in Seq(App)
      BY <1>2
    <3> QED
      BY <3>1, ValueType
  <2> QED
    BY <1>3, <2>1, LookupType DEF getConsumers
<1>4. CASE getCommitOnFileDependencies(t)
  <2>1. Paths(IF Hit(t) THEN Old(t).file_dependencies ELSE <<>>) \in Value
    <3>1. (IF Hit(t) THEN Old(t).file_dependencies ELSE <<>>) \in Seq(Path)
      BY <1>2
    <3> QED
      BY <3>1, ValueType
  <2> QED
    BY <1>4, <2>1, LookupType DEF getCommitOnFileDependencies
<1>5. CASE contains(t)
  BY <1>5, LookupType, ValueType DEF contains
<1>6. CASE size(t)
  <2>1. Cardinality(Registered) \in Int
    BY ConstantsAssumption, FS_Subset, FS_CardinalityType DEF Registered
  <2> QED
    BY <1>6, <2>1, LookupType, ValueType DEF size
<1>7. CASE getPaths(t)
  <2>1. \A s \in Listings(Registered) : Paths(s) \in Value
    BY ListingsType, ValueType DEF Registered
  <2> QED
    BY <1>7, <2>1, LookupType DEF getPaths
<1>8. CASE getFileToStoreInMemory(t)
  <2>1. \A s \in Listings({p \in Registered : entries[p].store_in_memory}) :
          Paths(s) \in Value
    BY ListingsType, ValueType DEF Registered
  <2> QED
    BY <1>8, <2>1, LookupType DEF getFileToStoreInMemory
<1> QED
  BY <1>3, <1>4, <1>5, <1>6, <1>7, <1>8

-----------------------------------------------------------------------------
(* Every step keeps the types.                                             *)
LEMMA TypeOKStep == TypeOK /\ [Next]_vars => TypeOK'
<1> SUFFICES ASSUME TypeOK, [Next]_vars PROVE TypeOK'
  OBVIOUS
<1>1. CASE UNCHANGED vars
  BY <1>1 DEF vars, TypeOK
<1>2. ASSUME NEW t \in Threads, EarlyReturn(t) \/ Call(t) \/ Step(t)
      PROVE  TypeOK'
  BY <1>2, CallType, SettersType, QueriesType, UpdatesType, LoopsType,
     UnlockedType, LookupsType DEF Step
<1> QED
  BY <1>1, <1>2 DEF Next

(* The types hold at the start.                                            *)
LEMMA TypeOKInit == Init => TypeOK
<1>1. NoFrame \in ValidFrame
  BY DefaultEntryType, PathAssumption DEF NoFrame, ValidFrame, Frame, Label
<1>2. 0 \in 0 .. MaxCalls
  BY ConstantsAssumption
<1> QED
  BY <1>1, <1>2, ValueType DEF Init, TypeOK

(* Type correctness of the engine: whatever the threads call and however   *)
(* their critical sections interleave, the table holds well-formed entries *)
(* and every thread in a method has passed that method's early returns.    *)
THEOREM TypeCorrect == Spec => []TypeOK
BY TypeOKInit, TypeOKStep, PTL DEF Spec

-----------------------------------------------------------------------------
(* How calls proceed.                                                      *)

(* How a step of thread t moves its frame.                                 *)
Moves(t) ==
  \/ frame' = frame /\ frame[t].at \in {"body", "loop"}
  \/ frame' = [frame EXCEPT ![t] = NoFrame]
  \/ \E l \in {"body", "create", "tail", "rule", "find", "snapshot"} :
       frame' = [frame EXCEPT ![t].at = l]
  \/ UnlockedEmplace(t) /\ frame' = [frame EXCEPT ![t].at = "count"]
  \/ \E s : frame' = [frame EXCEPT ![t].todo = s] /\ frame[t].at = "loop"
  \/ \E s : frame' = [frame EXCEPT ![t].todo = s, ![t].at = "loop"]
  \/ /\ UnlockedCount(t)
     /\ \E e : frame' = [frame EXCEPT ![t].draft = e, ![t].at = "store"]
  \/ /\ frame[t].path \notin Registered
     /\ \E e \in Drafts(frame[t].path) :
          frame' = [frame EXCEPT ![t].draft = e, ![t].at = "emplace"]

(* Every step of a call moves it in one of these ways.                     *)
LEMMA StepMoves ==
  ASSUME NEW t \in Threads, Step(t)
  PROVE  Moves(t)
<1>1. ASSUME NEW l, Goto(t, l),
             l \in {"body", "create", "tail", "rule", "find", "snapshot"}
      PROVE  Moves(t)
  BY <1>1 DEF Goto, Moves
<1>2. ASSUME NEW v, Return(t, v) PROVE Moves(t)
  BY <1>2 DEF Return, Moves
<1>3. CASE frame' = frame /\ frame[t].at \in {"body", "loop"}
  BY <1>3 DEF Moves
<1>4. ASSUME NEW e, Assign(t, e), frame[t].at = "body" PROVE Moves(t)
  BY <1>2, <1>3, <1>4 DEF Assign
<1>5. CASE \/ setFireRule(t) \/ setPermanent(t) \/ setExclude(t) \/ setDirectory(t)
           \/ setFile(t) \/ setCommitedCloseNumber(t) \/ setStoreFileInMemory(t)
           \/ setStoreFileInFileSystem(t)
  BY <1>4, <1>5 DEF setFireRule, setPermanent, setExclude, setDirectory, setFile,
     setCommitedCloseNumber, setStoreFileInMemory, setStoreFileInFileSystem, Setter,
     In
<1>6. CASE newFile(t) \/ add(t) \/ addEntry(t) \/ remove(t)
  BY <1>2, <1>6 DEF newFile, add, addEntry, remove
<1>7. ASSUME NEW v, Query(t, v) PROVE Moves(t)
  BY <1>1, <1>2, <1>7 DEF Query
<1>8. CASE \/ getCommitRule(t) \/ getFireRule(t) \/ isFirable(t) \/ isExcluded(t)
           \/ isStoredInMemory(t) \/ getCommitCloseCount(t) \/ getProducers(t)
           \/ isPermanent(t) \/ isFile(t) \/ isDirectory(t)
  BY <1>7, <1>8 DEF getCommitRule, getFireRule, isFirable, isExcluded,
     isStoredInMemory, getCommitCloseCount, getProducers, isPermanent, isFile,
     isDirectory
<1>9. ASSUME NEW api, NEW e, Update(t, api, e) PROVE Moves(t)
  BY <1>1, <1>2, <1>9 DEF Update
<1>10. CASE setCommitRule(t) \/ addProducer(t) \/ addConsumer(t)
  BY <1>9, <1>10 DEF setCommitRule, addProducer, addConsumer
<1>11. CASE addFileDependency(t)
  BY <1>1, <1>9, <1>11 DEF addFileDependency
<1>12. CASE isProducer(t) \/ isConsumer(t)
  BY <1>1, <1>2, <1>12 DEF isProducer, isConsumer
<1>13. CASE Create(t)
  <2>1. AfterCreate(frame[t].api) \in {"body", "tail", "rule"}
    BY DEF AfterCreate
  <2> QED
    BY <1>1, <1>2, <1>13, <2>1 DEF Create
<1>14. CASE Snapshot(t)
  BY <1>14 DEF Snapshot, Moves
<1>15. ASSUME Pop(t), frame[t].at = "loop" PROVE Moves(t)
  BY <1>15 DEF Pop, Moves
<1>16. ASSUME NEW e, Each(t, e), frame[t].at = "loop" PROVE Moves(t)
  BY <1>3, <1>15, <1>16 DEF Each
<1>17. CASE setAllStoreInMemory(t)
  BY <1>1, <1>2, <1>16, <1>17 DEF setAllStoreInMemory, Looping
<1>18. CASE setDirectoryFileCount(t)
  BY <1>1, <1>2, <1>16, <1>18 DEF setDirectoryFileCount, Looping
<1>19. CASE setFileDeps(t)
  <2>1. CASE /\ frame' = [frame EXCEPT ![t].todo = Arg(t).file_dependencies]
             /\ frame[t].at = "loop"
    BY <2>1 DEF Moves
  <2> QED
    BY <1>2, <1>15, <1>19, <2>1 DEF setFileDeps, Looping
<1>20. CASE getDirectoryFileCount(t)
  BY <1>1, <1>2, <1>20 DEF getDirectoryFileCount
<1>21. CASE UnlockedFind(t)
  <2>1. CASE /\ ~ Hit(t)
             /\ \E e \in Drafts(frame[t].path) :
                  frame' = [frame EXCEPT ![t].draft = e, ![t].at = "emplace"]
    BY <2>1 DEF Moves, Hit
  <2> QED
    BY <1>1, <1>21, <2>1 DEF UnlockedFind
<1>22. CASE UnlockedEmplace(t) \/ UnlockedStore(t)
  <2>1. CASE UnlockedEmplace(t)
    <3>1. frame' = [frame EXCEPT ![t].at = "count"]
      BY <2>1 DEF UnlockedEmplace, Goto
    <3> QED
      BY <2>1, <3>1 DEF Moves
  <2> QED
    BY <1>1, <1>22, <2>1 DEF UnlockedStore
<1>23. CASE UnlockedCount(t)
  <2>1. ASSUME NEW e, frame' = [frame EXCEPT ![t].draft = e, ![t].at = "store"]
        PROVE  Moves(t)
    BY <1>23, <2>1 DEF Moves
  <2> QED
    BY <1>1, <1>23, <2>1 DEF UnlockedCount
<1>24. ASSUME NEW api, NEW v, Lookup(t, api, v) PROVE Moves(t)
  BY <1>2, <1>24 DEF Lookup
<1>25. CASE \/ getConsumers(t) \/ getCommitOnFileDependencies(t) \/ contains(t)
            \/ size(t) \/ getPaths(t) \/ getFileToStoreInMemory(t)
  BY <1>24, <1>25 DEF getConsumers, getCommitOnFileDependencies, contains, size,
     getPaths, getFileToStoreInMemory
<1> QED
  BY <1>5, <1>6, <1>8, <1>10, <1>11, <1>12, <1>13, <1>14, <1>17, <1>18, <1>19,
     <1>20, <1>21, <1>22, <1>23, <1>25 DEF Step

(* Only a thread that is in a call takes a step of it.                     *)
LEMMA StepsWork ==
  ASSUME NEW t \in Threads, Step(t)
  PROVE  frame[t].at # "idle"
BY DEF Step, setFireRule, setPermanent, setExclude, setDirectory, setFile,
   setCommitedCloseNumber, setStoreFileInMemory, setStoreFileInFileSystem,
   Setter, newFile, add, addEntry, remove, getCommitRule, getFireRule, isFirable,
   isExcluded, isStoredInMemory, getCommitCloseCount, getProducers, isPermanent,
   isFile, isDirectory, setCommitRule, addProducer, addConsumer,
   addFileDependency, Update, isProducer, isConsumer, Create, Snapshot,
   setAllStoreInMemory, setDirectoryFileCount, setFileDeps, Looping,
   getDirectoryFileCount, UnlockedFind, UnlockedEmplace, UnlockedCount,
   UnlockedStore, getConsumers, getCommitOnFileDependencies, contains, size,
   getPaths, getFileToStoreInMemory, Lookup, In

(* What that means for the frames.                                         *)
LEMMA MovesFact ==
  ASSUME TypeOK, NEW t \in Threads, Moves(t)
  PROVE  /\ \A u \in Threads \ {t} : frame'[u] = frame[u]
         /\ \/ frame'[t].at = "idle"
            \/ /\ frame'[t].api = frame[t].api /\ frame'[t].path = frame[t].path
               /\ frame'[t].arg = frame[t].arg /\ frame'[t].at # "flag"
               /\ frame'[t].at = "emplace" =>
                    /\ frame[t].path \notin Registered
                    /\ frame'[t].draft \in Drafts(frame[t].path)
               /\ frame'[t].at = "count" => UnlockedEmplace(t)
               /\ frame'[t].at = "store" => UnlockedCount(t)
<1>1. frame \in [Threads -> ValidFrame] /\ frame[t] \in Frame
  BY DEF TypeOK, ValidFrame
<1> DEFINE f == frame[t]
<1>2. \A u \in Threads \ {t} : frame'[u] = frame[u]
  BY <1>1 DEF Moves
<1>3. \/ frame'[t] = f /\ f.at \in {"body", "loop"}
      \/ frame'[t] = NoFrame
      \/ \E l \in {"body", "create", "tail", "rule", "find", "snapshot"} :
           frame'[t] = [f EXCEPT !.at = l]
      \/ UnlockedEmplace(t) /\ frame'[t] = [f EXCEPT !.at = "count"]
      \/ \E s : frame'[t] = [f EXCEPT !.todo = s] /\ f.at = "loop"
      \/ \E s : frame'[t] = [f EXCEPT !.todo = s, !.at = "loop"]
      \/ /\ UnlockedCount(t)
         /\ \E e : frame'[t] = [f EXCEPT !.draft = e, !.at = "store"]
      \/ /\ f.path \notin Registered
         /\ \E e \in Drafts(f.path) :
              frame'[t] = [f EXCEPT !.draft = e, !.at = "emplace"]
  BY <1>1 DEF Moves
<1>4. NoFrame.at = "idle"
  BY DEF NoFrame
<1> HIDE DEF f
<1>5. f \in Frame
  BY <1>1 DEF f
<1>6. \/ frame'[t].at = "idle"
      \/ /\ frame'[t].api = f.api /\ frame'[t].path = f.path /\ frame'[t].arg = f.arg
         /\ frame'[t].at # "flag"
         /\ frame'[t].at = "emplace" => /\ f.path \notin Registered
                                        /\ frame'[t].draft \in Drafts(f.path)
         /\ frame'[t].at = "count" => UnlockedEmplace(t)
         /\ frame'[t].at = "store" => UnlockedCount(t)
  BY <1>3, <1>4, <1>5 DEF Frame
<1> QED
  BY <1>2, <1>6 DEF f

(* The methods the threads are in are among those they may call.           *)
CallsOnly ==
  \A t \in Threads : frame[t].at # "idle" => \E c \in Calls : c.api = frame[t].api

(* Making a call and carrying it on stays within the calls.                *)
LEMMA CallsOnlyStep == TypeOK /\ CallsOnly /\ [Next]_vars => CallsOnly'
<1> SUFFICES ASSUME TypeOK, CallsOnly, [Next]_vars PROVE CallsOnly'
  OBVIOUS
<1>1. CASE UNCHANGED vars
  BY <1>1 DEF vars, CallsOnly
<1>2. ASSUME NEW t \in Threads, EarlyReturn(t) PROVE CallsOnly'
  BY <1>2 DEF EarlyReturn, Refuse, CallsOnly
<1>3. ASSUME NEW t \in Threads, Call(t) PROVE CallsOnly'
  <2>1. PICK c \in Calls : Invoke(t, c)
    BY <1>3 DEF Call
  <2>2. /\ \A u \in Threads \ {t} : frame'[u] = frame[u]
        /\ frame'[t].api = c.api
    BY <2>1 DEF Invoke, TypeOK
  <2> QED
    BY <2>2 DEF CallsOnly
<1>4. ASSUME NEW t \in Threads, Step(t) PROVE CallsOnly'
  <2>1. frame[t].at # "idle" /\ Moves(t)
    BY <1>4, StepsWork, StepMoves
  <2>2. /\ \A u \in Threads \ {t} : frame'[u] = frame[u]
        /\ frame'[t].at = "idle" \/ frame'[t].api = frame[t].api
    BY <2>1, MovesFact
  <2> QED
    BY <2>1, <2>2 DEF CallsOnly
<1> QED
  BY <1>1, <1>2, <1>3, <1>4 DEF Next

(* So every thread that is in a method has called it.                      *)
LEMMA OnlyCalls == Spec => []CallsOnly
<1>1. Init => CallsOnly
  BY DEF Init, CallsOnly, NoFrame
<1> QED
  BY <1>1, CallsOnlyStep, TypeCorrect, PTL DEF Spec

=============================================================================
