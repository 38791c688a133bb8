------------------------ MODULE EngineStorageProofs ------------------------
(***************************************************************************)
(* setAllStoreInMemory reaches every file: the inductive invariant behind  *)
(* AllInMemory, for engines on which nobody calls the one method that      *)
(* registers paths without the lock.                                       *)
(***************************************************************************)
EXTENDS EngineProofs

(* What _newFile does to where files are stored: it leaves registered paths*)
(* where they are, and a path it registers is in memory if all are.        *)
LEMMA NewFileStorage ==
  ASSUME TypeOK, NEW p \in Path, NEW m \in _newFile(p), NEW q \in Path,
         m[q] # NoEntry
  PROVE  \/ /\ q \in Registered
            /\ m[q].store_in_memory = entries[q].store_in_memory
         \/ q # EmptyPath /\ (store_all_in_memory => m[q].store_in_memory)
<1>1. CASE p = EmptyPath \/ p \in Registered
  BY <1>1 DEF _newFile, Registered
<1>2. CASE ~ (p = EmptyPath \/ p \in Registered)
  <2>1. PICK e \in Drafts(p) :
          m = compute_directory_entry_count([entries EXCEPT ![p] = e], p)
    BY <1>2 DEF _newFile
  <2> DEFINE n == [entries EXCEPT ![p] = e]
             d == Parent[p]
  <2>2. e \in Entry /\ (store_all_in_memory => e.store_in_memory)
    <3>1. \A x \in Entry :
            [x EXCEPT !.store_in_memory = @ \/ store_all_in_memory].store_in_memory
              = (x.store_in_memory \/ store_all_in_memory)
      BY DEF Entry
    <3>2. \A r \in LongestMatches(p) : entries[r] \in Entry
      BY DEF LongestMatches, Registered, TypeOK
    <3> QED
      BY <3>1, <3>2, DraftsType, DefaultEntryType DEF Drafts
  <2>3. n \in [Path -> Entry \cup {NoEntry}] /\ d \in Path
    BY <2>2, StoreType, ConstantsAssumption
  <2>4. n[q] # NoEntry /\ m[q].store_in_memory = n[q].store_in_memory
    <3>1. CASE Counting(n, d)
      <4>1. m = [n EXCEPT ![d] = OneMoreChild(n[d])]
        BY <2>1, <3>1 DEF compute_directory_entry_count
      <4>2. n[d] \in Entry
        BY <2>3, <3>1 DEF Counting
      <4>3. OneMoreChild(n[d]).store_in_memory = n[d].store_in_memory
        BY <4>2 DEF OneMoreChild, Entry
      <4> QED
        BY <2>3, <4>1, <4>2, <4>3, ConstantsAssumption
    <3>2. CASE ~ Counting(n, d)
      BY <2>1, <3>2 DEF compute_directory_entry_count
    <3> QED
      BY <3>1, <3>2
  <2>5. CASE q = p
    BY <1>2, <2>2, <2>4, <2>5 DEF TypeOK
  <2>6. CASE q # p
    BY <2>4, <2>6 DEF Registered, TypeOK
  <2> QED
    BY <2>5, <2>6
<1> QED
  BY <1>1, <1>2

(* The paths misplaced after a step were so before it, or have just been   *)
(* registered while the engine does not yet store everything in memory.    *)
NoNewMisplaced ==
  \A p \in Misplaced' :
    p \in Misplaced \/ (p # EmptyPath /\ ~ store_all_in_memory)

(* Registering adds no misplaced path once everything goes to memory.      *)
LEMMA NewFileMisplaced ==
  ASSUME TypeOK, NEW p \in Path, entries' \in _newFile(p), fsChoice' = fsChoice
  PROVE  NoNewMisplaced
<1> SUFFICES ASSUME NEW q \in Misplaced'
             PROVE  q \in Misplaced \/ (q # EmptyPath /\ ~ store_all_in_memory)
  BY DEF NoNewMisplaced
<1>1. /\ q \in Path /\ entries'[q] # NoEntry /\ q \notin fsChoice
      /\ ~ entries'[q].store_in_memory
  BY DEF Misplaced, Registered
<1> QED
  BY <1>1, NewFileStorage DEF Misplaced

(* Nor does an assignment that leaves the storage flag alone.              *)
LEMMA StoreMisplaced ==
  ASSUME TypeOK, NEW p \in Registered, NEW e,
         e.store_in_memory = entries[p].store_in_memory,
         entries' = [entries EXCEPT ![p] = e], fsChoice' = fsChoice
  PROVE  NoNewMisplaced
BY DEF NoNewMisplaced, Misplaced, Registered, TypeOK

(* A step that changes neither table nor choices changes nothing here.     *)
LEMMA SameMisplaced ==
  ASSUME entries' = entries, fsChoice' = fsChoice
  PROVE  NoNewMisplaced /\ Misplaced' = Misplaced
BY DEF NoNewMisplaced, Misplaced, Registered

-----------------------------------------------------------------------------
(* A step of thread t that has nothing to do with a setAllStoreInMemory.   *)
Quiet(t) ==
  /\ allInMemory' = allInMemory /\ store_all_in_memory' = store_all_in_memory
  /\ \A u \in Threads : u # t => frame'[u] = frame[u]
  /\ \/ frame'[t] = frame[t]
     \/ frame'[t].api # "setAllStoreInMemory" /\ SectionsOK(frame'[t])

(* Such a step keeps StorageInv if it misplaces nothing.                   *)
LEMMA QuietStep ==
  ASSUME TypeOK, StorageInv, NEW t \in Threads, Quiet(t), NoNewMisplaced
  PROVE  StorageInv'
<1>1. EmptyPath \notin Misplaced'
  BY DEF StorageInv, NoNewMisplaced
<1>2. store_all_in_memory => Misplaced' \subseteq Misplaced
  BY DEF NoNewMisplaced
<1>3. ASSUME NEW u \in Threads
      PROVE  /\ SectionsOK(frame'[u])
             /\ frame'[u].api = "setAllStoreInMemory" /\ frame'[u].at # "flag"
                  => store_all_in_memory'
             /\ Looping(u, "setAllStoreInMemory")'
                  => Misplaced' \subseteq Range(Todo(u)')
  <2>1. CASE frame'[u] = frame[u]
    <3>1. /\ SectionsOK(frame[u])
          /\ frame[u].api = "setAllStoreInMemory" /\ frame[u].at # "flag"
               => store_all_in_memory
          /\ Looping(u, "setAllStoreInMemory") => Misplaced \subseteq Range(Todo(u))
      BY DEF StorageInv
    <3>2. Looping(u, "setAllStoreInMemory")' => Looping(u, "setAllStoreInMemory")
            /\ store_all_in_memory
      BY <2>1, <3>1 DEF Looping
    <3>3. Todo(u)' = Todo(u)
      BY <2>1 DEF Todo
    <3> QED
      BY <1>2, <2>1, <3>1, <3>2, <3>3 DEF Quiet
  <2>2. CASE u = t /\ frame'[t].api # "setAllStoreInMemory"
                   /\ SectionsOK(frame'[t])
    BY <2>2 DEF Looping
  <2> QED
    BY <2>1, <2>2 DEF Quiet
<1>4. allInMemory' => store_all_in_memory' /\ Misplaced' = {}
  BY <1>2 DEF StorageInv, Quiet
<1> QED
  BY <1>1, <1>3, <1>4 DEF StorageInv

(* Returning, or going on to a section every method may have, is quiet.    *)
LEMMA QuietControl ==
  ASSUME TypeOK, NEW t \in Threads,
         frame[t].api # "setAllStoreInMemory",
         allInMemory' = allInMemory,
         store_all_in_memory' = store_all_in_memory,
         \/ \E v : Return(t, v)
         \/ \E l \in Label \ (Unlocked \cup {"flag"}) : Goto(t, l)
         \/ frame' = frame
  PROVE  Quiet(t)
<1>1. CASE \E v : Return(t, v)
  <2>1. frame' = [frame EXCEPT ![t] = NoFrame]
    BY <1>1 DEF Return
  <2>2. NoFrame.api # "setAllStoreInMemory" /\ SectionsOK(NoFrame)
    BY DEF NoFrame, SectionsOK, Unlocked
  <2> QED
    BY <2>1, <2>2 DEF Quiet, TypeOK
<1>2. CASE \E l \in Label \ (Unlocked \cup {"flag"}) : Goto(t, l)
  <2>1. PICK l \in Label \ (Unlocked \cup {"flag"}) : Goto(t, l)
    BY <1>2
  <2>2. frame[t] \in Frame
    BY DEF TypeOK, ValidFrame
  <2> DEFINE f == [frame[t] EXCEPT !.at = l]
  <2>3. f.api = frame[t].api /\ f.at = l
    BY <2>2 DEF Frame
  <2>4. frame'[t] = f /\ \A u \in Threads : u # t => frame'[u] = frame[u]
    BY <2>1 DEF Goto, TypeOK
  <2>5. SectionsOK(f)
    BY <2>1, <2>3 DEF SectionsOK
  <2> QED
    BY <2>3, <2>4, <2>5 DEF Quiet
<1>3. CASE frame' = frame
  BY <1>3 DEF Quiet
<1> QED
  BY <1>1, <1>2, <1>3

-----------------------------------------------------------------------------
(* One lemma per shape of method.                                          *)

(* A setter of another field.                                              *)
LEMMA SetterStorage ==
  ASSUME TypeOK, StorageInv, NEW t \in Threads,
         NEW api \in Setters, NEW e, Setter(t, api, e),
         Hit(t) => e.store_in_memory = Old(t).store_in_memory
  PROVE  StorageInv'
<1>1. /\ frame[t].at # "idle" /\ frame[t].api = api
      /\ frame[t].api # "setAllStoreInMemory"
      /\ allInMemory' = allInMemory /\ fsChoice' = fsChoice
      /\ store_all_in_memory' = store_all_in_memory
  BY DEF Setter, In, Setters, History
<1>2. frame[t].path \in Path
  BY <1>1, FrameFacts
<1>3. CASE Hit(t) /\ entries' = [entries EXCEPT ![frame[t].path] = e]
                  /\ Return(t, Void)
  <2>1. NoNewMisplaced
    BY <1>1, <1>3, StoreMisplaced DEF Hit, Old
  <2> QED
    BY <1>1, <1>3, <2>1, QuietControl, QuietStep
<1>4. CASE entries' \in _newFile(frame[t].path) /\ UNCHANGED <<frame, ret>>
  BY <1>1, <1>2, <1>4, NewFileMisplaced, QuietControl, QuietStep
<1> QED
  BY <1>3, <1>4 DEF Setter, Assign

(* A method that looks up and then changes another field.                  *)
LEMMA UpdateStorage ==
  ASSUME TypeOK, StorageInv, NEW t \in Threads,
         NEW api, api # "setAllStoreInMemory", NEW e, Update(t, api, e),
         Hit(t) => e.store_in_memory = Old(t).store_in_memory
  PROVE  StorageInv'
<1>1. /\ frame[t].api # "setAllStoreInMemory"
      /\ allInMemory' = allInMemory /\ fsChoice' = fsChoice
      /\ store_all_in_memory' = store_all_in_memory
  BY DEF Update, In, History
<1>2. CASE Hit(t) /\ entries' = [entries EXCEPT ![frame[t].path] = e]
                  /\ Return(t, Void)
  <2>1. NoNewMisplaced
    BY <1>1, <1>2, StoreMisplaced DEF Hit, Old
  <2> QED
    BY <1>1, <1>2, <2>1, QuietControl, QuietStep
<1>3. CASE Goto(t, "create") /\ UNCHANGED <<entries, ret>>
  BY <1>1, <1>3, SameMisplaced, QuietControl, QuietStep DEF Label, Unlocked
<1> QED
  BY <1>2, <1>3 DEF Update

(* A query.                                                                *)
LEMMA QueryStorage ==
  ASSUME TypeOK, StorageInv, NEW t \in Threads,
         frame[t].api # "setAllStoreInMemory", NEW v, Query(t, v)
  PROVE  StorageInv'
<1>1. /\ allInMemory' = allInMemory /\ fsChoice' = fsChoice
      /\ entries' = entries /\ store_all_in_memory' = store_all_in_memory
  BY DEF Query, History
<1>2. Return(t, v) \/ Goto(t, "create")
  BY DEF Query
<1> QED
  BY <1>1, <1>2, SameMisplaced, QuietControl, QuietStep DEF Label, Unlocked

(* A read-only method.                                                     *)
LEMMA LookupStorage ==
  ASSUME TypeOK, StorageInv, NEW t \in Threads,
         NEW api, api # "setAllStoreInMemory", NEW v, Lookup(t, api, v)
  PROVE  StorageInv'
<1>1. /\ frame[t].api # "setAllStoreInMemory" /\ Return(t, v)
      /\ allInMemory' = allInMemory /\ fsChoice' = fsChoice
      /\ entries' = entries /\ store_all_in_memory' = store_all_in_memory
  BY DEF Lookup, In, History
<1> QED
  BY <1>1, SameMisplaced, QuietControl, QuietStep

(* The assignments of the methods other than the storage setters leave the *)
(* storage flag alone.                                                     *)
LEMMA StorageUntouched ==
  ASSUME NEW e \in Entry, NEW x, NEW y
  PROVE  LET Same(f) == f.store_in_memory = e.store_in_memory
         IN  /\ Same([e EXCEPT !.fire_rule = x])
             /\ Same([e EXCEPT !.commit_rule = x])
             /\ Same([e EXCEPT !.permanent = x])
             /\ Same([e EXCEPT !.excluded = x])
             /\ Same([e EXCEPT !.is_file = x])
             /\ Same([e EXCEPT !.commit_on_close_count = x])
             /\ Same([e EXCEPT !.producers = x])
             /\ Same([e EXCEPT !.consumers = x])
             /\ Same([e EXCEPT !.file_dependencies = x])
             /\ Same([e EXCEPT !.directory_children_count = x,
                               !.enable_directory_count_update = y])
BY DEF Entry

-----------------------------------------------------------------------------
(* One lemma per group of actions.                                         *)

(* The setters of other fields keep StorageInv.                            *)
LEMMA SettersStorage ==
  ASSUME TypeOK, StorageInv, NEW t \in Threads,
         \/ setFireRule(t) \/ setPermanent(t) \/ setExclude(t)
         \/ setDirectory(t) \/ setFile(t) \/ setCommitedCloseNumber(t)
  PROVE  StorageInv'
<1>1. Hit(t) => Old(t) \in Entry
  <2>1. frame[t].at # "idle"
    BY DEF In, Setter, setFireRule, setPermanent, setExclude, setDirectory,
           setFile, setCommitedCloseNumber
  <2> QED
    BY <2>1, FrameFacts
<1>2. CASE setFireRule(t)
  BY <1>1, <1>2, StorageUntouched, SetterStorage DEF setFireRule, Setters
<1>3. CASE setPermanent(t)
  BY <1>1, <1>3, StorageUntouched, SetterStorage DEF setPermanent, Setters
<1>4. CASE setExclude(t)
  BY <1>1, <1>4, StorageUntouched, SetterStorage DEF setExclude, Setters
<1>5. CASE setDirectory(t)
  BY <1>1, <1>5, StorageUntouched, SetterStorage DEF setDirectory, Setters
<1>6. CASE setFile(t)
  BY <1>1, <1>6, StorageUntouched, SetterStorage DEF setFile, Setters
<1>7. CASE setCommitedCloseNumber(t)
  BY <1>1, <1>7, StorageUntouched, SetterStorage
  DEF setCommitedCloseNumber, Setters
<1> QED
  BY <1>2, <1>3, <1>4, <1>5, <1>6, <1>7

(* The two storage setters keep StorageInv: one puts the path in memory,   *)
(* the other records the choice.                                           *)
LEMMA StorageSettersStorage ==
  ASSUME TypeOK, StorageInv, NEW t \in Threads,
         setStoreFileInMemory(t) \/ setStoreFileInFileSystem(t)
  PROVE  StorageInv'
<1> DEFINE p == frame[t].path
<1>1. /\ frame[t].at # "idle" /\ frame[t].api # "setAllStoreInMemory"
      /\ allInMemory' = allInMemory
      /\ store_all_in_memory' = store_all_in_memory
  BY DEF setStoreFileInMemory, setStoreFileInFileSystem, In
<1>2. p \in Path /\ (Hit(t) => Old(t) \in Entry)
  BY <1>1, FrameFacts
<1>3. CASE ~ Hit(t)
  <2>1. /\ entries' \in _newFile(p) /\ fsChoice' = fsChoice
        /\ UNCHANGED <<frame, ret>>
    BY <1>3 DEF setStoreFileInMemory, setStoreFileInFileSystem, Assign
  <2> QED
    BY <1>1, <1>2, <2>1, NewFileMisplaced, QuietControl, QuietStep
<1>4. CASE Hit(t)
  <2>1. Return(t, Void)
    BY <1>4 DEF setStoreFileInMemory, setStoreFileInFileSystem, Assign
  <2>2. NoNewMisplaced
    <3>1. CASE setStoreFileInMemory(t)
      <4> DEFINE e == [Old(t) EXCEPT !.store_in_memory = TRUE]
      <4>1. e.store_in_memory
        BY <1>2, <1>4 DEF Entry
      <4>2. entries' = [entries EXCEPT ![p] = e] /\ fsChoice' = fsChoice \ {p}
        BY <1>4, <3>1 DEF setStoreFileInMemory, Assign
      <4> QED
        BY <4>1, <4>2 DEF NoNewMisplaced, Misplaced, Registered, TypeOK
    <3>2. CASE setStoreFileInFileSystem(t)
      <4> DEFINE e == [Old(t) EXCEPT !.store_in_memory = FALSE]
      <4>1. entries' = [entries EXCEPT ![p] = e] /\ fsChoice' = fsChoice \cup {p}
        BY <1>4, <3>2 DEF setStoreFileInFileSystem, Assign
      <4> QED
        BY <4>1 DEF NoNewMisplaced, Misplaced, Registered, TypeOK
    <3> QED
      BY <3>1, <3>2
  <2> QED
    BY <1>1, <2>1, <2>2, QuietControl, QuietStep
<1> QED
  BY <1>3, <1>4

(* newFile, both add methods and remove keep StorageInv.                   *)
LEMMA AddRemoveStorage ==
  ASSUME TypeOK, StorageInv, NEW t \in Threads,
         newFile(t) \/ add(t) \/ addEntry(t) \/ remove(t)
  PROVE  StorageInv'
<1> DEFINE p == frame[t].path
<1>1. /\ frame[t].at # "idle" /\ frame[t].api # "setAllStoreInMemory"
      /\ allInMemory' = allInMemory /\ Return(t, Void)
      /\ store_all_in_memory' = store_all_in_memory
  BY DEF newFile, add, addEntry, remove, In, History
<1>2. p \in Path /\ Arg(t) \in Entry /\ (Hit(t) => Old(t) \in Entry)
  BY <1>1, FrameFacts
<1>3. NoNewMisplaced
  <2>1. CASE newFile(t)
    BY <1>2, <2>1, NewFileMisplaced DEF newFile, History
  <2>2. CASE add(t)
    <3> DEFINE Over(e) ==
          [e EXCEPT !.producers = Arg(t).producers,
                    !.consumers = Arg(t).consumers,
                    !.commit_rule = Arg(t).commit_rule,
                    !.fire_rule = Arg(t).fire_rule,
                    !.permanent = Arg(t).permanent,
                    !.excluded = Arg(t).excluded,
                    !.file_dependencies = Arg(t).file_dependencies]
    <3>1. PICK m \in _newFile(p) : entries' = [m EXCEPT ![p] = Over(m[p])]
      BY <2>2 DEF add
    <3>2. p # EmptyPath
      BY <1>1, <2>2, FrameFacts DEF add, In, NoPathNeeded, Lookups
    <3>3. m[p] \in Entry /\ m \in [Path -> Entry \cup {NoEntry}]
      BY <1>2, <3>1, <3>2, NewFileRegisters, NewFileType
    <3>4. Over(m[p]).store_in_memory = m[p].store_in_memory
      BY <3>3 DEF Entry
    <3>5. m[p] # NoEntry
      BY <3>3, ConstantsAssumption
    <3>6. SUFFICES ASSUME NEW q \in Misplaced'
                   PROVE  \/ q \in Misplaced
                          \/ q # EmptyPath /\ ~ store_all_in_memory
      BY DEF NoNewMisplaced
    <3>7. /\ q \in Path /\ entries'[q] # NoEntry /\ q \notin fsChoice
          /\ ~ entries'[q].store_in_memory
      BY <2>2 DEF Misplaced, Registered, add, History
    <3>8. m[q] # NoEntry /\ m[q].store_in_memory = entries'[q].store_in_memory
      <4>1. CASE q = p
        BY <3>1, <3>3, <3>4, <3>5, <4>1
      <4>2. CASE q # p
        BY <3>1, <3>3, <3>7, <4>2
      <4> QED
        BY <4>1, <4>2
    <3> QED
      BY <1>2, <3>1, <3>7, <3>8, NewFileStorage DEF Misplaced
  <2>3. CASE addEntry(t)
    <3>1. CASE Hit(t)
      <4>1. Merge(entries[p], Arg(t)).store_in_memory
              = (entries[p].store_in_memory \/ Arg(t).store_in_memory)
        BY DEF Merge
      <4>2. /\ entries' = [entries EXCEPT ![p] = Merge(entries[p], Arg(t))]
            /\ fsChoice' = fsChoice
        BY <2>3, <3>1 DEF addEntry
      <4> QED
        BY <3>1, <4>1, <4>2
        DEF NoNewMisplaced, Misplaced, Registered, Hit, TypeOK
    <3>2. CASE ~ Hit(t)
      <4>1. /\ entries' = [entries EXCEPT ![p] = Arg(t)]
            /\ fsChoice' = IF Arg(t).store_in_memory THEN fsChoice
                           ELSE fsChoice \cup {p}
        BY <2>3, <3>2 DEF addEntry
      <4> QED
        BY <4>1 DEF NoNewMisplaced, Misplaced, Registered, TypeOK
    <3> QED
      BY <3>1, <3>2
  <2>4. CASE remove(t)
    BY <1>2, <2>4 DEF remove, NoNewMisplaced, Misplaced, Registered, TypeOK
  <2> QED
    BY <2>1, <2>2, <2>3, <2>4
<1> QED
  BY <1>1, <1>3, QuietControl, QuietStep

(* The queries keep StorageInv.                                            *)
LEMMA QueriesStorage ==
  ASSUME TypeOK, StorageInv, NEW t \in Threads,
         \/ getCommitRule(t) \/ getFireRule(t) \/ isFirable(t)
         \/ isExcluded(t) \/ isStoredInMemory(t) \/ getCommitCloseCount(t)
         \/ getProducers(t) \/ isPermanent(t) \/ isFile(t) \/ isDirectory(t)
  PROVE  StorageInv'
<1>1. frame[t].api # "setAllStoreInMemory" /\ \E v : Query(t, v)
  BY DEF In, getCommitRule, getFireRule, isFirable, isExcluded,
         isStoredInMemory, getCommitCloseCount, getProducers, isPermanent,
         isFile, isDirectory
<1> QED
  BY <1>1, QueryStorage

(* The methods that look a path up and then change it, the searches for an *)
(* application and the create section keep StorageInv.                     *)
LEMMA UpdatesStorage ==
  ASSUME TypeOK, StorageInv, NEW t \in Threads,
         \/ setCommitRule(t) \/ addProducer(t) \/ addConsumer(t)
         \/ addFileDependency(t) \/ isProducer(t) \/ isConsumer(t)
         \/ Create(t)
  PROVE  StorageInv'
<1> DEFINE p == frame[t].path
<1>1. /\ frame[t].at # "idle"
      /\ Hit(t) => Old(t) \in Entry
      /\ p \in Path
  <2>1. frame[t].at # "idle"
    BY DEF In, Update, setCommitRule, addProducer, addConsumer,
           addFileDependency, isProducer, isConsumer, Create
  <2> QED
    BY <2>1, FrameFacts
<1>2. CASE setCommitRule(t)
  BY <1>1, <1>2, StorageUntouched, UpdateStorage DEF setCommitRule
<1>3. CASE addProducer(t)
  BY <1>1, <1>3, StorageUntouched, UpdateStorage DEF addProducer
<1>4. CASE addConsumer(t)
  BY <1>1, <1>4, StorageUntouched, UpdateStorage DEF addConsumer
<1>5. CASE addFileDependency(t)
  <2> DEFINE e == [Old(t) EXCEPT !.file_dependencies =
                     AppendNew(@, Head(Arg(t).file_dependencies))]
  <2>1. CASE Update(t, "addFileDependency", e)
    BY <1>1, <2>1, StorageUntouched, UpdateStorage
  <2>2. ASSUME frame[t].api = "addFileDependency",
               UNCHANGED <<store_all_in_memory, ret, calls, History>>,
               \/ /\ Hit(t) /\ Goto(t, "body")
                  /\ entries' = [entries EXCEPT ![p].commit_rule = "on_file"]
               \/ Goto(t, "create") /\ UNCHANGED entries
        PROVE  StorageInv'
    <3>1. Quiet(t)
      BY <2>2, QuietControl DEF History, Label, Unlocked
    <3>2. CASE /\ Hit(t)
               /\ entries' = [entries EXCEPT ![p].commit_rule = "on_file"]
      <4>1. entries' = [entries EXCEPT ![p] =
                          [Old(t) EXCEPT !.commit_rule = "on_file"]]
        BY <3>2 DEF Old
      <4>2. [Old(t) EXCEPT !.commit_rule = "on_file"].store_in_memory
              = entries[p].store_in_memory
        BY <1>1, <3>2, StorageUntouched DEF Old
      <4>3. NoNewMisplaced
        BY <2>2, <3>2, <4>1, <4>2, StoreMisplaced DEF Hit, History
      <4> QED
        BY <3>1, <4>3, QuietStep
    <3>3. CASE UNCHANGED entries
      BY <2>2, <3>1, <3>3, SameMisplaced, QuietStep DEF History
    <3> QED
      BY <2>2, <3>2, <3>3
  <2> QED
    BY <1>5, <2>1, <2>2 DEF addFileDependency
<1>6. CASE isProducer(t) \/ isConsumer(t)
  <2>1. /\ frame[t].api # "setAllStoreInMemory" /\ fsChoice' = fsChoice
        /\ allInMemory' = allInMemory /\ entries' = entries
        /\ store_all_in_memory' = store_all_in_memory
        /\ Return(t, Flag(TRUE)) \/ Goto(t, "create")
    BY <1>6 DEF isProducer, isConsumer, In, History
  <2> QED
    BY <2>1, SameMisplaced, QuietControl, QuietStep DEF Label, Unlocked
<1>7. CASE Create(t)
  <2>1. frame[t].api # "setAllStoreInMemory"
    BY <1>7 DEF Create, StorageInv, SectionsOK
  <2>2. AfterCreate(frame[t].api) \in Label \ (Unlocked \cup {"flag"})
    BY DEF AfterCreate, Label, Unlocked
  <2>3. Quiet(t)
    BY <1>7, <2>1, <2>2, QuietControl DEF Create, History
  <2> QED
    BY <1>1, <1>7, <2>3, NewFileMisplaced, QuietStep DEF Create, History
<1> QED
  BY <1>2, <1>3, <1>4, <1>5, <1>6, <1>7

(* The methods that only read keep StorageInv.                             *)
LEMMA LookupsStorage ==
  ASSUME TypeOK, StorageInv, NEW t \in Threads,
         \/ getConsumers(t) \/ getCommitOnFileDependencies(t) \/ contains(t)
         \/ size(t) \/ getPaths(t) \/ getFileToStoreInMemory(t)
  PROVE  StorageInv'
<1>1. \E api \in Lookups : \E v : Lookup(t, api, v)
  BY DEF Lookups, getConsumers, getCommitOnFileDependencies, contains, size,
         getPaths, getFileToStoreInMemory
<1> QED
  BY <1>1, LookupStorage DEF Lookups

(* Making a call keeps StorageInv: a setAllStoreInMemory begins before its *)
(* flag is set.                                                            *)
LEMMA CallStorage ==
  ASSUME TypeOK, StorageInv, NEW t \in Threads, EarlyReturn(t) \/ Call(t)
  PROVE  StorageInv'
<1>1. /\ entries' = entries /\ fsChoice' = fsChoice
      /\ allInMemory' = allInMemory
      /\ store_all_in_memory' = store_all_in_memory
  BY DEF EarlyReturn, Refuse, Call, Invoke, History
<1>2. Misplaced' = Misplaced /\ NoNewMisplaced
  BY <1>1, SameMisplaced
<1>3. CASE EarlyReturn(t)
  BY <1>1, <1>2, <1>3, QuietStep DEF EarlyReturn, Refuse, Quiet
<1>4. CASE Call(t)
  <2>1. PICK c \in Calls : frame' = [frame EXCEPT ![t] =
          [api |-> c.api, path |-> c.path, arg |-> c.arg,
           at |-> EntryPoint(c.api), draft |-> DefaultEntry,
           todo |-> IF c.api = "setFileDeps" THEN c.arg.file_dependencies
                    ELSE <<>>]]
    BY <1>4 DEF Call, Invoke
  <2>2. /\ frame'[t].api = c.api /\ frame'[t].at = EntryPoint(c.api)
        /\ \A u \in Threads : u # t => frame'[u] = frame[u]
    BY <2>1 DEF TypeOK
  <2>3. /\ SectionsOK(frame'[t])
        /\ c.api = "setAllStoreInMemory" => frame'[t].at = "flag"
    BY <2>2 DEF SectionsOK, EntryPoint, Unlocked
  <2>4. ASSUME NEW u \in Threads
        PROVE  /\ SectionsOK(frame'[u])
               /\ frame'[u].api = "setAllStoreInMemory" /\ frame'[u].at # "flag"
                    => store_all_in_memory'
               /\ Looping(u, "setAllStoreInMemory")'
                    => Misplaced' \subseteq Range(Todo(u)')
    <3>1. CASE u = t
      BY <2>2, <2>3, <3>1 DEF Looping
    <3>2. CASE u # t
      <4>1. frame'[u] = frame[u] /\ Todo(u)' = Todo(u)
        BY <2>2, <3>2 DEF Todo
      <4> QED
        BY <1>1, <1>2, <4>1 DEF StorageInv, Looping
    <3> QED
      BY <3>1, <3>2
  <2> QED
    BY <1>1, <1>2, <2>4 DEF StorageInv
<1> QED
  BY <1>3, <1>4

(* The members of a listing are all the listed keys.                       *)
LEMMA ListingsRange ==
  ASSUME NEW S, NEW s \in Listings(S)
  PROVE  Range(s) = S
BY DEF Listings

(* Taking the first member off a list leaves the others.                   *)
LEMMA RangeTail ==
  ASSUME NEW S, NEW s \in Seq(S), s # <<>>
  PROVE  Range(s) \subseteq {Head(s)} \cup Range(Tail(s))
<1> SUFFICES ASSUME NEW i \in 1 .. Len(s), s[i] # Head(s)
             PROVE  s[i] \in Range(Tail(s))
  BY DEF Range
<1>1. i # 1 /\ i - 1 \in 1 .. Len(Tail(s)) /\ Tail(s)[i - 1] = s[i]
  OBVIOUS
<1>2. DOMAIN Tail(s) = 1 .. Len(Tail(s))
  OBVIOUS
<1> QED
  BY <1>1, <1>2 DEF Range

(* The walk itself: the flag, the snapshot, every iteration and the return *)
(* keep StorageInv.                                                        *)
LEMMA SetAllStorage ==
  ASSUME TypeOK, StorageInv, NEW t \in Threads,
         setAllStoreInMemory(t) \/ Snapshot(t)
  PROVE  StorageInv'
<1> DEFINE h == Head(Todo(t))
           All(u) == /\ SectionsOK(frame'[u])
                     /\ /\ frame'[u].api = "setAllStoreInMemory"
                        /\ frame'[u].at # "flag"
                        => store_all_in_memory'
                     /\ Looping(u, "setAllStoreInMemory")'
                          => Misplaced' \subseteq Range(Todo(u)')
<1>1. frame[t] \in Frame
  BY DEF TypeOK, ValidFrame
<1>2. ASSUME NEW u \in Threads, frame'[u] = frame[u],
             store_all_in_memory => store_all_in_memory',
             Misplaced' \subseteq Misplaced
      PROVE  All(u)
  <2>1. Todo(u)' = Todo(u)
    BY <1>2 DEF Todo
  <2> QED
    BY <1>2, <2>1 DEF StorageInv, Looping
<1>3. CASE /\ frame[t].at = "flag" /\ Goto(t, "snapshot")
           /\ store_all_in_memory' = TRUE
           /\ UNCHANGED <<entries, ret, calls, History>>
  <2>1. Misplaced' = Misplaced /\ allInMemory' = allInMemory
    BY <1>3, SameMisplaced DEF History
  <2>2. \A u \in Threads : u # t => frame'[u] = frame[u]
    BY <1>3 DEF Goto, TypeOK
  <2>3. frame'[t].api = frame[t].api /\ frame'[t].at = "snapshot"
    BY <1>1, <1>3 DEF Goto, TypeOK, Frame
  <2>4. All(t)
    BY <1>3, <2>3 DEF SectionsOK, Looping, Unlocked
  <2>5. \A u \in Threads : All(u)
    BY <1>2, <1>3, <2>1, <2>2, <2>4
  <2> QED
    BY <1>3, <2>1, <2>5 DEF StorageInv
<1>4. CASE Snapshot(t)
  <2>1. PICK s \in Listings(Registered) :
          frame' = [frame EXCEPT ![t].todo = s, ![t].at = "loop"]
    BY <1>4 DEF Snapshot
  <2>2. /\ Misplaced' = Misplaced /\ allInMemory' = allInMemory
        /\ store_all_in_memory' = store_all_in_memory
    BY <1>4, SameMisplaced DEF Snapshot, History
  <2>3. \A u \in Threads : u # t => frame'[u] = frame[u]
    BY <2>1 DEF TypeOK
  <2>4. /\ frame'[t].api = frame[t].api /\ frame'[t].at = "loop"
        /\ frame'[t].todo = s
    BY <1>1, <2>1 DEF TypeOK, Frame
  <2>5. Range(s) = Registered
    BY ListingsRange
  <2>6. All(t)
    <3>1. SectionsOK(frame'[t])
      BY <2>4 DEF SectionsOK, Unlocked
    <3>2. frame[t].api = "setAllStoreInMemory" => store_all_in_memory
      BY <1>4 DEF StorageInv, Snapshot
    <3>3. Misplaced' \subseteq Range(Todo(t)')
      BY <2>2, <2>4, <2>5 DEF Todo, Misplaced
    <3> QED
      BY <2>2, <2>4, <3>1, <3>2, <3>3
  <2>7. \A u \in Threads : All(u)
    BY <1>2, <2>2, <2>3, <2>6
  <2> QED
    BY <2>2, <2>7 DEF StorageInv
<1>5. CASE /\ Looping(t, "setAllStoreInMemory") /\ Todo(t) # <<>>
           /\ Each(t, [entries[h] EXCEPT !.store_in_memory = TRUE])
           /\ fsChoice' = IF h \in Registered \ {EmptyPath}
                          THEN fsChoice \ {h} ELSE fsChoice
           /\ UNCHANGED <<store_all_in_memory, ret, calls, allInMemory>>
  <2>1. store_all_in_memory /\ frame[t].at # "idle"
    BY <1>5 DEF StorageInv, Looping
  <2>2. Todo(t) \in Seq(Path) /\ h \in Path
    BY <1>5, <2>1, FrameFacts
  <2>3. Misplaced \subseteq {h} \cup Range(Tail(Todo(t)))
    BY <1>5, <2>2, RangeTail DEF StorageInv
  <2>4. ASSUME Pop(t), Misplaced' \subseteq Misplaced, h \notin Misplaced'
        PROVE  StorageInv'
    <3>1. \A u \in Threads : u # t => frame'[u] = frame[u]
      BY <2>4 DEF Pop, TypeOK
    <3>2. /\ frame'[t].api = frame[t].api /\ frame'[t].at = frame[t].at
          /\ frame'[t].todo = Tail(Todo(t))
      BY <1>1, <2>4 DEF Pop, Todo, TypeOK, Frame
    <3>3. All(t)
      <4>1. SectionsOK(frame'[t])
        BY <3>2 DEF SectionsOK, StorageInv
      <4>2. Misplaced' \subseteq Range(Todo(t)')
        BY <2>3, <2>4, <3>2 DEF Todo
      <4> QED
        BY <1>5, <2>1, <4>1, <4>2
    <3>4. \A u \in Threads : All(u)
      BY <1>2, <1>5, <2>4, <3>1, <3>3
    <3>5. EmptyPath \notin Misplaced'
      BY <2>4 DEF StorageInv
    <3>6. allInMemory' => store_all_in_memory' /\ Misplaced' = {}
      BY <1>5, <2>4 DEF StorageInv
    <3> QED
      BY <3>4, <3>5, <3>6 DEF StorageInv
  <2>5. CASE h = EmptyPath /\ Pop(t) /\ UNCHANGED entries
    <3>1. Misplaced' = Misplaced
      BY <1>5, <2>5, SameMisplaced
    <3> QED
      BY <2>4, <2>5, <3>1 DEF StorageInv
  <2>6. CASE /\ h \in Registered \ {EmptyPath} /\ Pop(t)
             /\ entries' = [entries EXCEPT ![h] =
                              [entries[h] EXCEPT !.store_in_memory = TRUE]]
    <3> DEFINE e == [entries[h] EXCEPT !.store_in_memory = TRUE]
    <3>1. entries[h] \in Entry
      BY <2>2, <2>6 DEF Registered, TypeOK
    <3>2. e.store_in_memory
      BY <3>1 DEF Entry
    <3>3. entries'[h] = e
      BY <2>2, <2>6 DEF TypeOK
    <3>4. h \notin Misplaced'
      BY <3>2, <3>3 DEF Misplaced
    <3>5. \A q \in Path : q # h => entries'[q] = entries[q]
      BY <2>6 DEF TypeOK
    <3>6. \A q \in Path : q # h /\ q \notin fsChoice' => q \notin fsChoice
      BY <1>5
    <3>7. Misplaced' \subseteq Misplaced
      BY <3>4, <3>5, <3>6 DEF Misplaced, Registered
    <3> QED
      BY <2>4, <2>6, <3>4, <3>7
  <2>7. CASE /\ h \notin Registered \cup {EmptyPath}
             /\ entries' \in _newFile(h) /\ UNCHANGED frame
    <3>1. NoNewMisplaced
      BY <1>5, <2>2, <2>7, NewFileMisplaced
    <3> QED
      BY <1>5, <2>7, <3>1, QuietStep DEF Quiet
  <2> QED
    BY <1>5, <2>5, <2>6, <2>7 DEF Each
<1>6. CASE /\ Looping(t, "setAllStoreInMemory") /\ Todo(t) = <<>>
           /\ allInMemory' = TRUE /\ Return(t, Void)
           /\ UNCHANGED <<entries, store_all_in_memory, calls, fsChoice>>
  <2>1. Misplaced' = Misplaced
    BY <1>6, SameMisplaced
  <2>2. Misplaced = {} /\ store_all_in_memory
    BY <1>6 DEF StorageInv, Looping, Range
  <2>3. /\ frame'[t] = NoFrame
        /\ \A u \in Threads : u # t => frame'[u] = frame[u]
    BY <1>6 DEF Return, TypeOK
  <2>4. All(t)
    BY <2>3 DEF NoFrame, SectionsOK, Unlocked, Looping
  <2>5. \A u \in Threads : All(u)
    BY <1>2, <1>6, <2>1, <2>3, <2>4
  <2> QED
    BY <1>6, <2>1, <2>2, <2>5 DEF StorageInv
<1> QED
  BY <1>3, <1>4, <1>5, <1>6 DEF setAllStoreInMemory

(* The other two walks keep StorageInv.                                    *)
LEMMA OtherLoopsStorage ==
  ASSUME TypeOK, StorageInv, NEW t \in Threads,
         setDirectoryFileCount(t) \/ setFileDeps(t)
  PROVE  StorageInv'
<1> DEFINE p == frame[t].path
           h == Head(Todo(t))
<1>1. /\ frame[t].at = "loop" /\ frame[t].api # "setAllStoreInMemory"
      /\ allInMemory' = allInMemory /\ fsChoice' = fsChoice
      /\ store_all_in_memory' = store_all_in_memory
  BY DEF setDirectoryFileCount, setFileDeps, Looping, History
<1>2. /\ p \in Path /\ Todo(t) \in Seq(Path) /\ frame[t] \in Frame
      /\ Hit(t) => Old(t) \in Entry
      /\ Todo(t) # <<>> => h \in Path
  BY <1>1, FrameFacts
<1>3. ASSUME NEW s, frame' = [frame EXCEPT ![t].todo = s] PROVE Quiet(t)
  <2>1. frame'[t].api = frame[t].api /\ frame'[t].at = "loop"
    BY <1>1, <1>2, <1>3 DEF Frame, TypeOK
  <2>2. SectionsOK(frame'[t])
    BY <1>1, <2>1 DEF SectionsOK, Unlocked
  <2> QED
    BY <1>1, <1>3, <2>1, <2>2 DEF Quiet, TypeOK
<1>4. Pop(t) => Quiet(t)
  BY <1>3 DEF Pop
<1>5. CASE setDirectoryFileCount(t)
  <2>1. CASE Todo(t) # <<>> /\ Each(t, [entries[h] EXCEPT !.is_file = FALSE])
    <3>1. CASE Pop(t) /\ UNCHANGED entries
      BY <1>1, <1>4, <3>1, SameMisplaced, QuietStep
    <3>2. CASE /\ h \in Registered /\ Pop(t)
               /\ entries' = [entries EXCEPT ![h] =
                                [entries[h] EXCEPT !.is_file = FALSE]]
      <4>1. entries[h] \in Entry
        BY <1>2, <2>1, <3>2 DEF Registered, TypeOK
      <4>2. [entries[h] EXCEPT !.is_file = FALSE].store_in_memory
              = entries[h].store_in_memory
        BY <4>1, StorageUntouched
      <4>3. NoNewMisplaced
        BY <1>1, <3>2, <4>2, StoreMisplaced
      <4> QED
        BY <1>4, <3>2, <4>3, QuietStep
    <3>3. CASE entries' \in _newFile(h) /\ UNCHANGED frame
      BY <1>1, <1>2, <2>1, <3>3, NewFileMisplaced, QuietControl, QuietStep
    <3> QED
      BY <2>1, <3>1, <3>2, <3>3 DEF Each
  <2>2. CASE /\ Hit(t) /\ Return(t, Void)
             /\ entries' = [entries EXCEPT ![p] =
                  [@ EXCEPT !.directory_children_count =
                              Arg(t).directory_children_count,
                            !.enable_directory_count_update = FALSE]]
    <3> DEFINE e == [Old(t) EXCEPT !.directory_children_count =
                                     Arg(t).directory_children_count,
                                   !.enable_directory_count_update = FALSE]
    <3>1. e.store_in_memory = entries[p].store_in_memory
      BY <1>2, <2>2, StorageUntouched DEF Old
    <3>2. entries' = [entries EXCEPT ![p] = e]
      BY <2>2 DEF Old
    <3>3. NoNewMisplaced
      BY <1>1, <2>2, <3>1, <3>2, StoreMisplaced DEF Hit
    <3> QED
      BY <1>1, <2>2, <3>3, QuietControl, QuietStep
  <2>3. CASE Goto(t, "snapshot") /\ entries' \in _newFile(p)
    BY <1>1, <1>2, <2>3, NewFileMisplaced, QuietControl, QuietStep
    DEF Label, Unlocked
  <2> QED
    BY <1>5, <2>1, <2>2, <2>3 DEF setDirectoryFileCount
<1>6. CASE setFileDeps(t)
  <2>1. CASE Todo(t) # <<>> /\ Pop(t) /\ entries' \in _newFile(h)
    BY <1>1, <1>2, <1>4, <2>1, NewFileMisplaced, QuietStep
  <2>2. CASE /\ Hit(t) /\ Return(t, Void)
             /\ entries' = [entries EXCEPT ![p].file_dependencies =
                              Arg(t).file_dependencies]
    <3> DEFINE e == [Old(t) EXCEPT !.file_dependencies =
                       Arg(t).file_dependencies]
    <3>1. e.store_in_memory = entries[p].store_in_memory
      BY <1>2, <2>2, StorageUntouched DEF Old
    <3>2. entries' = [entries EXCEPT ![p] = e]
      BY <2>2 DEF Old
    <3>3. NoNewMisplaced
      BY <1>1, <2>2, <3>1, <3>2, StoreMisplaced DEF Hit
    <3> QED
      BY <1>1, <2>2, <3>3, QuietControl, QuietStep
  <2>3. CASE /\ entries' \in _newFile(p)
             /\ frame' = [frame EXCEPT ![t].todo = Arg(t).file_dependencies]
    BY <1>1, <1>2, <1>3, <2>3, NewFileMisplaced, QuietStep
  <2> QED
    BY <1>6, <2>1, <2>2, <2>3 DEF setFileDeps
<1> QED
  BY <1>5, <1>6

(* Where every section is locked, no thread is in getDirectoryFileCount.   *)
LEMMA NobodyUnlocked ==
  ASSUME Locked, TypeOK, CallsOnly, StorageInv, NEW t \in Threads
  PROVE  ~ (\/ getDirectoryFileCount(t) \/ UnlockedFind(t)
            \/ UnlockedEmplace(t) \/ UnlockedCount(t) \/ UnlockedStore(t))
<1>1. SectionsOK(frame[t])
  BY DEF StorageInv
<1>2. frame[t].at # "idle" => frame[t].api # "getDirectoryFileCount"
  BY DEF Locked, CallsOnly
<1> QED
  BY <1>1, <1>2 DEF getDirectoryFileCount, UnlockedFind, UnlockedEmplace,
                    UnlockedCount, UnlockedStore, In, SectionsOK, Unlocked

-----------------------------------------------------------------------------
(* Every step keeps StorageInv.                                            *)
LEMMA StorageInvStep ==
  ASSUME Locked, TypeOK, CallsOnly, StorageInv, [Next]_vars
  PROVE  StorageInv'
<1>1. CASE UNCHANGED vars
  <2>1. Misplaced' = Misplaced
    BY <1>1, SameMisplaced DEF vars
  <2> QED
    BY <1>1, <2>1 DEF vars, StorageInv, Looping, Todo
<1>2. ASSUME NEW t \in Threads, EarlyReturn(t) \/ Call(t) \/ Step(t)
      PROVE  StorageInv'
  BY <1>2, CallStorage, SettersStorage, StorageSettersStorage,
     AddRemoveStorage, QueriesStorage, UpdatesStorage, SetAllStorage,
     OtherLoopsStorage, LookupsStorage, NobodyUnlocked DEF Step
<1> QED
  BY <1>1, <1>2 DEF Next

(* StorageInv holds at the start.                                          *)
LEMMA StorageInvInit == Init => StorageInv
BY PathAssumption
DEF Init, StorageInv, Misplaced, Registered, SectionsOK, NoFrame, Looping, Unlocked

(* If no thread calls the method that registers paths without the lock,    *)
(* then a setAllStoreInMemory under way has everything that is still to be *)
(* moved ahead of it, whatever the other threads register, move and remove *)
(* between its sections.                                                   *)
THEOREM StorageWalkIsComplete ==
  ASSUME Locked
  PROVE  Spec => []StorageInv
<1>1. Init => TypeOK /\ StorageInv
  BY TypeOKInit, StorageInvInit
<1>2. TypeOK /\ CallsOnly /\ StorageInv /\ [Next]_vars
        => (TypeOK /\ StorageInv)'
  BY TypeOKStep, StorageInvStep
<1> QED
  BY <1>1, <1>2, OnlyCalls, PTL DEF Spec

(* setAllStoreInMemory reaches every file: if no thread calls the method   *)
(* that registers paths without the lock, then once a setAllStoreInMemory  *)
(* has returned every registered path is in memory except those that were  *)
(* put on the file system on purpose, for any number of threads and paths. *)
THEOREM EverythingInMemory ==
  ASSUME Locked
  PROVE  Spec => []AllInMemory
<1>1. StorageInv => AllInMemory
  BY DEF StorageInv, AllInMemory, Misplaced, Registered
<1> QED
  BY <1>1, StorageWalkIsComplete, PTL

=============================================================================
