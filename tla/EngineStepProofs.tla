-------------------------- MODULE EngineStepProofs --------------------------
(***************************************************************************)
(* What a single step may do to the table, whatever the other threads are  *)
(* in the middle of: the action properties of Engine, from a lemma that    *)
(* sorts the steps by their effect on the table.                           *)
(***************************************************************************)
EXTENDS EngineStorageProofs

-----------------------------------------------------------------------------
(* The kinds of steps.                                                     *)

(* Entry e names every application that o names.                           *)
Grows(o, e) == /\ Range(o.producers) \subseteq Range(e.producers)
               /\ Range(o.consumers) \subseteq Range(e.consumers)

(* Entry e counts its children as o does.                                  *)
SameCount(o, e) ==
  /\ e.directory_children_count = o.directory_children_count
  /\ e.enable_directory_count_update = o.enable_directory_count_update

(* Whom entry e names as producers of p beyond those p has, thread t's call*)
(* has named for p.                                                        *)
Credits(t, p, e) ==
  \A a \in Range(e.producers) :
    \/ p \in Registered /\ a \in Range(entries[p].producers)
    \/ p = frame[t].path /\ a \in Credited(frame[t])

(* The paths whose entries thread t's call may assign to: its own, if the  *)
(* method is one that does; any, if it walks over the table; the parent,   *)
(* where the unlocked _newFile writes the count back.                      *)
Assigns(t, p) ==
  \/ /\ p = frame[t].path
     /\ frame[t].api \in Setters \cup Adders \cup {"setCommitRule", "setFileDeps"}
  \/ frame[t].api \in {"setAllStoreInMemory", "setDirectoryFileCount"}
  \/ frame[t].at = "store" /\ p = Parent[frame[t].path]

(* A registered path gets another entry that names the same applications;  *)
(* the count changes only where setDirectoryFileCount ends and where the   *)
(* unlocked _newFile writes it back.                                       *)
Revises(t) ==
  \E p \in Registered, e \in Entry :
    /\ entries' = [entries EXCEPT ![p] = e]
    /\ Assigns(t, p) /\ Grows(entries[p], e) /\ Credits(t, p, e)
    /\ \/ SameCount(entries[p], e)
       \/ /\ Ends(t, {"setDirectoryFileCount"}, p)
          /\ ~ e.enable_directory_count_update
       \/ frame[t].at = "store"

(* A path is registered if need be.                                        *)
Registers == \E p \in Path : entries' \in _newFile(p)

(* add(path, ...) ends: registered if need be, and overwritten.            *)
Overwrites(t) ==
  \E p \in Path \ {EmptyPath}, e \in Entry :
    /\ Ends(t, {"add"}, p) /\ Credits(t, p, e)
    /\ \E m \in _newFile(p) :
         entries' = [m EXCEPT ![p] = e] /\ SameCount(m[p], e)

(* add(path, entry) ends: the entry is inserted or merged.                 *)
Merges(t) ==
  \E p \in Path, e \in Entry :
    /\ Ends(t, {"addEntry"}, p) /\ entries' = [entries EXCEPT ![p] = e]
    /\ p \in Registered => Grows(entries[p], e)
    /\ Credits(t, p, e)

(* remove(path) ends.                                                      *)
Removes(t) ==
  \E p \in Path :
    Ends(t, {"remove"}, p) /\ entries' = [entries EXCEPT ![p] = NoEntry]

(* The unlocked _newFile inserts the entry it has made up its mind about.  *)
Emplaces(t) ==
  /\ frame[t].at = "emplace"
  /\ \E p \in Path \ Registered, e \in Entry :
       /\ p = frame[t].path /\ e = frame[t].draft
       /\ entries' = [entries EXCEPT ![p] = e]

TableStep(t) == \/ entries' = entries \/ Registers \/ Revises(t)
                \/ Overwrites(t) \/ Merges(t) \/ Removes(t) \/ Emplaces(t)

-----------------------------------------------------------------------------
(* What the operators on entries keep.                                     *)

(* Appending, and concatenating, lose no member.                           *)
LEMMA ListsGrow ==
  ASSUME NEW S, NEW s \in Seq(S), NEW r \in Seq(S), NEW x
  PROVE  /\ Range(s) \subseteq Range(AppendNew(s, x))
         /\ Range(s) \subseteq Range(s \o r)
<1>1. Range(s) \subseteq Range(Append(s, x))
  <2> SUFFICES ASSUME NEW i \in DOMAIN s PROVE s[i] \in Range(Append(s, x))
    BY DEF Range
  <2>1. i \in DOMAIN Append(s, x) /\ Append(s, x)[i] = s[i]
    OBVIOUS
  <2> QED
    BY <2>1 DEF Range
<1>2. Range(s) \subseteq Range(s \o r)
  <2> SUFFICES ASSUME NEW i \in DOMAIN s PROVE s[i] \in Range(s \o r)
    BY DEF Range
  <2>1. i \in DOMAIN (s \o r) /\ (s \o r)[i] = s[i]
    OBVIOUS
  <2> QED
    BY <2>1 DEF Range
<1> QED
  BY <1>1, <1>2 DEF AppendNew

(* Nor do they add anything but what they are given.                       *)
LEMMA AppendBound ==
  ASSUME NEW S, NEW s \in Seq(S), NEW x
  PROVE  Range(AppendNew(s, x)) \subseteq Range(s) \cup {x}
<1>1. Range(Append(s, x)) \subseteq Range(s) \cup {x}
  <2> SUFFICES ASSUME NEW i \in DOMAIN Append(s, x)
               PROVE  Append(s, x)[i] \in Range(s) \cup {x}
    BY DEF Range
  <2>1. i \in 1 .. Len(s) + 1
    OBVIOUS
  <2>2. CASE i = Len(s) + 1
    BY <2>2
  <2>3. CASE i \in 1 .. Len(s)
    BY <2>3 DEF Range
  <2> QED
    BY <2>1, <2>2, <2>3
<1> QED
  BY <1>1 DEF AppendNew

(* Concatenation neither.                                                  *)
LEMMA ConcatBound ==
  ASSUME NEW S, NEW s \in Seq(S), NEW r \in Seq(S)
  PROVE  Range(s \o r) \subseteq Range(s) \cup Range(r)
<1> SUFFICES ASSUME NEW i \in DOMAIN (s \o r)
             PROVE  (s \o r)[i] \in Range(s) \cup Range(r)
  BY DEF Range
<1>1. i \in 1 .. Len(s) + Len(r)
  OBVIOUS
<1>2. CASE i \in 1 .. Len(s)
  <2>1. (s \o r)[i] = s[i] /\ i \in DOMAIN s
    BY <1>2
  <2> QED
    BY <2>1 DEF Range
<1>3. CASE i \notin 1 .. Len(s)
  <2>1. (s \o r)[i] = r[i - Len(s)] /\ i - Len(s) \in DOMAIN r
    BY <1>1, <1>3
  <2> QED
    BY <2>1 DEF Range
<1> QED
  BY <1>2, <1>3

(* The assignments to one field of an entry name the same applications or  *)
(* more, nobody else as producer than who is appended, and leave the count *)
(* alone.                                                                  *)
LEMMA FieldUpdates ==
  ASSUME NEW e \in Entry, NEW x
  PROVE  LET Same(f) == /\ Grows(e, f) /\ SameCount(e, f)
                        /\ f.producers = e.producers
         IN  /\ Same([e EXCEPT !.fire_rule = x])
             /\ Same([e EXCEPT !.commit_rule = x])
             /\ Same([e EXCEPT !.permanent = x])
             /\ Same([e EXCEPT !.excluded = x])
             /\ Same([e EXCEPT !.is_file = x])
             /\ Same([e EXCEPT !.commit_on_close_count = x])
             /\ Same([e EXCEPT !.store_in_memory = x])
             /\ Same([e EXCEPT !.file_dependencies = x])
             /\ Same([e EXCEPT !.consumers = AppendNew(@, x)])
             /\ LET f == [e EXCEPT !.producers = AppendNew(@, x)]
                IN  /\ Grows(e, f) /\ SameCount(e, f)
                    /\ Range(f.producers) \subseteq Range(e.producers) \cup {x}
<1>1. e.producers \in Seq(App) /\ e.consumers \in Seq(App)
  BY DEF Entry
<1>2. /\ Range(e.producers) \subseteq Range(AppendNew(e.producers, x))
      /\ Range(AppendNew(e.producers, x)) \subseteq Range(e.producers) \cup {x}
      /\ Range(e.consumers) \subseteq Range(AppendNew(e.consumers, x))
  BY <1>1, ListsGrow, AppendBound
<1> QED
  BY <1>2 DEF Entry, Grows, SameCount

(* What registering a path does to the table: nothing if it is there or    *)
(* empty, else it gets a draft, and its parent one more child if that      *)
(* follows its children ("/" is its own parent).                           *)
LEMMA NewFileEffect ==
  ASSUME TypeOK, NEW p \in Path, NEW m \in _newFile(p), m # entries
  PROVE  /\ p # EmptyPath /\ p \notin Registered
         /\ m \in [Path -> Entry \cup {NoEntry}]
         /\ \E e \in Drafts(p) : /\ e \in Entry /\ m[p] \in {e, OneMoreChild(e)}
                                 /\ m[p] # e => Parent[p] = p
         /\ \A q \in Path \ {p} :
              m[q] = IF Counting(entries, q) /\ q = Parent[p]
                     THEN OneMoreChild(entries[q]) ELSE entries[q]
<1>1. p # EmptyPath /\ p \notin Registered
  BY DEF _newFile
<1>2. PICK e \in Drafts(p) :
        m = compute_directory_entry_count([entries EXCEPT ![p] = e], p)
  BY <1>1 DEF _newFile
<1> DEFINE n == [entries EXCEPT ![p] = e]
           d == Parent[p]
<1>3. e \in Entry /\ d \in Path
  BY DraftsType, ConstantsAssumption
<1>4. n \in [Path -> Entry \cup {NoEntry}] /\ n[p] = e
        /\ \A q \in Path \ {p} : n[q] = entries[q]
  BY <1>3 DEF TypeOK
<1> HIDE DEF n
<1>5. m = IF Counting(n, d) THEN [n EXCEPT ![d] = OneMoreChild(n[d])] ELSE n
  BY <1>2 DEF compute_directory_entry_count, n
<1>6. m[p] \in {e, OneMoreChild(e)} /\ (m[p] # e => d = p)
  BY <1>3, <1>4, <1>5
<1>7. \A q \in Path \ {p} : Counting(n, q) = Counting(entries, q)
  BY <1>4 DEF Counting
<1>8. \A q \in Path \ {p} :
        m[q] = IF Counting(entries, q) /\ q = d
               THEN OneMoreChild(entries[q]) ELSE entries[q]
  BY <1>3, <1>4, <1>5, <1>7
<1> QED
  BY <1>1, <1>3, <1>6, <1>8, NewFileType

(* One more child: the same applications, a count one higher.              *)
LEMMA OneMoreChildFacts ==
  ASSUME NEW e \in Entry
  PROVE  /\ Grows(e, OneMoreChild(e)) /\ Grows(OneMoreChild(e), e)
         /\ OneMoreChild(e).directory_children_count
              = e.directory_children_count + 1
         /\ OneMoreChild(e).enable_directory_count_update
              = e.enable_directory_count_update
         /\ Semantics(OneMoreChild(e)) = Semantics(e)
BY DEF OneMoreChild, Entry, Grows, Semantics

-----------------------------------------------------------------------------
(* Every step is of one of the kinds.                                      *)

(* A return ends the call, if one was in progress.                         *)
LEMMA ReturnEnds ==
  ASSUME TypeOK, NEW t \in Threads, NEW v, Return(t, v), NEW M,
         frame[t].api \in M
  PROVE  Ends(t, M, frame[t].path)
BY DEF Return, Ends, TypeOK

(* An entry with the producers that are there credits nobody else.         *)
LEMMA SameCredits ==
  ASSUME NEW t, NEW p \in Registered, NEW e, e.producers = entries[p].producers
  PROVE  Credits(t, p, e)
BY DEF Credits

(* Setting a field of a registered path revises the table.                 *)
LEMMA AssignmentRevises ==
  ASSUME TypeOK, NEW t \in Threads, NEW p \in Registered, NEW e,
         Grows(entries[p], e) /\ SameCount(entries[p], e), e \in Entry,
         e.producers = entries[p].producers \/ Credits(t, p, e),
         Assigns(t, p), entries' = [entries EXCEPT ![p] = e]
  PROVE  TableStep(t)
BY SameCredits DEF TableStep, Revises

(* A setter revises the entry or registers the path.                       *)
LEMMA AssignKind ==
  ASSUME TypeOK, NEW t \in Threads, frame[t].path \in Path, NEW e,
         Assign(t, e), frame[t].api \in Setters,
         Hit(t) => /\ e \in Entry /\ Grows(Old(t), e) /\ SameCount(Old(t), e)
                   /\ e.producers = Old(t).producers
  PROVE  TableStep(t)
<1>1. CASE Hit(t) /\ entries' = [entries EXCEPT ![frame[t].path] = e]
  BY <1>1, AssignmentRevises DEF Hit, Old, Assigns
<1>2. CASE entries' \in _newFile(frame[t].path)
  BY <1>2 DEF TableStep, Registers
<1> QED
  BY <1>1, <1>2 DEF Assign

(* The setters of one field.                                               *)
LEMMA SettersKind ==
  ASSUME TypeOK, NEW t \in Threads,
         \/ setFireRule(t) \/ setPermanent(t) \/ setExclude(t)
         \/ setDirectory(t) \/ setFile(t) \/ setCommitedCloseNumber(t)
         \/ setStoreFileInMemory(t) \/ setStoreFileInFileSystem(t)
  PROVE  TableStep(t)
<1>1. frame[t].at # "idle" /\ frame[t].api \in Setters
  BY DEF In, Setter, setFireRule, setPermanent, setExclude, setDirectory,
         setFile, setCommitedCloseNumber, setStoreFileInMemory,
         setStoreFileInFileSystem, Setters
<1>2. /\ frame[t].path \in Path /\ Arg(t) \in Entry /\ (Hit(t) => Old(t) \in Entry)
      /\ frame[t].api \in Setters
  BY <1>1, FrameFacts
<1>3. CASE setFireRule(t)
  BY <1>2, <1>3, EntryUpdates, FieldUpdates, AssignKind
  DEF setFireRule, Setter
<1>4. CASE setPermanent(t)
  BY <1>2, <1>4, EntryUpdates, FieldUpdates, AssignKind
  DEF setPermanent, Setter
<1>5. CASE setExclude(t)
  BY <1>2, <1>5, EntryUpdates, FieldUpdates, AssignKind DEF setExclude, Setter
<1>6. CASE setDirectory(t)
  BY <1>2, <1>6, EntryUpdates, FieldUpdates, AssignKind DEF setDirectory, Setter
<1>7. CASE setFile(t)
  BY <1>2, <1>7, EntryUpdates, FieldUpdates, AssignKind DEF setFile, Setter
<1>8. CASE setCommitedCloseNumber(t)
  BY <1>2, <1>8, EntryUpdates, FieldUpdates, AssignKind
  DEF setCommitedCloseNumber, Setter
<1>9. CASE setStoreFileInMemory(t)
  BY <1>2, <1>9, EntryUpdates, FieldUpdates, AssignKind
  DEF setStoreFileInMemory
<1>10. CASE setStoreFileInFileSystem(t)
  BY <1>2, <1>10, EntryUpdates, FieldUpdates, AssignKind
  DEF setStoreFileInFileSystem
<1> QED
  BY <1>3, <1>4, <1>5, <1>6, <1>7, <1>8, <1>9, <1>10

(* newFile, both add methods and remove.                                   *)
LEMMA AddRemoveKind ==
  ASSUME TypeOK, NEW t \in Threads,
         newFile(t) \/ add(t) \/ addEntry(t) \/ remove(t)
  PROVE  TableStep(t)
<1> DEFINE p == frame[t].path
<1>1. frame[t].at # "idle"
  BY DEF In, newFile, add, addEntry, remove
<1>2. p \in Path /\ Arg(t) \in Entry /\ (Hit(t) => Old(t) \in Entry)
  BY <1>1, FrameFacts
<1>3. CASE newFile(t)
  BY <1>2, <1>3 DEF newFile, TableStep, Registers
<1>4. CASE add(t)
  <2> DEFINE Over(e) ==
        [e EXCEPT !.producers = Arg(t).producers,
                  !.consumers = Arg(t).consumers,
                  !.commit_rule = Arg(t).commit_rule,
                  !.fire_rule = Arg(t).fire_rule,
                  !.permanent = Arg(t).permanent,
                  !.excluded = Arg(t).excluded,
                  !.file_dependencies = Arg(t).file_dependencies]
  <2>1. PICK m \in _newFile(p) : entries' = [m EXCEPT ![p] = Over(m[p])]
    BY <1>4 DEF add
  <2>2. p # EmptyPath
    BY <1>1, <1>4, FrameFacts DEF add, In, NoPathNeeded, Lookups
  <2>3. m[p] \in Entry
    BY <1>2, <2>2, NewFileRegisters
  <2>4. Over(m[p]) \in Entry
    BY <1>2, <2>3, EntryUpdates
  <2>5. SameCount(m[p], Over(m[p]))
    BY <2>3 DEF SameCount, Entry
  <2>6. Ends(t, {"add"}, p)
    BY <1>4, ReturnEnds DEF add, In
  <2>7. Credits(t, p, Over(m[p]))
    <3>1. Over(m[p]).producers = Arg(t).producers
      BY <2>3 DEF Entry
    <3>2. Credited(frame[t]) = Range(Arg(t).producers)
      BY <1>4 DEF add, In, Credited, Arg
    <3> QED
      BY <3>1, <3>2 DEF Credits
  <2> QED
    BY <1>2, <2>1, <2>2, <2>4, <2>5, <2>6, <2>7 DEF TableStep, Overwrites
<1>5. CASE addEntry(t)
  <2> DEFINE e == IF Hit(t) THEN Merge(entries[p], Arg(t)) ELSE Arg(t)
  <2>1. Ends(t, {"addEntry"}, p)
    BY <1>5, ReturnEnds DEF addEntry, In
  <2>2. entries' = [entries EXCEPT ![p] = e]
    BY <1>5 DEF addEntry
  <2>3. e \in Entry
    BY <1>2, MergeType DEF Old
  <2>4. ASSUME p \in Registered PROVE Grows(entries[p], e)
    <3>1. e = Merge(entries[p], Arg(t)) /\ entries[p] \in Entry
      BY <1>2, <2>4 DEF Hit, Old
    <3> HIDE DEF e
    <3>2. /\ entries[p].producers \in Seq(App)
          /\ entries[p].consumers \in Seq(App)
          /\ Arg(t).producers \in Seq(App) /\ Arg(t).consumers \in Seq(App)
      BY <1>2, <3>1 DEF Entry
    <3>3. /\ Range(entries[p].producers)
               \subseteq Range(entries[p].producers \o Arg(t).producers)
          /\ Range(entries[p].consumers)
               \subseteq Range(entries[p].consumers \o Arg(t).consumers)
      BY <3>2, ListsGrow
    <3>4. /\ e.producers = entries[p].producers \o Arg(t).producers
          /\ e.consumers = entries[p].consumers \o Arg(t).consumers
      BY <3>1 DEF Merge
    <3> QED
      BY <3>3, <3>4 DEF Grows
  <2>5. Credits(t, p, e)
    <3>1. Credited(frame[t]) = Range(Arg(t).producers)
      BY <1>5 DEF addEntry, In, Credited, Arg
    <3>2. CASE Hit(t)
      <4>1. entries[p] \in Entry /\ p \in Registered
        BY <1>2, <3>2 DEF Hit, Old
      <4>2. entries[p].producers \in Seq(App) /\ Arg(t).producers \in Seq(App)
        BY <1>2, <4>1 DEF Entry
      <4>3. e.producers = entries[p].producers \o Arg(t).producers
        BY <3>2 DEF Merge
      <4>4. Range(e.producers) \subseteq
              Range(entries[p].producers) \cup Range(Arg(t).producers)
        BY <4>2, <4>3, ConcatBound
      <4> QED
        BY <3>1, <4>1, <4>4 DEF Credits
    <3>3. CASE ~ Hit(t)
      BY <3>1, <3>3 DEF Credits
    <3> QED
      BY <3>2, <3>3
  <2> HIDE DEF e
  <2> QED
    BY <1>2, <2>1, <2>2, <2>3, <2>4, <2>5 DEF TableStep, Merges
<1>6. CASE remove(t)
  <2>1. Ends(t, {"remove"}, p)
    BY <1>6, ReturnEnds DEF remove, In
  <2> QED
    BY <1>2, <1>6, <2>1 DEF remove, TableStep, Removes
<1> QED
  BY <1>3, <1>4, <1>5, <1>6

(* The methods that look a path up and then change it, and the sections in *)
(* which they and the queries register it.                                 *)
LEMMA UpdatesKind ==
  ASSUME TypeOK, NEW t \in Threads,
         \/ setCommitRule(t) \/ addProducer(t) \/ addConsumer(t)
         \/ addFileDependency(t) \/ Create(t)
  PROVE  TableStep(t)
<1> DEFINE p == frame[t].path
<1>1. frame[t].at # "idle"
  BY DEF In, Update, setCommitRule, addProducer, addConsumer,
         addFileDependency, Create
<1>2. p \in Path /\ Arg(t) \in Entry /\ (Hit(t) => Old(t) \in Entry)
  BY <1>1, FrameFacts
<1>3. ASSUME NEW api \in Adders \cup {"setCommitRule"}, NEW e, Update(t, api, e),
             Hit(t) /\ frame[t].api = api =>
               /\ e \in Entry /\ Grows(Old(t), e) /\ SameCount(Old(t), e)
               /\ e.producers = Old(t).producers \/ Credits(t, p, e)
      PROVE  TableStep(t)
  <2>1. CASE Hit(t) /\ entries' = [entries EXCEPT ![p] = e]
    BY <1>3, <2>1, AssignmentRevises DEF Hit, Old, Update, In, Assigns
  <2>2. CASE entries' = entries
    BY <2>2 DEF TableStep
  <2> QED
    BY <1>3, <2>1, <2>2 DEF Update
<1>4. CASE setCommitRule(t)
  BY <1>2, <1>3, <1>4, EntryUpdates, FieldUpdates DEF setCommitRule, Adders
<1>5. CASE addProducer(t)
  <2> DEFINE x == Strip[Head(Arg(t).producers)]
             e == [Old(t) EXCEPT !.producers = AppendNew(@, x)]
  <2>1. ASSUME Hit(t), frame[t].api = "addProducer" PROVE e \in Entry
    <3>1. Arg(t).producers # <<>> /\ Arg(t).producers \in Seq(App)
      BY <1>1, <1>2, <2>1, FrameFacts DEF Entry
    <3>2. x \in App
      BY <3>1, ConstantsAssumption
    <3>3. AppendNew(Old(t).producers, x) \in Seq(App)
      BY <1>2, <2>1, <3>2, AppendNewType DEF Entry
    <3> QED
      BY <1>2, <2>1, <3>3 DEF Entry
  <2>2. ASSUME Hit(t), frame[t].api = "addProducer" PROVE Credits(t, p, e)
    <3>1. Range(e.producers) \subseteq Range(Old(t).producers) \cup {x}
      BY <1>2, <2>2, FieldUpdates
    <3>2. Credited(frame[t]) = {x}
      BY <2>2 DEF Credited, Arg
    <3> QED
      BY <2>2, <3>1, <3>2 DEF Credits, Hit, Old
  <2> QED
    BY <1>2, <1>3, <1>5, <2>1, <2>2, FieldUpdates DEF addProducer, Adders
<1>6. CASE addConsumer(t)
  <2> DEFINE x == Strip[Head(Arg(t).consumers)]
             e == [Old(t) EXCEPT !.consumers = AppendNew(@, x)]
  <2>1. ASSUME Hit(t), frame[t].api = "addConsumer" PROVE e \in Entry
    <3>1. Arg(t).consumers # <<>> /\ Arg(t).consumers \in Seq(App)
      BY <1>1, <1>2, <2>1, FrameFacts DEF Entry
    <3>2. x \in App
      BY <3>1, ConstantsAssumption
    <3>3. AppendNew(Old(t).consumers, x) \in Seq(App)
      BY <1>2, <2>1, <3>2, AppendNewType DEF Entry
    <3> QED
      BY <1>2, <2>1, <3>3 DEF Entry
  <2> QED
    BY <1>2, <1>3, <1>6, <2>1, FieldUpdates DEF addConsumer, Adders
<1>7. CASE addFileDependency(t)
  <2> DEFINE x == Head(Arg(t).file_dependencies)
             e == [Old(t) EXCEPT !.file_dependencies = AppendNew(@, x)]
             f == [Old(t) EXCEPT !.commit_rule = "on_file"]
  <2>1. ASSUME Hit(t), frame[t].api = "addFileDependency" PROVE e \in Entry
    <3>1. /\ Arg(t).file_dependencies # <<>>
          /\ Arg(t).file_dependencies \in Seq(Path)
      BY <1>1, <1>2, <2>1, FrameFacts DEF Entry
    <3>2. x \in Path /\ Old(t).file_dependencies \in Seq(Path)
      BY <1>2, <2>1, <3>1 DEF Entry
    <3>3. AppendNew(Old(t).file_dependencies, x) \in Seq(Path)
      BY <3>2, AppendNewType
    <3> QED
      BY <1>2, <2>1, <3>3 DEF Entry
  <2>2. CASE Update(t, "addFileDependency", e)
    BY <1>2, <1>3, <2>1, <2>2, FieldUpdates DEF Adders
  <2>3. CASE /\ Hit(t) /\ frame[t].api = "addFileDependency"
             /\ entries' = [entries EXCEPT ![p].commit_rule = "on_file"]
    <3>1. entries' = [entries EXCEPT ![p] = f]
      BY <2>3 DEF Old
    <3>2. /\ f \in Entry /\ Grows(Old(t), f) /\ SameCount(Old(t), f)
          /\ f.producers = Old(t).producers
      BY <1>2, <2>3, EntryUpdates, FieldUpdates
    <3> QED
      BY <2>3, <3>1, <3>2, AssignmentRevises DEF Hit, Old, Assigns, Adders
  <2>4. CASE entries' = entries
    BY <2>4 DEF TableStep
  <2> QED
    BY <1>7, <2>2, <2>3, <2>4 DEF addFileDependency
<1>8. CASE Create(t)
  BY <1>2, <1>8 DEF Create, TableStep, Registers
<1> QED
  BY <1>4, <1>5, <1>6, <1>7, <1>8

(* The walks over a list of paths.                                         *)
LEMMA LoopsKind ==
  ASSUME TypeOK, NEW t \in Threads,
         \/ setAllStoreInMemory(t) \/ setDirectoryFileCount(t)
         \/ setFileDeps(t)
  PROVE  TableStep(t)
<1> DEFINE p == frame[t].path
           h == Head(Todo(t))
<1>1. frame[t].at # "idle"
  BY DEF Looping, setAllStoreInMemory, setDirectoryFileCount, setFileDeps
<1>2. /\ p \in Path /\ Arg(t) \in Entry /\ (Hit(t) => Old(t) \in Entry)
      /\ Todo(t) # <<>> => h \in Path
      /\ Todo(t) # <<>> /\ h \in Registered => entries[h] \in Entry
  BY <1>1, FrameFacts DEF Registered, TypeOK
<1>3. ASSUME NEW e, Each(t, e), Todo(t) # <<>>,
             frame[t].api \in {"setAllStoreInMemory", "setDirectoryFileCount"},
             h \in Registered => /\ e \in Entry /\ Grows(entries[h], e)
                                 /\ SameCount(entries[h], e)
                                 /\ e.producers = entries[h].producers
      PROVE  TableStep(t)
  <2>1. CASE entries' = entries
    BY <2>1 DEF TableStep
  <2>2. CASE h \in Registered /\ entries' = [entries EXCEPT ![h] = e]
    BY <1>3, <2>2, AssignmentRevises DEF Assigns
  <2>3. CASE entries' \in _newFile(h)
    BY <1>2, <1>3, <2>3 DEF TableStep, Registers
  <2> QED
    BY <1>3, <2>1, <2>2, <2>3 DEF Each
<1>4. CASE entries' = entries
  BY <1>4 DEF TableStep
<1>5. CASE entries' \in _newFile(p)
  BY <1>2, <1>5 DEF TableStep, Registers
<1>6. CASE setAllStoreInMemory(t)
  <2>1. CASE /\ Looping(t, "setAllStoreInMemory") /\ Todo(t) # <<>>
             /\ Each(t, [entries[h] EXCEPT !.store_in_memory = TRUE])
    BY <1>2, <1>3, <2>1, EntryUpdates, FieldUpdates DEF Looping
  <2> QED
    BY <1>4, <1>6, <2>1 DEF setAllStoreInMemory
<1>7. CASE setDirectoryFileCount(t)
  <2>1. CASE /\ Looping(t, "setDirectoryFileCount") /\ Todo(t) # <<>>
             /\ Each(t, [entries[h] EXCEPT !.is_file = FALSE])
    BY <1>2, <1>3, <2>1, EntryUpdates, FieldUpdates DEF Looping
  <2>2. CASE /\ Hit(t) /\ Return(t, Void)
             /\ entries' = [entries EXCEPT ![p] =
                  [@ EXCEPT !.directory_children_count =
                              Arg(t).directory_children_count,
                            !.enable_directory_count_update = FALSE]]
    <3> DEFINE e == [Old(t) EXCEPT !.directory_children_count =
                                     Arg(t).directory_children_count,
                                   !.enable_directory_count_update = FALSE]
    <3>1. entries' = [entries EXCEPT ![p] = e]
      BY <2>2 DEF Old
    <3>2. e \in Entry /\ Grows(Old(t), e) /\ e.producers = Old(t).producers
      <4>1. e \in Entry
        BY <1>2, <2>2, EntryUpdates
      <4>2. Grows(Old(t), e) /\ e.producers = Old(t).producers
        BY <1>2, <2>2 DEF Entry, Grows
      <4> QED
        BY <4>1, <4>2
    <3>3. ~ e.enable_directory_count_update
      BY <1>2, <2>2 DEF Entry
    <3>4. Ends(t, {"setDirectoryFileCount"}, p)
      BY <1>7, <2>2, ReturnEnds DEF setDirectoryFileCount, Looping
    <3> HIDE DEF e
    <3> QED
      BY <2>2, <3>1, <3>2, <3>3, <3>4, SameCredits
      DEF TableStep, Revises, Hit, Old, Assigns, Ends
  <2> QED
    BY <1>5, <1>7, <2>1, <2>2 DEF setDirectoryFileCount
<1>8. CASE setFileDeps(t)
  <2>1. CASE Todo(t) # <<>> /\ entries' \in _newFile(h)
    BY <1>2, <2>1 DEF TableStep, Registers
  <2>2. CASE /\ Looping(t, "setFileDeps") /\ Hit(t)
             /\ entries' = [entries EXCEPT ![p].file_dependencies =
                              Arg(t).file_dependencies]
    <3> DEFINE e == [Old(t) EXCEPT !.file_dependencies =
                                     Arg(t).file_dependencies]
    <3>1. entries' = [entries EXCEPT ![p] = e]
      BY <2>2 DEF Old
    <3>2. /\ e \in Entry /\ Grows(Old(t), e) /\ SameCount(Old(t), e)
          /\ e.producers = Old(t).producers
      BY <1>2, <2>2, EntryUpdates, FieldUpdates
    <3> QED
      BY <2>2, <3>1, <3>2, AssignmentRevises DEF Hit, Old, Assigns, Looping
  <2> QED
    BY <1>5, <1>8, <2>1, <2>2 DEF setFileDeps
<1> QED
  BY <1>6, <1>7, <1>8

(* The unlocked _newFile.                                                  *)
LEMMA UnlockedKind ==
  ASSUME TypeOK, NEW t \in Threads, UnlockedEmplace(t) \/ UnlockedStore(t)
  PROVE  TableStep(t)
<1> DEFINE p == frame[t].path
           d == Parent[p]
<1>1. frame[t].at # "idle"
  BY DEF UnlockedEmplace, UnlockedStore
<1>2. p \in Path /\ frame[t].draft \in Entry /\ d \in Path
  BY <1>1, FrameFacts, ConstantsAssumption
<1>3. CASE UnlockedEmplace(t)
  BY <1>2, <1>3 DEF UnlockedEmplace, TableStep, Emplaces, Hit
<1>4. CASE UnlockedStore(t)
  <2> DEFINE e == [entries[d] EXCEPT
                     !.directory_children_count =
                        frame[t].draft.directory_children_count + 1,
                     !.is_file = FALSE]
  <2>1. frame[t].at = "store"
          /\ entries' = IF entries[d] = NoEntry THEN entries
                        ELSE [entries EXCEPT ![d] = e]
    BY <1>4 DEF UnlockedStore
  <2>2. entries[d] # NoEntry =>
          /\ d \in Registered /\ e \in Entry /\ Grows(entries[d], e)
          /\ e.producers = entries[d].producers
    <3> SUFFICES ASSUME entries[d] # NoEntry
                 PROVE  /\ d \in Registered /\ e \in Entry /\ Grows(entries[d], e)
                        /\ e.producers = entries[d].producers
      OBVIOUS
    <3>1. d \in Registered /\ entries[d] \in Entry
      BY <1>2 DEF Registered, TypeOK
    <3>2. e \in Entry
      BY <1>2, <3>1, EntryUpdates
    <3>3. Grows(entries[d], e) /\ e.producers = entries[d].producers
      BY <3>1 DEF Entry, Grows
    <3> QED
      BY <3>1, <3>2, <3>3
  <2> HIDE DEF e
  <2> QED
    BY <2>1, <2>2, SameCredits DEF TableStep, Revises, Assigns
<1> QED
  BY <1>3, <1>4

(* Making a call, and the methods and sections that only look, leave the   *)
(* table alone.                                                            *)
LEMMA LookingKind ==
  ASSUME NEW t \in Threads,
         \/ EarlyReturn(t) \/ Call(t) \/ getCommitRule(t) \/ getFireRule(t)
         \/ isFirable(t) \/ isExcluded(t) \/ isStoredInMemory(t)
         \/ getCommitCloseCount(t) \/ getProducers(t) \/ isPermanent(t)
         \/ isFile(t) \/ isDirectory(t) \/ isProducer(t) \/ isConsumer(t)
         \/ Snapshot(t) \/ getDirectoryFileCount(t) \/ UnlockedFind(t)
         \/ UnlockedCount(t) \/ getConsumers(t) \/ contains(t) \/ size(t)
         \/ getCommitOnFileDependencies(t) \/ getPaths(t)
         \/ getFileToStoreInMemory(t)
  PROVE  entries' = entries
BY DEF EarlyReturn, Refuse, Call, Invoke, getCommitRule, getFireRule,
       isFirable, isExcluded, isStoredInMemory, getCommitCloseCount,
       getProducers, isPermanent, isFile, isDirectory, isProducer, isConsumer,
       Snapshot, getDirectoryFileCount, UnlockedFind, UnlockedCount,
       getConsumers, contains, size, getCommitOnFileDependencies, getPaths,
       getFileToStoreInMemory, Query, Lookup

(* Every step of a thread is of one of the kinds.                          *)
LEMMA StepKinds ==
  ASSUME TypeOK, NEW t \in Threads, EarlyReturn(t) \/ Call(t) \/ Step(t)
  PROVE  TableStep(t)
<1>1. CASE entries' = entries
  BY <1>1 DEF TableStep
<1>2. CASE entries' # entries
  BY <1>2, LookingKind, SettersKind, AddRemoveKind, UpdatesKind, LoopsKind,
     UnlockedKind DEF Step
<1> QED
  BY <1>1, <1>2

-----------------------------------------------------------------------------
(* No application is lost.                                                 *)

(* A registered path keeps its applications through a step, unless a       *)
(* remove or an overwriting add of that very path ends in it.              *)
LEMMA RolesKept ==
  ASSUME TypeOK, NEW t \in Threads, TableStep(t), NEW q \in Registered
  PROVE  \/ q \in Registered' /\ Grows(entries[q], entries'[q])
         \/ Ends(t, {"remove", "add"}, q)
<1>1. q \in Path /\ entries[q] \in Entry /\ entries[q] # NoEntry
  BY DEF Registered, TypeOK
<1>2. \A e \in Entry : e # NoEntry
  BY ConstantsAssumption
<1>3. Grows(entries[q], entries[q])
  BY DEF Grows
<1>4. ASSUME NEW p \in Path, NEW m \in _newFile(p)
      PROVE  m[q] \in Entry /\ Grows(entries[q], m[q])
  <2>1. CASE m = entries
    BY <1>1, <1>3, <2>1
  <2>2. CASE m # entries
    <3>1. q # p
      BY <2>2, NewFileEffect
    <3>2. m[q] = entries[q] \/ m[q] = OneMoreChild(entries[q])
      BY <1>1, <2>2, <3>1, NewFileEffect
    <3> QED
      BY <1>1, <1>3, <3>2, OneMoreChildFacts, OneMoreChildType
  <2> QED
    BY <2>1, <2>2
<1>5. CASE entries' = entries
  BY <1>1, <1>3, <1>5 DEF Registered
<1>6. CASE Registers
  BY <1>1, <1>2, <1>4, <1>6 DEF Registers, Registered
<1>7. CASE Revises(t)
  BY <1>1, <1>2, <1>3, <1>7 DEF Revises, Registered, TypeOK
<1>8. CASE Overwrites(t)
  <2>1. PICK p \in Path \ {EmptyPath}, e \in Entry :
          /\ Ends(t, {"add"}, p)
          /\ \E m \in _newFile(p) : entries' = [m EXCEPT ![p] = e]
    BY <1>8 DEF Overwrites
  <2>2. PICK m \in _newFile(p) : entries' = [m EXCEPT ![p] = e]
    BY <2>1
  <2>3. m[q] \in Entry /\ Grows(entries[q], m[q])
    BY <1>4
  <2>4. CASE q = p
    BY <2>1, <2>4 DEF Ends
  <2>5. CASE q # p
    <3>1. entries'[q] = m[q]
      BY <1>1, <2>2, <2>5, NewFileType
    <3> QED
      BY <1>1, <1>2, <2>3, <3>1 DEF Registered
  <2> QED
    BY <2>4, <2>5
<1>9. CASE Merges(t)
  BY <1>1, <1>2, <1>3, <1>9 DEF Merges, Registered, TypeOK
<1>10. CASE Removes(t)
  BY <1>1, <1>3, <1>10 DEF Removes, Registered, Ends, TypeOK
<1>11. CASE Emplaces(t)
  BY <1>1, <1>3, <1>11 DEF Emplaces, Registered, TypeOK
<1> QED
  BY <1>5, <1>6, <1>7, <1>8, <1>9, <1>10, <1>11 DEF TableStep

(* No step loses an application of any path.                               *)
LEMMA KeepsRolesStep == TypeOK /\ Next => KeepsRoles
<1> SUFFICES ASSUME TypeOK, NEW t \in Threads, NEW p \in Path,
                    EarlyReturn(t) \/ Call(t) \/ Step(t),
                    ~ \E u \in Threads, q \in Path :
                        <<q, p>> \in Matches /\ Ends(u, {"remove", "add"}, q)
             PROVE  /\ ProducersOf(p) \subseteq ProducersOf(p)'
                    /\ ConsumersOf(p) \subseteq ConsumersOf(p)'
  BY DEF Next, KeepsRoles
<1>1. TableStep(t)
  BY StepKinds
<1>2. \A q \in Registered : <<q, p>> \in Matches =>
        q \in Registered' /\ Grows(entries[q], entries'[q])
  BY <1>1, RolesKept DEF Registered
<1>3. ASSUME NEW a \in ProducersOf(p) PROVE a \in ProducersOf(p)'
  <2>1. PICK q \in Registered : /\ <<q, p>> \in Matches
                                /\ a \in Range(entries[q].producers)
    BY <1>3 DEF ProducersOf
  <2>2. q \in Registered' /\ a \in Range(entries'[q].producers)
    BY <1>2, <2>1 DEF Grows
  <2> QED
    BY <2>1, <2>2 DEF ProducersOf
<1>4. ASSUME NEW a \in ConsumersOf(p) PROVE a \in ConsumersOf(p)'
  <2>1. PICK q \in Registered : /\ <<q, p>> \in Matches
                                /\ a \in Range(entries[q].consumers)
    BY <1>4 DEF ConsumersOf
  <2>2. q \in Registered' /\ a \in Range(entries'[q].consumers)
    BY <1>2, <2>1 DEF Grows
  <2> QED
    BY <2>1, <2>2 DEF ConsumersOf
<1> QED
  BY <1>3, <1>4

(* No application is lost: for any number of threads, in any interleaving  *)
(* of their critical sections and of the unlocked reads and writes of      *)
(* getDirectoryFileCount, an application stays producer or consumer of a   *)
(* path until a remove or an add of a matching entry ends.                 *)
THEOREM RolesAreNotLost == Spec => NoLostRoles
<1>1. TypeOK /\ [Next]_vars => [KeepsRoles]_vars
  BY KeepsRolesStep
<1> QED
  BY <1>1, TypeCorrect, PTL DEF Spec, NoLostRoles

-----------------------------------------------------------------------------
(* Counts of children.                                                     *)

(* When nobody makes the unlocked call, no thread is in its sections.      *)
LEMMA NobodyInUnlocked ==
  ASSUME Locked, CallsOnly, StorageInv, NEW t \in Threads
  PROVE  frame[t].at \notin Unlocked
<1> SUFFICES ASSUME frame[t].at \in Unlocked PROVE FALSE
  OBVIOUS
<1>1. frame[t].api = "getDirectoryFileCount"
  BY DEF StorageInv, SectionsOK
<1>2. frame[t].at # "idle"
  BY DEF Unlocked
<1> QED
  BY <1>1, <1>2 DEF CallsOnly, Locked

(* What a step does to the count of a registered path p that no call about *)
(* p's count or entry ends on: registering one of its children adds one if *)
(* p follows its children, and nothing else touches it.                    *)
LEMMA CountEffect ==
  ASSUME TypeOK, NEW t \in Threads, TableStep(t), NEW p \in Registered,
         frame[t].at \notin Unlocked,
         ~ Ends(t, {"remove", "setDirectoryFileCount", "addEntry"}, p)
  PROVE  /\ entries'[p] \in Entry
         /\ \/ SameCount(entries[p], entries'[p])
            \/ /\ Counting(entries, p)
               /\ SameCount(OneMoreChild(entries[p]), entries'[p])
<1>1. p \in Path /\ entries[p] \in Entry
  BY DEF Registered, TypeOK
<1>2. SameCount(entries[p], entries[p])
  BY DEF SameCount
<1>3. ASSUME NEW q \in Path, NEW m \in _newFile(q)
      PROVE  /\ m[p] \in Entry
             /\ \/ m[p] = entries[p]
                \/ Counting(entries, p) /\ m[p] = OneMoreChild(entries[p])
  <2>1. CASE m = entries
    BY <1>1, <2>1
  <2>2. CASE m # entries
    <3>1. q # p
      BY <2>2, NewFileEffect
    <3>2. \/ m[p] = entries[p]
          \/ Counting(entries, p) /\ m[p] = OneMoreChild(entries[p])
      BY <1>1, <2>2, <3>1, NewFileEffect
    <3> QED
      BY <1>1, <3>2, OneMoreChildType
  <2> QED
    BY <2>1, <2>2
<1>4. SameCount(OneMoreChild(entries[p]), OneMoreChild(entries[p]))
  BY DEF SameCount
<1>5. CASE entries' = entries
  BY <1>1, <1>2, <1>5
<1>6. CASE Registers
  BY <1>2, <1>3, <1>4, <1>6 DEF Registers
<1>7. CASE Revises(t)
  <2>1. PICK q \in Registered, e \in Entry :
          /\ entries' = [entries EXCEPT ![q] = e]
          /\ \/ SameCount(entries[q], e)
             \/ Ends(t, {"setDirectoryFileCount"}, q)
    BY <1>7 DEF Revises, Unlocked
  <2>2. CASE q = p
    BY <1>1, <2>1, <2>2 DEF Ends, TypeOK
  <2>3. CASE q # p
    BY <1>1, <1>2, <2>1, <2>3 DEF TypeOK
  <2> QED
    BY <2>2, <2>3
<1>8. CASE Overwrites(t)
  <2>1. PICK q \in Path \ {EmptyPath}, e \in Entry :
          \E m \in _newFile(q) :
            entries' = [m EXCEPT ![q] = e] /\ SameCount(m[q], e)
    BY <1>8 DEF Overwrites
  <2>2. PICK m \in _newFile(q) :
          entries' = [m EXCEPT ![q] = e] /\ SameCount(m[q], e)
    BY <2>1
  <2>3. SameCount(m[p], entries'[p]) /\ entries'[p] \in Entry
    <3>1. m \in [Path -> Entry \cup {NoEntry}]
      BY NewFileType
    <3>2. CASE q = p
      BY <1>1, <2>2, <3>1, <3>2
    <3>3. CASE q # p
      BY <1>1, <1>3, <2>2, <3>1, <3>3 DEF SameCount
    <3> QED
      BY <3>2, <3>3
  <2> QED
    BY <1>3, <2>3
<1>9. CASE Merges(t)
  BY <1>1, <1>2, <1>9 DEF Merges, Ends, TypeOK
<1>10. CASE Removes(t)
  BY <1>1, <1>2, <1>10 DEF Removes, Ends, TypeOK
<1>11. CASE Emplaces(t)
  BY <1>11 DEF Emplaces, Unlocked
<1> QED
  BY <1>5, <1>6, <1>7, <1>8, <1>9, <1>10, <1>11 DEF TableStep

(* No step touches a count that was fixed.                                 *)
LEMMA KeepsFrozenCountsStep ==
  ASSUME Locked
  PROVE  TypeOK /\ CallsOnly /\ StorageInv /\ Next => KeepsFrozenCounts
<1> SUFFICES ASSUME TypeOK, CallsOnly, StorageInv, NEW t \in Threads, NEW p \in Registered,
                    EarlyReturn(t) \/ Call(t) \/ Step(t),
                    ~ entries[p].enable_directory_count_update,
                    ~ Ends(t, {"remove", "setDirectoryFileCount", "addEntry"}, p)
             PROVE  /\ p \in Registered'
                    /\ ~ entries'[p].enable_directory_count_update
                    /\ entries'[p].directory_children_count =
                         entries[p].directory_children_count
  BY DEF Next, KeepsFrozenCounts
<1>1. frame[t].at \notin Unlocked /\ TableStep(t)
  BY NobodyInUnlocked, StepKinds
<1>2. entries'[p] \in Entry /\ SameCount(entries[p], entries'[p])
  BY <1>1, CountEffect DEF Counting
<1> QED
  BY <1>2, ConstantsAssumption DEF Registered, SameCount

(* A count set explicitly stays: if no thread calls the method that        *)
(* registers paths without the lock, the automatic counting never touches  *)
(* it, whichever children the threads register and in whichever order.     *)
THEOREM FrozenCountsStay ==
  ASSUME Locked
  PROVE  Spec => FrozenCount
<1>1. TypeOK /\ CallsOnly /\ StorageInv /\ [Next]_vars => [KeepsFrozenCounts]_vars
  BY KeepsFrozenCountsStep
<1> QED
  BY <1>1, TypeCorrect, OnlyCalls, StorageWalkIsComplete, PTL DEF Spec, FrozenCount

(* The children of d that table m has and the table now has not.           *)
Born(m, d) == {q \in Path \ Registered : m[q] # NoEntry /\ Parent[q] = d}

(* The new children of a directory are those born in the step.             *)
LEMMA NewChildrenBorn ==
  ASSUME NEW d PROVE NewChildren(d) = Born(entries', d)
BY DEF NewChildren, Children, Born, Registered

(* Registering a path adds to the count of a directory that follows its    *)
(* children the number of children born: one, or none.                     *)
LEMMA NewFileCounts ==
  ASSUME TypeOK, NEW p \in Path, NEW m \in _newFile(p),
         NEW d \in Registered, Counting(entries, d)
  PROVE  m[d].directory_children_count =
           entries[d].directory_children_count + Cardinality(Born(m, d))
<1>1. d \in Path /\ entries[d] \in Entry
        /\ entries[d].directory_children_count \in Int
  BY DEF Registered, TypeOK, Entry
<1>2. CASE m = entries
  <2>1. Born(m, d) = {}
    BY <1>2 DEF Born, Registered
  <2> QED
    BY <1>1, <1>2, <2>1, FS_EmptySet
<1>3. CASE m # entries
  <2>1. p \notin Registered /\ d # p
    BY <1>3, NewFileEffect
  <2>2. \A q \in Path \ {p} : q \notin Registered => m[q] = NoEntry
    BY <1>3, NewFileEffect DEF Counting, Registered
  <2>3. m[p] # NoEntry
    BY <1>3, NewFileEffect, NewFileRegisters, ConstantsAssumption
  <2>4. CASE Parent[p] = d
    <3>1. Born(m, d) = {p}
      BY <2>1, <2>2, <2>3, <2>4 DEF Born
    <3>2. m[d] = OneMoreChild(entries[d])
      BY <1>1, <1>3, <2>1, <2>4, NewFileEffect
    <3> QED
      BY <1>1, <3>1, <3>2, OneMoreChildFacts, FS_Singleton
  <2>5. CASE Parent[p] # d
    <3>1. Born(m, d) = {}
      BY <2>2, <2>5 DEF Born
    <3>2. m[d] = entries[d]
      BY <1>1, <1>3, <2>1, <2>5, NewFileEffect
    <3> QED
      BY <1>1, <3>1, <3>2, FS_EmptySet
  <2> QED
    BY <2>4, <2>5
<1> QED
  BY <1>2, <1>3

(* Every step adds to a count the children it registers.                   *)
LEMMA CountsNewChildrenStep ==
  ASSUME Locked
  PROVE  TypeOK /\ CallsOnly /\ StorageInv /\ Next => CountsNewChildren
<1> SUFFICES ASSUME TypeOK, CallsOnly, StorageInv, NEW t \in Threads,
                    EarlyReturn(t) \/ Call(t) \/ Step(t),
                    NEW d \in Registered \ {EmptyPath},
                    entries[d].enable_directory_count_update,
                    d \in Registered',
                    entries'[d].enable_directory_count_update,
                    ~ \E p \in {d} \cup NewChildren(d) : Ends(t, {"addEntry"}, p)
             PROVE  entries'[d].directory_children_count =
                      entries[d].directory_children_count
                        + Cardinality(NewChildren(d))
  BY DEF Next, CountsNewChildren
<1> DEFINE B == Born(entries', d)
<1>1. frame[t].at \notin Unlocked /\ TableStep(t)
  BY NobodyInUnlocked, StepKinds
<1>2. /\ d \in Path /\ entries[d] \in Entry /\ Counting(entries, d)
      /\ entries[d].directory_children_count \in Int
  BY DEF Registered, TypeOK, Entry, Counting
<1>3. SUFFICES entries'[d].directory_children_count =
                 entries[d].directory_children_count + Cardinality(B)
  BY NewChildrenBorn
<1>4. ASSUME B = {}, entries'[d].directory_children_count =
                       entries[d].directory_children_count
      PROVE  entries'[d].directory_children_count =
               entries[d].directory_children_count + Cardinality(B)
  BY <1>2, <1>4, FS_EmptySet
<1>5. CASE entries' = entries
  BY <1>4, <1>5 DEF Born, Registered
<1>6. CASE Registers
  BY <1>2, <1>6, NewFileCounts DEF Registers
<1>7. CASE Revises(t)
  <2>1. PICK q \in Registered, e \in Entry :
          /\ entries' = [entries EXCEPT ![q] = e]
          /\ SameCount(entries[q], e) \/ ~ e.enable_directory_count_update
    BY <1>1, <1>7 DEF Revises, Unlocked
  <2>2. B = {}
    BY <2>1 DEF Born, Registered, TypeOK
  <2>3. entries'[d].directory_children_count =
          entries[d].directory_children_count
    BY <1>2, <2>1 DEF SameCount, TypeOK
  <2> QED
    BY <1>4, <2>2, <2>3
<1>8. CASE Overwrites(t)
  <2>1. PICK q \in Path \ {EmptyPath}, e \in Entry :
          \E m \in _newFile(q) :
            entries' = [m EXCEPT ![q] = e] /\ SameCount(m[q], e)
    BY <1>8 DEF Overwrites
  <2>2. PICK m \in _newFile(q) :
          entries' = [m EXCEPT ![q] = e] /\ SameCount(m[q], e)
    BY <2>1
  <2>3. m \in [Path -> Entry \cup {NoEntry}] /\ m[q] \in Entry
    BY NewFileType, NewFileRegisters
  <2>4. B = Born(m, d)
    BY <2>2, <2>3, ConstantsAssumption DEF Born
  <2>5. entries'[d].directory_children_count = m[d].directory_children_count
    BY <1>2, <2>2, <2>3 DEF SameCount
  <2> QED
    BY <1>2, <2>4, <2>5, NewFileCounts
<1>9. CASE Merges(t)
  <2>1. PICK q \in Path, e \in Entry :
          Ends(t, {"addEntry"}, q) /\ entries' = [entries EXCEPT ![q] = e]
    BY <1>9 DEF Merges
  <2>2. q # d /\ q \notin B
    BY <2>1, NewChildrenBorn
  <2>3. B = {}
    BY <2>1, <2>2 DEF Born, Registered, TypeOK
  <2> QED
    BY <1>2, <1>4, <2>1, <2>2, <2>3 DEF TypeOK
<1>10. CASE Removes(t)
  <2>1. PICK q \in Path : entries' = [entries EXCEPT ![q] = NoEntry]
    BY <1>10 DEF Removes
  <2>2. q # d
    BY <1>2, <2>1 DEF Registered, TypeOK
  <2>3. B = {}
    BY <2>1 DEF Born, Registered, TypeOK
  <2> QED
    BY <1>2, <1>4, <2>1, <2>2, <2>3 DEF TypeOK
<1>11. CASE Emplaces(t)
  BY <1>1, <1>11 DEF Emplaces, Unlocked
<1> QED
  BY <1>1, <1>5, <1>6, <1>7, <1>8, <1>9, <1>10, <1>11 DEF TableStep

(* Every child is counted exactly once: if no thread calls the method that *)
(* registers paths without the lock, the count of a directory that follows *)
(* its children grows, in every step, by the children registered in it.    *)
THEOREM ChildrenAreCountedOnce ==
  ASSUME Locked
  PROVE  Spec => CountFollowsChildren
<1>1. TypeOK /\ CallsOnly /\ StorageInv /\ [Next]_vars => [CountsNewChildren]_vars
  BY CountsNewChildrenStep
<1> QED
  BY <1>1, TypeCorrect, OnlyCalls, StorageWalkIsComplete, PTL DEF Spec, CountFollowsChildren

-----------------------------------------------------------------------------
(* Looking a path up changes nobody's semantics.                           *)

(* A thread's step leaves the other threads where they are.                *)
LEMMA OthersStay ==
  ASSUME TypeOK, NEW t \in Threads, EarlyReturn(t) \/ Call(t) \/ Step(t),
         NEW u \in Threads, u # t
  PROVE  frame'[u] = frame[u]
<1>1. ASSUME NEW l, Goto(t, l) PROVE frame'[u] = frame[u]
  BY <1>1 DEF Goto, TypeOK
<1>2. ASSUME NEW v, Return(t, v) PROVE frame'[u] = frame[u]
  BY <1>2 DEF Return, TypeOK
<1>3. ASSUME Pop(t) PROVE frame'[u] = frame[u]
  BY <1>3 DEF Pop, TypeOK
<1>4. CASE EarlyReturn(t) \/ Call(t)
  BY <1>4 DEF EarlyReturn, Refuse, Call, Invoke, TypeOK
<1>5. CASE \/ setFireRule(t) \/ setPermanent(t) \/ setExclude(t)
           \/ setDirectory(t) \/ setFile(t) \/ setCommitedCloseNumber(t)
           \/ setStoreFileInMemory(t) \/ setStoreFileInFileSystem(t)
           \/ newFile(t) \/ add(t) \/ addEntry(t) \/ remove(t)
  BY <1>2, <1>5
  DEF Setter, Assign, setFireRule, setPermanent, setExclude, setDirectory,
      setFile, setCommitedCloseNumber, setStoreFileInMemory,
      setStoreFileInFileSystem, newFile, add, addEntry, remove
<1>6. CASE \/ getCommitRule(t) \/ getFireRule(t) \/ isFirable(t)
           \/ isExcluded(t) \/ isStoredInMemory(t) \/ getCommitCloseCount(t)
           \/ getProducers(t) \/ isPermanent(t) \/ isFile(t) \/ isDirectory(t)
           \/ isProducer(t) \/ isConsumer(t) \/ getDirectoryFileCount(t)
  BY <1>1, <1>2, <1>6
  DEF Query, getCommitRule, getFireRule, isFirable, isExcluded,
      isStoredInMemory, getCommitCloseCount, getProducers, isPermanent, isFile,
      isDirectory, isProducer, isConsumer, getDirectoryFileCount
<1>7. CASE \/ setCommitRule(t) \/ addProducer(t) \/ addConsumer(t)
           \/ addFileDependency(t) \/ Create(t)
  BY <1>1, <1>2, <1>7
  DEF Update, setCommitRule, addProducer, addConsumer, addFileDependency, Create
<1>8. CASE Snapshot(t) \/ UnlockedFind(t) \/ UnlockedEmplace(t)
             \/ UnlockedCount(t) \/ UnlockedStore(t)
  BY <1>1, <1>8
  DEF Snapshot, UnlockedFind, UnlockedEmplace, UnlockedCount, UnlockedStore,
      TypeOK
<1>9. CASE setAllStoreInMemory(t) \/ setDirectoryFileCount(t) \/ setFileDeps(t)
  BY <1>1, <1>2, <1>3, <1>9
  DEF setAllStoreInMemory, setDirectoryFileCount, setFileDeps, Each, TypeOK
<1>10. CASE \/ getConsumers(t) \/ getCommitOnFileDependencies(t)
            \/ contains(t) \/ size(t) \/ getPaths(t)
            \/ getFileToStoreInMemory(t)
  BY <1>2, <1>10
  DEF Lookup, getConsumers, getCommitOnFileDependencies, contains, size,
      getPaths, getFileToStoreInMemory
<1> QED
  BY <1>4, <1>5, <1>6, <1>7, <1>8, <1>9, <1>10 DEF Step

(* From a create section only that section itself is next.                 *)
LEMMA OnlyCreate ==
  ASSUME NEW t \in Threads, EarlyReturn(t) \/ Call(t) \/ Step(t),
         frame[t].at = "create"
  PROVE  Create(t)
BY DEF Step, EarlyReturn, Refuse, Call, Invoke, NoFrame, In, Looping, Setter,
       Update, Lookup, setFireRule, setPermanent, setExclude, setDirectory,
       setFile, setCommitedCloseNumber, setStoreFileInMemory,
       setStoreFileInFileSystem, newFile, add, addEntry, remove,
       getCommitRule, getFireRule, isFirable, isExcluded, isStoredInMemory,
       getCommitCloseCount, getProducers, isPermanent, isFile, isDirectory,
       setCommitRule, addProducer, addConsumer, addFileDependency, isProducer,
       isConsumer, Snapshot, setAllStoreInMemory, setDirectoryFileCount,
       setFileDeps, getDirectoryFileCount, UnlockedFind, UnlockedEmplace,
       UnlockedCount, UnlockedStore, getConsumers, contains, size,
       getCommitOnFileDependencies, getPaths, getFileToStoreInMemory

(* The longest registered patterns for p, other than the empty one.        *)
LEMMA PatternsSeen ==
  ASSUME NEW p \in Path
  PROVE  LET M == {q \in Registered \ {EmptyPath} : <<q, p>> \in Matches}
         IN  LongestMatches(p) = {q \in M : \A r \in M : Length[r] <= Length[q]}
<1>1. \A q \in Path : Length[q] > 0 <=> q # EmptyPath
  BY ConstantsAssumption, LengthAssumption
<1>2. {q \in Registered : <<q, p>> \in Matches /\ Length[q] > 0}
        = {q \in Registered \ {EmptyPath} : <<q, p>> \in Matches}
  BY <1>1 DEF Registered
<1> QED
  BY <1>2 DEF LongestMatches

(* What governs a path that is not registered is what _newFile copies.     *)
LEMMA GoverningIsCopied ==
  ASSUME NEW p \in Path, p \notin Registered
  PROVE  Governing(p) =
           IF LongestMatches(p) = {} THEN {Semantics(DefaultEntry)}
           ELSE {Semantics(entries[q]) : q \in LongestMatches(p)}
BY PatternsSeen DEF Governing

(* The semantics of a draft are the ones that govern the path.             *)
LEMMA DraftIsGoverned ==
  ASSUME TypeOK, NEW p \in Path, p \notin Registered, NEW e \in Drafts(p)
  PROVE  Semantics(e) \in Governing(p)
<1>1. \A x \in Entry : Semantics([x EXCEPT !.store_in_memory =
                                    @ \/ store_all_in_memory]) = Semantics(x)
  BY DEF Semantics, Entry
<1>2. \A q \in LongestMatches(p) : entries[q] \in Entry
  BY DEF LongestMatches, Registered, TypeOK
<1>3. CASE LongestMatches(p) = {}
  <2>1. e = [DefaultEntry EXCEPT !.store_in_memory = @ \/ store_all_in_memory]
    BY <1>3 DEF Drafts
  <2> QED
    BY <1>1, <1>3, <2>1, DefaultEntryType, GoverningIsCopied
<1>4. CASE LongestMatches(p) # {}
  <2>1. PICK q \in LongestMatches(p) :
          e = [entries[q] EXCEPT !.store_in_memory = @ \/ store_all_in_memory]
    BY <1>4 DEF Drafts
  <2> QED
    BY <1>1, <1>2, <1>4, <2>1, GoverningIsCopied
<1> QED
  BY <1>3, <1>4

(* Registering a path that is no pattern for others leaves what governs    *)
(* every path as it is.                                                    *)
LEMMA NewFileKeepsGoverning ==
  ASSUME TypeOK, NEW p \in Path, entries' \in _newFile(p),
         \A q \in Path : <<p, q>> \in Matches => q = p,
         NEW q \in Path
  PROVE  Governing(q)' \subseteq Governing(q)
<1>1. CASE entries' = entries
  BY <1>1 DEF Governing, Registered
<1>2. CASE entries' # entries
  <2>1. /\ p # EmptyPath /\ p \notin Registered
        /\ entries' \in [Path -> Entry \cup {NoEntry}]
    BY <1>2, NewFileEffect
  <2>2. PICK e \in Drafts(p) : e \in Entry /\ entries'[p] \in {e, OneMoreChild(e)}
    BY <1>2, NewFileEffect
  <2>3. entries'[p] \in Entry /\ Semantics(entries'[p]) = Semantics(e)
    BY <2>2, OneMoreChildFacts, OneMoreChildType
  <2>4. \A r \in Registered :
          entries'[r] \in Entry /\ Semantics(entries'[r]) = Semantics(entries[r])
    <3> SUFFICES ASSUME NEW r \in Registered
                 PROVE  /\ entries'[r] \in Entry
                        /\ Semantics(entries'[r]) = Semantics(entries[r])
      OBVIOUS
    <3>1. r \in Path \ {p} /\ entries[r] \in Entry
      BY <2>1 DEF Registered, TypeOK
    <3>2. entries'[r] \in {entries[r], OneMoreChild(entries[r])}
      BY <1>2, <3>1, NewFileEffect
    <3> QED
      BY <3>1, <3>2, OneMoreChildFacts, OneMoreChildType
  <2>5. Registered' = Registered \cup {p}
    <3>1. \A r \in Path \ {p} : r \notin Registered => entries'[r] = NoEntry
      BY <1>2, NewFileEffect DEF Counting, Registered
    <3> QED
      BY <2>3, <2>4, <3>1, ConstantsAssumption DEF Registered
  <2>6. CASE q = p
    <3>1. Governing(q)' = {Semantics(entries'[p])}
      BY <2>5, <2>6 DEF Governing
    <3> QED
      BY <2>1, <2>2, <2>3, <2>6, <3>1, DraftIsGoverned
  <2>7. CASE q # p /\ q \in Registered
    BY <2>4, <2>5, <2>7 DEF Governing
  <2>8. CASE q # p /\ q \notin Registered
    <3> DEFINE M == {r \in Registered \ {EmptyPath} : <<r, q>> \in Matches}
               N == {r \in Registered' \ {EmptyPath} : <<r, q>> \in Matches}
               L == {r \in M : \A s \in M : Length[s] <= Length[r]}
    <3>1. N = M
      BY <2>5, <2>8
    <3>2. Governing(q)' = IF L = {} THEN {Semantics(DefaultEntry)}
                          ELSE {Semantics(entries'[r]) : r \in L}
      BY <2>5, <2>8, <3>1 DEF Governing
    <3>3. Governing(q) = IF L = {} THEN {Semantics(DefaultEntry)}
                         ELSE {Semantics(entries[r]) : r \in L}
      BY <2>8 DEF Governing
    <3> QED
      BY <2>4, <3>2, <3>3
  <2> QED
    BY <2>6, <2>7, <2>8
<1> QED
  BY <1>1, <1>2

(* A create section of a path that is no pattern changes no semantics.     *)
LEMMA CreatesQuietlyStep == TypeOK /\ Next => CreatesQuietly
<1> SUFFICES ASSUME TypeOK, NEW t \in Threads,
                    EarlyReturn(t) \/ Call(t) \/ Step(t), NEW u \in Threads,
                    frame[u].at = "create", frame'[u] # frame[u],
                    \A q \in Path : <<frame[u].path, q>> \in Matches =>
                                      q = frame[u].path,
                    NEW q \in Path
             PROVE  Governing(q)' \subseteq Governing(q)
  BY DEF Next, CreatesQuietly
<1>1. u = t
  BY OthersStay
<1>2. Create(t)
  BY <1>1, OnlyCreate
<1>3. frame[t].path \in Path
  BY <1>1, FrameFacts
<1> QED
  BY <1>1, <1>2, <1>3, NewFileKeepsGoverning DEF Create

(* Looking a path up is harmless: the section in which a query registers a *)
(* path it has not found, when that path is no pattern for others, changes *)
(* the semantics of no path, registered or not, whatever has happened to   *)
(* the table since the query looked.                                       *)
THEOREM LookupsAreHarmless == Spec => LookupsPreserveSemantics
<1>1. TypeOK /\ [Next]_vars => [CreatesQuietly]_vars
  BY CreatesQuietlyStep
<1> QED
  BY <1>1, TypeCorrect, PTL DEF Spec, LookupsPreserveSemantics

=============================================================================
