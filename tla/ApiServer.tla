----------------------------- MODULE ApiServer -----------------------------
(***************************************************************************)
(* The server through which a running Engine is reconfigured (src/api.cpp):*)
(* a thread that receives datagrams from a multicast group and adds the    *)
(* entries they carry to its engine, on top of Engine.  The main thread    *)
(* starts it, may start it again (which replaces the old server by a new   *)
(* one), destroys it with the engine, and meanwhile uses the engine.       *)
(* Datagrams may be lost, reordered and duplicated; the socket's set-up may*)
(* fail, which nobody is told.                                             *)
(***************************************************************************)
EXTENDS Engine

CONSTANTS
  Main,       (* the thread that owns the engine                           *)
  Uses,       (* the calls it makes                                        *)
  Server,     (* servers it may start: each one is a thread of its own     *)
  Datagram,   (* [json, path, workflow, entry], parsed; json = FALSE where *)
              (* a parse throws, NoText where a member is missing; entry   *)
              (* has the members of CapioCLEntry that were sent            *)
  NoText,     (* the default "" of get_value_or                            *)
  NoServer,   (* webapi_server is empty                                    *)
  Workflow,   (* names the engine's workflow is given, in this order       *)
  MaxUses,    (* bound: calls Main makes                                   *)
  MaxQueued,  (* bound: datagrams a socket holds; it drops the others      *)
  MaxApplied  (* bound: entries added by all servers                       *)

VARIABLES
  boot,          (* where Main is in the constructor or destructor         *)
  current, next, (* webapi_server, and the one being constructed           *)
  serve,         (* where each server's thread is                          *)
  terminate,     (* _terminate of each server                              *)
  thread_ready,  (* the global flag the constructors wait for              *)
  socket,        (* datagrams in each server's socket                      *)
  deaf,          (* servers that cannot receive: their set-up failed       *)
  named,         (* names so far; the last one is workflow_name            *)
  naming,        (* a setWorkflowName is writing the string                *)
  applied        (* history: what the servers have added, in order         *)

engine == vars
control == <<boot, current, next, serve, terminate, thread_ready, deaf>>
server  == <<control, socket, named, naming, applied>>

ASSUME ApiAssumption ==
  /\ Threads = Server \cup {Main} /\ Main \notin Server
  /\ NoServer \notin Server /\ {MaxUses, MaxQueued, MaxApplied} \subseteq Nat
  /\ Workflow # <<>> /\ Workflow \in Seq(Range(Workflow))
  /\ \A d \in Datagram :
       d.entry # NoText => DOMAIN d.entry \subseteq DOMAIN DefaultEntry

SInit ==
  /\ Init /\ boot = "idle" /\ current = NoServer /\ next = NoServer
  /\ serve = [s \in Server |-> "none"]
  /\ terminate = [s \in Server |-> FALSE] /\ thread_ready = FALSE
  /\ socket = [s \in Server |-> {}] /\ deaf = {}
  /\ named = <<Workflow[1]>> /\ naming = FALSE /\ applied = <<>>

-----------------------------------------------------------------------------
(* The constructor, run by Main.  The predicate is tested with _setupMtx   *)
(* held, but the server does not take that mutex: it may set the flag and  *)
(* notify after the test ("gap") and before Main waits ("wait").           *)

Boot(from, to) == boot = from /\ boot' = to

startApiServer ==
  /\ frame[Main] = NoFrame /\ ~ naming /\ Boot("idle", "test")
  /\ \E s \in Server : /\ serve[s] = "none" /\ next' = s
                       /\ serve' = [serve EXCEPT ![s] = "setup"]
  /\ UNCHANGED <<engine, current, terminate, thread_ready, socket, deaf,
                 named, naming, applied>>

(* Seeded fault: nobody waits for the server.                              *)
TestReadyAlways ==
  /\ Boot("test", "swap")
  /\ UNCHANGED <<engine, current, next, serve, terminate, thread_ready,
                 socket, deaf, named, naming, applied>>

TestReady ==
  /\ Boot("test", IF thread_ready THEN "swap" ELSE "gap")
  /\ UNCHANGED <<engine, current, next, serve, terminate, thread_ready,
                 socket, deaf, named, naming, applied>>

Wait ==
  /\ Boot("gap", "wait")
  /\ UNCHANGED <<engine, current, next, serve, terminate, thread_ready,
                 socket, deaf, named, naming, applied>>

SpuriousWakeup ==
  /\ Boot("wait", "test")
  /\ UNCHANGED <<engine, current, next, serve, terminate, thread_ready,
                 socket, deaf, named, naming, applied>>

(* make_unique is done: the new server replaces the old one, whose         *)
(* destructor sets its flag and joins its thread.                          *)
Swap ==
  /\ Boot("swap", IF current = NoServer THEN "idle" ELSE "join")
  /\ current' = next /\ next' = current
  /\ terminate' = IF current = NoServer THEN terminate
                  ELSE [terminate EXCEPT ![current] = TRUE]
  /\ UNCHANGED <<engine, serve, thread_ready, socket, deaf, named, naming,
                 applied>>

(* ~Engine destroys the members in reverse order: first the table, whose   *)
(* values mean nothing from now on, ...                                    *)
Destroy ==
  /\ frame[Main] = NoFrame /\ ~ naming /\ current # NoServer
  /\ Boot("idle", "destroyed")
  /\ UNCHANGED <<engine, current, next, serve, terminate, thread_ready, socket,
                 deaf, named, naming, applied>>

(* ... then webapi_server, whose destructor sets the flag and joins.       *)
StopServer ==
  /\ Boot("destroyed", "close")
  /\ next' = current /\ current' = NoServer
  /\ terminate' = [terminate EXCEPT ![current] = TRUE]
  /\ UNCHANGED <<engine, serve, thread_ready, socket, deaf, named, naming,
                 applied>>

Joined ==
  /\ boot \in {"join", "close"} /\ serve[next] = "exited"
  /\ boot' = IF boot = "join" THEN "idle" ELSE "gone"
  /\ next' = NoServer
  /\ UNCHANGED <<engine, current, serve, terminate, thread_ready, socket,
                 deaf, named, naming, applied>>

-----------------------------------------------------------------------------
(* The server's thread.                                                    *)

Serve(s, from, to) == serve[s] = from /\ serve' = [serve EXCEPT ![s] = to]

(* Socket, bind and group membership.  Nobody looks at their results: the  *)
(* server goes on in the same way whether or not it will receive.          *)
SetUp(s) ==
  /\ Serve(s, "setup", "ready") /\ deaf' \in {deaf, deaf \cup {s}}
  /\ UNCHANGED <<engine, boot, current, next, terminate, thread_ready, socket,
                 named, naming, applied>>

SetReady(s) ==
  /\ Serve(s, "ready", "notify") /\ thread_ready' = TRUE
  /\ UNCHANGED <<engine, boot, current, next, terminate, socket, deaf, named,
                 naming, applied>>

(* notify_all wakes whoever waits now.                                     *)
Notify(s) ==
  /\ Serve(s, "notify", "loop")
  /\ boot' = IF boot = "wait" THEN "test" ELSE boot
  /\ UNCHANGED <<engine, current, next, terminate, thread_ready, socket, deaf,
                 named, naming, applied>>

Listening ==
  {s \in Server \ deaf : serve[s] \in {"ready", "notify", "loop", "recv", "add"}}

(* The members the server asks for are there.                              *)
Complete(d) == /\ d.json /\ d.path # EmptyPath /\ d.workflow # NoText
               /\ d.entry # NoText

(* Entries added, being added or waiting to be: what MaxApplied bounds.    *)
Load == Len(applied) + Cardinality({s \in Server : serve[s] = "add"})
          + Cardinality({x \in Server \X Datagram :
                           x[2] \in socket[x[1]] /\ Complete(x[2])})

(* A client sends d: some of the sockets with room get it.  (A second Send *)
(* of the same datagram is a duplicate or a retry.)                        *)
Send(d) ==
  /\ \E R \in SUBSET {s \in Listening : Cardinality(socket[s]) < MaxQueued} :
       /\ R # {} /\ Complete(d) => Load + Cardinality(R) <= MaxApplied
       /\ socket' = [s \in Server |-> IF s \in R THEN socket[s] \cup {d}
                                      ELSE socket[s]]
  /\ UNCHANGED <<engine, control, named, naming, applied>>

(* Seeded fault: the workflow's name is not compared.                      *)
MatchesAnyWorkflow(d) == {TRUE}

(* The comparison with workflow_name, which is read without the lock:      *)
(* while it is being written either name may be seen, or neither.          *)
ForThisWorkflow(d) ==
  IF naming THEN IF d.workflow \in {named[Len(named) - 1], named[Len(named)]}
                 THEN BOOLEAN ELSE {FALSE}
  ELSE {d.workflow = named[Len(named)]}

(* Members that are not there keep the value they have by default.         *)
fromJson(j) == [k \in DOMAIN DefaultEntry |->
                  IF k \in DOMAIN j THEN j[k] ELSE DefaultEntry[k]]

AddCall(d) == [api |-> "addEntry", path |-> d.path, arg |-> fromJson(d.entry)]

(* The engine is called by Main and by the servers.                        *)
ASSUME UsesAssumption ==
  Uses \cup {AddCall(d) : d \in {x \in Datagram : Complete(x)}} = Calls

(* The loop's test.  Seeded fault: the flag counts only while nothing is   *)
(* waiting to be received.                                                 *)
LoopTestWhenQuiet(s) ==
  /\ Serve(s, "loop", IF terminate[s] /\ socket[s] = {} THEN "exited" ELSE "recv")
  /\ UNCHANGED <<engine, boot, current, next, terminate, thread_ready, socket,
                 deaf, named, naming, applied>>
LoopTest(s) ==
  /\ Serve(s, "loop", IF terminate[s] THEN "exited" ELSE "recv")
  /\ UNCHANGED <<engine, boot, current, next, terminate, thread_ready, socket,
                 deaf, named, naming, applied>>

(* recvfrom comes back without data after its timeout.                     *)
Timeout(s) ==
  /\ socket[s] = {} /\ Serve(s, "recv", "loop")
  /\ UNCHANGED <<engine, boot, current, next, terminate, thread_ready, socket,
                 deaf, named, naming, applied>>

(* A datagram: dropped, or handed to Engine::add.                          *)
Receive(s) ==
  /\ serve[s] = "recv"
  /\ \E d \in socket[s] :
       /\ socket' = [socket EXCEPT ![s] = @ \ {d}]
       /\ \/ /\ ~ Complete(d) \/ FALSE \in ForThisWorkflow(d)
             /\ Serve(s, "recv", "loop") /\ UNCHANGED engine
          \/ /\ Complete(d) /\ TRUE \in ForThisWorkflow(d)
             /\ Invoke(s, AddCall(d)) /\ Serve(s, "recv", "add")
  /\ UNCHANGED <<boot, current, next, terminate, thread_ready, deaf, named,
                 naming, applied>>

(* Engine::add runs, and the loop goes on.                                 *)
Adding(s) ==
  /\ Step(s) /\ Serve(s, "add", "loop")
  /\ applied' = Append(applied, [path |-> frame[s].path, entry |-> frame[s].arg])
  /\ UNCHANGED <<boot, current, next, terminate, thread_ready, socket, deaf,
                 named, naming>>

(* In Engine::add on the destroyed table anything may happen: it goes on as*)
(* on a live one (Adding), or crashes or never comes back.                 *)
Lost(s) ==
  /\ boot \in {"destroyed", "close"} /\ Serve(s, "add", "lost")
  /\ UNCHANGED <<engine, boot, current, next, terminate, thread_ready, socket,
                 deaf, named, naming, applied>>

-----------------------------------------------------------------------------
(* Main between its starts of servers: calls of the engine, and            *)
(* setWorkflowName, whose assignment under the lock the server's reads do  *)
(* not see as one step.                                                    *)

Use == /\ boot = "idle" /\ ~ naming /\ calls[Main] < MaxUses
       /\ \E c \in Uses : Invoke(Main, c)
       /\ UNCHANGED server
UseStep == Step(Main) /\ UNCHANGED server

setWorkflowName ==
  /\ boot = "idle" /\ frame[Main] = NoFrame /\ ~ naming
  /\ Len(named) < Len(Workflow)
  /\ named' = Append(named, Workflow[Len(named) + 1]) /\ naming' = TRUE
  /\ UNCHANGED <<engine, control, socket, applied>>
Renamed ==
  /\ naming /\ naming' = FALSE
  /\ UNCHANGED <<engine, control, socket, named, applied>>

ServerStep(s) == \/ SetUp(s) \/ SetReady(s) \/ Notify(s) \/ LoopTest(s)
                 \/ Timeout(s) \/ Receive(s) \/ Adding(s)
MainStep == \/ TestReady \/ Wait \/ Swap \/ StopServer \/ Joined
            \/ UseStep \/ Renamed

SNext ==
  \/ startApiServer \/ SpuriousWakeup \/ Destroy \/ Use \/ setWorkflowName
  \/ MainStep
  \/ \E s \in Server : ServerStep(s) \/ Lost(s)
  \/ \E d \in Datagram : Send(d)

(* Threads run on; nobody has to send, start, stop or call, and no wakeup  *)
(* comes without a notification.                                           *)
SFairness == /\ WF_<<engine, server>>(MainStep)
             /\ \A s \in Server : WF_<<engine, server>>(ServerStep(s))
SSpec == SInit /\ [][SNext]_<<engine, server>> /\ SFairness

-----------------------------------------------------------------------------
(* Properties.                                                             *)

(* The calls that may reach the engine: Main's own, and those of complete  *)
(* datagrams for a workflow it has been.                                   *)
Ours == {d \in Datagram : Complete(d) /\ d.workflow \in Range(named)}
Authorised == Uses \cup {AddCall(d) : d \in Ours}

(* The table lives.                                                        *)
Alive == boot \notin {"destroyed", "close", "gone"}

(* Sets of paths that inherit entries from each other only.                *)
Closed == {S \in SUBSET Path :
             \A p \in S, q \in Path : <<q, p>> \in Matches => q \in S}

(* Whatever an engine knows it was told by its own program or by datagrams *)
(* for a workflow it has been: every producer of a path was named by such a*)
(* call, for this path or for one it may have inherited the name from.     *)
OnlyItsWorkflow ==
  Alive =>
  \A S \in Closed : \A p \in Registered \cap S :
    \A a \in Range(entries[p].producers) :
      \E c \in Authorised : c.path \in S /\ a \in Credited(c)

Sum(s) == LET sum[i \in 0 .. Len(s)] ==
                IF i = 0 THEN 0 ELSE sum[i - 1] + s[i]
          IN  sum[Len(s)]

(* The entries added to p, and the sum of what n gives for them.           *)
AppliedTo(p) == {i \in DOMAIN applied : applied[i].path = p}
Total(p, n(_)) == Sum([i \in DOMAIN applied |->
                         IF applied[i].path = p THEN n(applied[i].entry) ELSE 0])

(* Paths that Main at most queries and registers, and that inherit from no *)
(* pattern; nor does it make a call that goes over the whole table or takes*)
(* a child of such a directory away.                                       *)
Queries == Getters \cup Lookups \cup Scans \cup {"newFile"}
Undisturbed(p) ==
  /\ p # EmptyPath
  /\ \A q \in Path : <<q, p>> \in Matches => q = p
  /\ \A c \in Uses :
       /\ c.path = p => c.api \in Queries
       /\ c.api \notin {"setAllStoreInMemory", "setDirectoryFileCount"}
       /\ c.api = "remove" => Parent[c.path] # p

(* What the entries received for a path add up to does not depend on their *)
(* order, on which server received them, or on when Main's own queries     *)
(* registered the path: counters are sums, flags are combined, lists hold  *)
(* everything received; only the two rules are those of the last one.      *)
(* Children registered in the path make it a directory and count too.      *)
MergedAsSum ==
  Alive =>
  \A p \in {q \in Path : Undisturbed(q)} :
    LET I == AppliedTo(p)
        all == {applied[i].entry : i \in I}
        e == entries[p]
    IN  I # {} =>
          /\ p \in Registered
          /\ e.commit_on_close_count = Total(p, LAMBDA f : f.commit_on_close_count)
          /\ Children(p) = {} =>
               /\ e.directory_children_count =
                    Total(p, LAMBDA f : f.directory_children_count)
               /\ e.is_file = (\A f \in all : f.is_file)
          /\ Len(e.producers) = Total(p, LAMBDA f : Len(f.producers))
          /\ Len(e.consumers) = Total(p, LAMBDA f : Len(f.consumers))
          /\ Len(e.file_dependencies) =
               Total(p, LAMBDA f : Len(f.file_dependencies))
          /\ Range(e.producers) = UNION {Range(f.producers) : f \in all}
          /\ Range(e.consumers) = UNION {Range(f.consumers) : f \in all}
          /\ Range(e.file_dependencies) =
               UNION {Range(f.file_dependencies) : f \in all}
          /\ e.enable_directory_count_update =
               (\A f \in all : f.enable_directory_count_update)
          /\ e.permanent = (\E f \in all : f.permanent)
          /\ e.excluded = (\E f \in all : f.excluded)
          /\ e.store_in_memory = (\E f \in all : f.store_in_memory)
          /\ \E i \in I : /\ \A j \in I : j <= i
                          /\ e.commit_rule = applied[i].entry.commit_rule
                          /\ e.fire_rule = applied[i].entry.fire_rule

(* When the first startApiServer has returned, its server is through with  *)
(* its set-up: it receives, or is deaf, which the caller cannot tell.      *)
FirstStartWaits ==
  \A s \in Server :
    /\ boot = "idle" /\ current = s
    /\ \A r \in Server \ {s} : serve[r] = "none"
    => s \in Listening \cup deaf

(* A server that is told to stop stops, and whoever waits for it goes on,  *)
(* however many datagrams keep coming in; but an engine's destruction gets *)
(* no further than a server lost in the table that was destroyed first.    *)
ServerStops ==
  /\ \A s \in Server : terminate[s] ~> serve[s] \in {"exited", "lost"}
  /\ boot = "join" ~> boot = "idle"
  /\ boot = "destroyed" ~> \/ boot = "gone"
                           \/ \E s \in Server : serve[s] = "lost"

(* tests/cpp/test_apis.hpp goes on after "engine.startApiServer();":       *)
(* the constructor does not wait for ever.                                 *)
StartReturns == boot = "test" ~> boot = "swap"

=============================================================================
