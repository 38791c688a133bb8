---------------------------- MODULE CommitMonitor ----------------------------
(***************************************************************************)
(* The commit state of files as the instances of CAPIO-CL on several nodes *)
(* see it (src/Monitor.cpp with its two backends, src/monitors/Multicast   *)
(* .cpp and src/monitors/FileSystem.cpp).  Every instance has one thread   *)
(* that calls setCommitted and isCommitted, and the multicast backend's    *)
(* listener thread.  Datagrams get lost, and are read late and in any      *)
(* order; instances stop, crash and are started again; the shared file     *)
(* system with its token files survives.                                   *)
(***************************************************************************)
EXTENDS Integers, Sequences, FiniteSets

CONSTANTS
  Node,        (* nodes; each runs one instance at a time                  *)
  Path,        (* spellings of file names, as the callers give them        *)
  Token,       (* the token file a spelling leads to                       *)
  Interfaces,  (* the backends registered with the Monitor, in order       *)
  Pollers,     (* nodes that stay up and ask until they are told "yes"     *)
  MaxCalls,    (* bound: calls made on all nodes, a poller's polls apart   *)
  MaxStarts,   (* bound: instances started, those of the pollers apart     *)
  SendFails,   (* TRUE: socket() may fail and throw                        *)
  DiskFails    (* TRUE: the shared file system may fail                    *)

ASSUME MonitorAssumption ==
  /\ Path # {} /\ Interfaces \in {<<"mcast">>, <<"mcast", "fs">>}
  /\ Pollers \subseteq Node /\ MaxCalls \in Nat /\ MaxStarts \in Nat
  /\ {SendFails, DiskFails} \subseteq BOOLEAN

VARIABLES
  phase,      (* of the node's instance: down, up, or in its destructor    *)
  listening,  (* its listener thread has joined the group and runs         *)
  committed,  (* its _committed_files                                      *)
  inbox,      (* datagrams in its listener's socket                        *)
  tokens,     (* commit token files that exist                             *)
  frame,      (* the call its user thread is in                            *)
  ret,        (* what its last call returned                               *)
  calls, starts,
  requested,  (* history: paths given to some setCommitted                 *)
  acked,      (* history: tokens of the setCommitted calls that returned   *)
              (* and whose file the disk has taken                         *)
  saw         (* history: paths the instance has reported as committed     *)

vars == <<phase, listening, committed, inbox, tokens, frame, ret, calls,
          starts, requested, acked, saw>>
local   == <<phase, listening, starts>>
history == <<requested, acked, saw>>

Datagram == [cmd : {"SET", "GET"}, path : Path]
NoCall == [op |-> "none", path |-> CHOOSE p \in Path : TRUE, i |-> 0,
           at |-> "idle", must |-> FALSE]
Frame == [op : {"none", "setCommitted", "isCommitted"}, path : Path,
          i : 0 .. Len(Interfaces),
          at : {"idle", "send", "add", "check", "create",
                "lookup", "ask", "again", "exists"},
          must : BOOLEAN]

Init ==
  /\ phase = [n \in Node |-> "down"] /\ listening = [n \in Node |-> FALSE]
  /\ committed = [n \in Node |-> {}] /\ inbox = [n \in Node |-> {}]
  /\ tokens = {} /\ frame = [n \in Node |-> NoCall]
  /\ ret = [n \in Node |-> "none"]
  /\ calls = 0 /\ starts = 0
  /\ requested = {} /\ acked = {} /\ saw = [n \in Node |-> {}]

-----------------------------------------------------------------------------
(* The instance.                                                           *)

(* The constructor only launches the listener thread.                      *)
Start(n) ==
  /\ phase[n] = "down"
  /\ \/ starts < MaxStarts /\ starts' = starts + 1
     \/ n \in Pollers /\ UNCHANGED starts
  /\ phase' = [phase EXCEPT ![n] = "up"]
  /\ UNCHANGED <<listening, committed, inbox, tokens, frame, ret, calls, history>>

(* incoming_socket_multicast: from now on datagrams reach the socket.      *)
Join(n) ==
  /\ phase[n] # "down" /\ ~ listening[n]
  /\ listening' = [listening EXCEPT ![n] = TRUE]
  /\ UNCHANGED <<phase, committed, inbox, tokens, frame, ret, calls, starts, history>>

(* The destructor sets terminate and waits for the listener.               *)
Stop(n) ==
  /\ phase[n] = "up" /\ frame[n] = NoCall /\ n \notin Pollers
  /\ phase' = [phase EXCEPT ![n] = "stopping"]
  /\ UNCHANGED <<listening, committed, inbox, tokens, frame, ret, calls, starts,
                 history>>

Gone(n) ==
  /\ phase' = [phase EXCEPT ![n] = "down"]
  /\ listening' = [listening EXCEPT ![n] = FALSE]
  /\ committed' = [committed EXCEPT ![n] = {}]
  /\ inbox' = [inbox EXCEPT ![n] = {}]
  /\ frame' = [frame EXCEPT ![n] = NoCall]
  /\ ret' = [ret EXCEPT ![n] = "none"]
  /\ saw' = [saw EXCEPT ![n] = {}]
  /\ UNCHANGED <<tokens, calls, starts, requested, acked>>

(* The process dies: killed, or by the exception of a _send_message in its *)
(* listener thread, where nobody catches it.                               *)
Crash(n) == phase[n] # "down" /\ n \notin Pollers /\ Gone(n)

-----------------------------------------------------------------------------
(* Datagrams: a message is put into the sockets of some of the instances   *)
(* that listen (the sender's own included: loopback is on).                *)

Listeners == {n \in Node : listening[n]}
_send_message(box, m) ==
  \E R \in SUBSET Listeners :
    inbox' = [n \in Node |-> IF n \in R THEN box[n] \cup {m} ELSE box[n]]

(* One turn of the listener's loop.  terminate is looked at only when poll *)
(* has found nothing to read.                                              *)
IdlePoll(n) ==
  /\ listening[n] /\ inbox[n] = {} /\ phase[n] = "stopping"
  /\ Gone(n)

(* Seeded faults for the checks: a listener that does not look at the      *)
(* command, and one that does not answer.                                  *)
ReadsAnyCommand(n, m) ==
  /\ listening[n] /\ m \in inbox[n] /\ inbox' = [inbox EXCEPT ![n] = @ \ {m}]
  /\ committed' = [committed EXCEPT ![n] = @ \cup {m.path}]
  /\ UNCHANGED <<local, tokens, frame, ret, calls, history>>
ReadsWithoutAnswer(n, m) ==
  /\ listening[n] /\ m \in inbox[n] /\ inbox' = [inbox EXCEPT ![n] = @ \ {m}]
  /\ committed' = IF m.cmd = "GET" THEN committed
                  ELSE [committed EXCEPT ![n] = @ \cup {m.path}]
  /\ UNCHANGED <<local, tokens, frame, ret, calls, history>>

Reads(n, m) ==
  LET rest == [inbox EXCEPT ![n] = @ \ {m}]
  IN  /\ listening[n] /\ m \in inbox[n]
      /\ \/ /\ m.cmd = "SET" /\ inbox' = rest
            /\ committed' = [committed EXCEPT ![n] = @ \cup {m.path}]
         \/ /\ m.cmd = "GET" /\ m.path \notin committed[n]
            /\ inbox' = rest /\ UNCHANGED committed
         \/ /\ m.cmd = "GET" /\ m.path \in committed[n]
            /\ _send_message(rest, [cmd |-> "SET", path |-> m.path])
            /\ UNCHANGED committed
      /\ UNCHANGED <<local, tokens, frame, ret, calls, history>>

commit_listener(n) == \E m \in inbox[n] : Reads(n, m)

-----------------------------------------------------------------------------
(* The calls.  Monitor walks over the backends in order; setCommitted calls*)
(* every one, isCommitted (any_of) stops at the first that says yes.       *)

First(op, b) == IF op = "setCommitted" THEN IF b = "mcast" THEN "send" ELSE "check"
                ELSE IF b = "mcast" THEN "lookup" ELSE "exists"

Call(n) ==
  \E op \in {"setCommitted", "isCommitted"}, p \in Path :
    /\ phase[n] = "up" /\ frame[n] = NoCall
    /\ \/ calls < MaxCalls /\ calls' = calls + 1
       \/ /\ n \in Pollers /\ op = "isCommitted" /\ p \notin saw[n]
          /\ UNCHANGED calls
    /\ frame' = [frame EXCEPT ![n] =
         [op |-> op, path |-> p, i |-> 1, at |-> First(op, Interfaces[1]),
          must |-> op = "isCommitted" /\ (Token[p] \in acked \/ p \in saw[n])]]
    /\ ret' = [ret EXCEPT ![n] = "none"]
    /\ requested' = IF op = "setCommitted" THEN requested \cup {p} ELSE requested
    /\ UNCHANGED <<local, committed, inbox, tokens, acked, saw>>

(* The call ends with v.                                                   *)
Return(n, v) == /\ frame' = [frame EXCEPT ![n] = NoCall]
                /\ ret' = [ret EXCEPT ![n] = v]

(* The token file of a path is named after its absolute form.  Seeded      *)
(* fault: it is named after the path as given.                             *)
TokenNamedAsGiven(p) == p
compute_capiocl_token_name(p) == Token[p]

(* On to the next backend, or to the end of the walk.                      *)
NextBackend(n) ==
  IF frame[n].i < Len(Interfaces)
  THEN /\ frame' = [frame EXCEPT ![n] =
            [frame[n] EXCEPT !.i = frame[n].i + 1,
               !.at = First(frame[n].op, Interfaces[frame[n].i + 1])]]
       /\ UNCHANGED <<ret, history>>
  ELSE IF frame[n].op = "setCommitted"
  THEN /\ Return(n, "done")
       /\ acked' = IF compute_capiocl_token_name(frame[n].path) \in tokens'
                   THEN acked \cup {Token[frame[n].path]} ELSE acked
       /\ UNCHANGED <<requested, saw>>
  ELSE Return(n, "no") /\ UNCHANGED history

Yes(n) == /\ Return(n, "yes")
          /\ saw' = [saw EXCEPT ![n] = @ \cup {frame[n].path}]
          /\ UNCHANGED <<requested, acked>>

Goto(n, l) == /\ frame' = [frame EXCEPT ![n].at = l]
              /\ UNCHANGED <<ret, history>>

(* MulticastMonitor::setCommitted: send, then record under the lock.       *)
McastSet(n) ==
  /\ UNCHANGED <<local, tokens, calls>>
  /\ \/ /\ frame[n].at = "send" /\ Goto(n, "add")
        /\ _send_message(inbox, [cmd |-> "SET", path |-> frame[n].path])
        /\ UNCHANGED committed
     \/ /\ frame[n].at = "add" /\ NextBackend(n)
        /\ committed' = [committed EXCEPT ![n] = @ \cup {frame[n].path}]
        /\ UNCHANGED inbox

(* MulticastMonitor::isCommitted: look, ask, sleep, look again.            *)
McastIs(n) ==
  /\ UNCHANGED <<local, committed, tokens, calls>>
  /\ \/ /\ frame[n].at = "lookup" /\ UNCHANGED inbox
        /\ IF frame[n].path \in committed[n] THEN Yes(n) ELSE Goto(n, "ask")
     \/ /\ frame[n].at = "ask" /\ Goto(n, "again")
        /\ _send_message(inbox, [cmd |-> "GET", path |-> frame[n].path])
     \/ /\ frame[n].at = "again" /\ UNCHANGED inbox
        /\ IF frame[n].path \in committed[n] THEN Yes(n) ELSE NextBackend(n)

(* socket() fails in _send_message, or the file system refuses a lookup or *)
(* create_directories: the exception ends the whole call, the backends     *)
(* behind this one included.                                               *)
Throws(n) ==
  /\ \/ SendFails /\ frame[n].at \in {"send", "ask"}
     \/ DiskFails /\ frame[n].at \in {"check", "create", "exists"}
  /\ Return(n, "throws")
  /\ UNCHANGED <<local, committed, inbox, tokens, calls, history>>

(* FileSystemMonitor: the token is looked for, then created.  An ofstream  *)
(* that does not open is not noticed.                                      *)
FsSet(n) ==
  LET token == compute_capiocl_token_name(frame[n].path)
  IN  /\ UNCHANGED <<local, committed, inbox, calls>>
      /\ \/ /\ frame[n].at = "check" /\ UNCHANGED tokens
            /\ IF token \in tokens THEN NextBackend(n) ELSE Goto(n, "create")
         \/ /\ frame[n].at = "create"
            /\ \/ tokens' = tokens \cup {token}
               \/ DiskFails /\ UNCHANGED tokens
            /\ NextBackend(n)

FsIs(n) ==
  /\ frame[n].at = "exists" /\ UNCHANGED <<local, committed, inbox, tokens, calls>>
  /\ IF compute_capiocl_token_name(frame[n].path) \in tokens
     THEN Yes(n) ELSE NextBackend(n)

-----------------------------------------------------------------------------
CallStep(n) == McastSet(n) \/ McastIs(n) \/ FsSet(n) \/ FsIs(n) \/ Throws(n)

Next ==
  \E n \in Node :
    \/ Start(n) \/ Join(n) \/ Stop(n) \/ Crash(n) \/ IdlePoll(n)
    \/ commit_listener(n) \/ Call(n) \/ CallStep(n)

(* The two threads of an instance run on, and a socket hands every datagram*)
(* it holds to the listener (it is a queue); nobody has to start, stop,    *)
(* crash or call.                                                          *)
Fairness == \A n \in Node : /\ WF_vars(Join(n))
                            /\ WF_vars(commit_listener(n) \/ IdlePoll(n))
                            /\ \A m \in Datagram : WF_vars(Reads(n, m))
                            /\ WF_vars(CallStep(n))
Spec == Init /\ [][Next]_vars /\ Fairness

(* A network that loses some datagrams but not all: of the questions that  *)
(* a node keeps asking, and of the answers another keeps giving, one gets  *)
(* through.  The polling loop of the caller goes on until it is told yes.  *)
Asks(n, m)    == frame[n].at = "ask" /\ McastIs(n)
                   /\ [cmd |-> "GET", path |-> frame[n].path] \in inbox'[m]
Answers(m, n) == \E p \in committed[m] :
                   /\ Reads(m, [cmd |-> "GET", path |-> p])
                   /\ [cmd |-> "SET", path |-> p] \in inbox'[n]
Polls(n) == Call(n) /\ frame'[n].op = "isCommitted"
PollingSpec ==
  /\ Init /\ [][Next]_vars /\ Fairness
  /\ \A n \in Node : /\ WF_vars(Start(n)) /\ WF_vars(Polls(n))
                     /\ \A m \in Node : /\ SF_vars(Asks(n, m))
                                        /\ SF_vars(Answers(m, n))

-----------------------------------------------------------------------------
(* Every variable has its type.                                            *)
TypeOK ==
  /\ phase \in [Node -> {"down", "up", "stopping"}]
  /\ listening \in [Node -> BOOLEAN]
  /\ committed \in [Node -> SUBSET Path] /\ inbox \in [Node -> SUBSET Datagram]
  /\ tokens \subseteq {Token[p] : p \in Path}
  /\ frame \in [Node -> Frame]
  /\ ret \in [Node -> {"none", "done", "yes", "no", "throws"}]
  /\ calls \in 0 .. MaxCalls /\ starts \in 0 .. MaxStarts
  /\ requested \subseteq Path /\ acked \subseteq {Token[p] : p \in Path}
  /\ saw \in [Node -> SUBSET Path]

(* Nobody learns of a commit that was not asked for: what an instance has  *)
(* recorded, what travels as an announcement and what a token stands for   *)
(* all go back to a setCommitted, and so does every answer "yes".          *)
NoSpuriousCommit ==
  /\ tokens \subseteq {Token[p] : p \in requested}
  /\ \A n \in Node :
       /\ committed[n] \subseteq requested
       /\ \A m \in inbox[n] : m.cmd = "SET" => m.path \in requested
       /\ \A p \in saw[n] : \E q \in requested : Token[q] = Token[p]

(* A commit, once setCommitted has returned and the disk has taken its     *)
(* token, is seen by every call that begins later on any node, under any   *)
(* spelling of the name, whatever datagrams were lost and even if the      *)
(* committing instance is gone; and an instance that has said "yes" never  *)
(* takes it back.                                                          *)
CommitIsForGood ==
  [][\A n \in Node : frame[n].must /\ frame[n] # frame'[n] => ret'[n] # "no"]_vars

(* To its callers this is the register of CommitRegister: a call is what   *)
(* the frame says of it, and a commit is durable once it is acked.         *)
CallOf(f) == [op |-> f.op, path |-> f.path, must |-> f.must]
Register == INSTANCE CommitRegister
              WITH Idle <- CallOf(NoCall), durable <- acked,
                   pending <- [n \in Node |-> CallOf(frame[n])]

(* Every step of the instances, the network and the disk is a step of that *)
(* register, or none: walking over the backends, asking, answering, losing *)
(* datagrams and leaving tokens behind never shows as anything but a call  *)
(* that ends the way the register allows.                                  *)
RegisterSpec == Register!Spec

(* A file that an instance has recorded, and that stays up, becomes known  *)
(* to every instance that keeps asking, though any datagram may be lost    *)
(* and answers may come after the asker has stopped waiting for them.      *)
CommitIsLearned ==
  \A m \in Node, n \in Pollers, p \in Path :
    p \in committed[m] ~> p \in saw[n] \/ phase[m] = "down"

(* capiocl/monitor.h on ~MulticastMonitor: "Destructor; stops listener     *)
(* thread and cleans resources."  It does not wait for ever.               *)
DestructorReturns ==
  \A n \in Node : phase[n] = "stopping" ~> phase[n] # "stopping"

=============================================================================
