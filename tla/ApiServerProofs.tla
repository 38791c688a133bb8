--------------------------- MODULE ApiServerProofs ---------------------------
(***************************************************************************)
(* The API server: it uses the engine only as its methods allow, so what   *)
(* is proved of the engine holds while it runs; what the engine learns is  *)
(* its own program's or addressed to its workflow; and the first start     *)
(* returns with a server that receives.                                    *)
(***************************************************************************)
EXTENDS ApiServer, EngineStepProofs

everything == <<engine, server>>

-----------------------------------------------------------------------------
(* Starting and stopping.                                                  *)

(* The types the proofs need; while a name is being written there is an    *)
(* older one.                                                              *)
ServerTypes ==
  /\ socket \in [Server -> SUBSET Datagram]
  /\ serve \in [Server -> {"none", "setup", "ready", "notify", "loop", "recv",
                           "add", "exited", "lost"}]
  /\ terminate \in [Server -> BOOLEAN] /\ thread_ready \in BOOLEAN
  /\ {current, next} \subseteq Server \cup {NoServer}
  /\ named \in Seq(Range(Workflow)) /\ named # <<>> /\ naming \in BOOLEAN
  /\ naming => Len(named) > 1

(* Servers that have set the flag.                                         *)
HasNotified(s) ==
  serve[s] \in {"notify", "loop", "recv", "add", "exited", "lost"}

(* The server that is there has been started and not been told to stop, as *)
(* has the one under construction; and the flag the constructor waits for  *)
(* has been set by some server.                                            *)
BootInv ==
  /\ \A s \in Server : /\ serve[s] = "exited" => terminate[s]
                       /\ serve[s] = "none" => ~ terminate[s]
                       /\ serve[s] = "lost" => ~ Alive
  /\ current # NoServer =>
       serve[current] # "none" /\ ~ terminate[current] /\ thread_ready
  /\ boot \in {"test", "gap", "wait", "swap"} =>
       /\ next \in Server /\ next # current
       /\ serve[next] # "none" /\ ~ terminate[next]
  /\ boot = "swap" => thread_ready
  /\ thread_ready => \E s \in Server : HasNotified(s)

ServerInv == ServerTypes /\ BootInv

(* Nothing is started at the beginning.                                    *)
LEMMA ServerInvInit == SInit => ServerInv
<1> SUFFICES ASSUME SInit PROVE ServerInv
  OBVIOUS
<1>1. 1 \in DOMAIN Workflow /\ Workflow[1] \in Range(Workflow)
  <2>1. Workflow # <<>> /\ Workflow \in Seq(Range(Workflow))
    BY ApiAssumption
  <2> HIDE DEF Range
  <2> DEFINE S == Range(Workflow)
  <2> QED
    BY <2>1
<1>2. named \in Seq(Range(Workflow)) /\ named # <<>>
  BY <1>1 DEF SInit
<1> QED
  BY <1>2 DEF SInit, ServerInv, ServerTypes, BootInv

(* The steps of a server's thread keep this.                               *)
LEMMA ServerStepInv ==
  ASSUME ServerInv, NEW s \in Server, ServerStep(s)
  PROVE  ServerInv'
<1>1. ServerTypes /\ BootInv
  BY DEF ServerInv
<1>2. /\ UNCHANGED <<current, next, terminate, named, naming>>
      /\ serve[s] \notin {"none", "exited"}
  BY DEF ServerStep, SetUp, SetReady, Notify, LoopTest, Timeout, Receive, Adding,
         Serve
<1>3. PICK l \in {"ready", "notify", "loop", "recv", "add", "exited"} :
        /\ serve' = [serve EXCEPT ![s] = l]
        /\ l = "exited" => terminate[s]
        /\ HasNotified(s) \/ l = "ready" => thread_ready' = thread_ready
        /\ HasNotified(s) => l # "ready"
  <2> USE DEF Serve, HasNotified
  <2>1. CASE SetUp(s)
    BY <2>1 DEF SetUp
  <2>2. CASE SetReady(s)
    BY <2>2 DEF SetReady
  <2>3. CASE Notify(s)
    BY <2>3 DEF Notify
  <2>4. CASE LoopTest(s)
    BY <2>4 DEF LoopTest
  <2>5. CASE Timeout(s)
    BY <2>5 DEF Timeout
  <2>6. CASE Receive(s)
    BY <2>6 DEF Receive
  <2>7. CASE Adding(s)
    BY <2>7 DEF Adding
  <2> QED
    BY <2>1, <2>2, <2>3, <2>4, <2>5, <2>6, <2>7 DEF ServerStep
<1>4. /\ thread_ready' \in BOOLEAN /\ (thread_ready => thread_ready')
      /\ thread_ready' # thread_ready => l = "notify"
  <2>1. thread_ready \in BOOLEAN
    BY <1>1 DEF ServerTypes
  <2>2. CASE SetReady(s)
    <3>1. thread_ready' = TRUE /\ serve[s] = "ready" /\ serve' = [serve EXCEPT ![s] = "notify"]
      BY <2>2 DEF SetReady, Serve
    <3>2. l = "notify"
      BY <1>1, <1>3, <3>1 DEF ServerTypes
    <3> QED
      BY <3>1, <3>2
  <2>3. CASE ~ SetReady(s)
    <3>1. thread_ready' = thread_ready
      BY <2>3 DEF ServerStep, SetUp, Notify, LoopTest, Timeout, Receive, Adding
    <3> QED
      BY <2>1, <3>1
  <2> QED
    BY <2>2, <2>3
<1>5. /\ socket' \in [Server -> SUBSET Datagram]
      /\ boot' = boot \/ (boot = "wait" /\ boot' = "test")
  BY <1>1 DEF ServerStep, SetUp, SetReady, Notify, LoopTest, Timeout, Receive,
              Adding, ServerTypes
<1>6. ServerTypes'
  BY <1>1, <1>2, <1>3, <1>4, <1>5 DEF ServerTypes
<1>7. \A r \in Server : serve'[r] = IF r = s THEN l ELSE serve[r]
  BY <1>1, <1>3 DEF ServerTypes
<1>8. thread_ready' => \E r \in Server : HasNotified(r)'
  <2>1. CASE thread_ready' = thread_ready /\ thread_ready
    <3>1. PICK r \in Server : HasNotified(r)
      BY <1>1, <2>1 DEF BootInv
    <3>2. r # s => HasNotified(r)'
      BY <1>7, <3>1 DEF HasNotified
    <3>3. r = s => HasNotified(r)'
      BY <1>3, <1>7, <3>1 DEF HasNotified
    <3> QED
      BY <3>2, <3>3
  <2>2. CASE thread_ready' # thread_ready
    <3>1. HasNotified(s)'
      BY <1>4, <1>7, <2>2 DEF HasNotified
    <3> QED
      BY <3>1
  <2> QED
    BY <2>1, <2>2
<1>9. \A r \in Server : /\ serve'[r] = "exited" => terminate'[r]
                        /\ serve'[r] = "none" => ~ terminate'[r]
                        /\ serve'[r] = "lost" => ~ Alive'
  BY <1>1, <1>2, <1>3, <1>5, <1>7 DEF BootInv, Alive
<1>10. current' # NoServer =>
         serve'[current'] # "none" /\ ~ terminate'[current'] /\ thread_ready'
  BY <1>1, <1>2, <1>3, <1>4, <1>7 DEF BootInv, ServerTypes
<1>11. boot' \in {"test", "gap", "wait", "swap"} =>
         /\ next' \in Server /\ next' # current'
         /\ serve'[next'] # "none" /\ ~ terminate'[next']
  BY <1>1, <1>2, <1>3, <1>5, <1>7 DEF BootInv
<1>12. boot' = "swap" => thread_ready'
  BY <1>1, <1>4, <1>5 DEF BootInv
<1>13. BootInv'
  BY <1>8, <1>9, <1>10, <1>11, <1>12 DEF BootInv
<1> QED
  BY <1>6, <1>13 DEF ServerInv

(* Nothing changes for the servers.                                        *)
LEMMA ServerIdle ==
  ASSUME ServerInv, UNCHANGED <<control, socket>>, ServerTypes'
  PROVE  ServerInv'
<1>1. /\ boot' = boot /\ current' = current /\ next' = next /\ serve' = serve
      /\ terminate' = terminate /\ thread_ready' = thread_ready
  BY DEF control
<1> QED
  BY <1>1 DEF ServerInv, BootInv, HasNotified, Alive

(* Nor when a server is lost.                                              *)
LEMMA LostInv ==
  ASSUME ServerInv, NEW s \in Server, Lost(s)
  PROVE  ServerInv'
<1>1. ServerTypes /\ BootInv
  BY DEF ServerInv
<1>2. /\ UNCHANGED <<boot, current, next, terminate, thread_ready, socket, named,
                    naming>>
      /\ serve[s] = "add" /\ serve' = [serve EXCEPT ![s] = "lost"] /\ ~ Alive
  BY DEF Lost, Serve, Alive
<1>3. \A r \in Server : serve'[r] = IF r = s THEN "lost" ELSE serve[r]
  BY <1>1, <1>2 DEF ServerTypes
<1>4. ServerTypes'
  BY <1>1, <1>2 DEF ServerTypes
<1>5. \A r \in Server : /\ serve'[r] = "exited" => terminate'[r]
                        /\ serve'[r] = "none" => ~ terminate'[r]
                        /\ serve'[r] = "lost" => ~ Alive'
  BY <1>1, <1>2, <1>3 DEF BootInv, Alive
<1>6. \A r \in Server : HasNotified(r) => HasNotified(r)'
  BY <1>3 DEF HasNotified
<1>7. \A r \in Server : serve[r] # "none" => serve'[r] # "none"
  BY <1>3
<1> QED
  BY <1>1, <1>2, <1>4, <1>5, <1>6, <1>7 DEF ServerInv, BootInv, ServerTypes

(* The constructor and the destructors keep it too.                        *)
LEMMA BootStepInv ==
  ASSUME ServerInv,
         startApiServer \/ TestReady \/ Wait \/ SpuriousWakeup \/ Swap \/ Destroy
           \/ StopServer \/ Joined
  PROVE  ServerInv'
<1>1. ServerTypes /\ BootInv
  BY DEF ServerInv
<1>2. UNCHANGED <<thread_ready, socket, named, naming>>
  BY DEF startApiServer, TestReady, Wait, SpuriousWakeup, Swap, Destroy,
         StopServer, Joined
<1>3. NoServer \notin Server
  BY ApiAssumption
<1>4. CASE startApiServer
  <2>1. PICK s \in Server : /\ serve[s] = "none" /\ next' = s
                            /\ serve' = [serve EXCEPT ![s] = "setup"]
    BY <1>4 DEF startApiServer
  <2>2. UNCHANGED <<current, terminate>> /\ boot' = "test"
    BY <1>4 DEF startApiServer, Boot
  <2>3. ServerTypes'
    BY <1>1, <1>2, <2>1, <2>2 DEF ServerTypes
  <2>4. \A r \in Server : serve'[r] = IF r = s THEN "setup" ELSE serve[r]
    BY <1>1, <2>1 DEF ServerTypes
  <2>5. thread_ready' => \E r \in Server : HasNotified(r)'
    BY <1>1, <1>2, <2>1, <2>4 DEF BootInv, HasNotified
  <2>6. current' # NoServer =>
          serve'[current'] # "none" /\ ~ terminate'[current'] /\ thread_ready'
    BY <1>1, <1>2, <2>2, <2>4 DEF BootInv, ServerTypes
  <2>7. \A r \in Server : /\ serve'[r] = "exited" => terminate'[r]
                          /\ serve'[r] = "none" => ~ terminate'[r]
    BY <1>1, <2>2, <2>4 DEF BootInv
  <2>8. \A r \in Server : serve'[r] # "lost"
    BY <1>1, <1>4, <2>4 DEF BootInv, Alive, startApiServer, Boot
  <2>9. /\ next' \in Server /\ next' # current'
        /\ serve'[next'] # "none" /\ ~ terminate'[next']
    BY <1>1, <1>3, <2>1, <2>2, <2>4 DEF BootInv
  <2> QED
    BY <2>2, <2>3, <2>5, <2>6, <2>7, <2>9, <2>8 DEF ServerInv, BootInv
<1>5. CASE TestReady \/ Wait \/ SpuriousWakeup
  <2>1. /\ UNCHANGED <<current, next, serve, terminate>>
        /\ boot \in {"test", "gap", "wait", "swap"}
        /\ boot' = "swap" => thread_ready
    BY <1>5 DEF TestReady, Wait, SpuriousWakeup, Boot
  <2>2. ServerTypes'
    BY <1>1, <1>2, <2>1 DEF ServerTypes
  <2> QED
    BY <1>1, <1>2, <2>1, <2>2 DEF ServerInv, BootInv, HasNotified, Alive
<1>6. CASE Swap
  <2>1. /\ boot = "swap" /\ boot' \in {"idle", "join"} /\ serve' = serve
        /\ current' = next /\ next' = current
        /\ terminate' = IF current = NoServer THEN terminate
                        ELSE [terminate EXCEPT ![current] = TRUE]
    BY <1>6 DEF Swap, Boot
  <2>2. /\ next \in Server /\ next # current /\ serve[next] # "none"
        /\ ~ terminate[next] /\ thread_ready
    BY <1>1, <2>1 DEF BootInv
  <2>3. terminate' \in [Server -> BOOLEAN]
    BY <1>1, <2>1 DEF ServerTypes
  <2>4. \A r \in Server : terminate'[r] = (terminate[r] \/ r = current)
    BY <1>1, <1>3, <2>1 DEF ServerTypes
  <2>5. ServerTypes'
    BY <1>1, <1>2, <2>1, <2>3 DEF ServerTypes
  <2>6. \A r \in Server : /\ serve'[r] = "exited" => terminate'[r]
                          /\ serve'[r] = "none" => ~ terminate'[r]
    BY <1>1, <1>3, <2>1, <2>4 DEF BootInv
  <2>7. \A r \in Server : serve'[r] # "lost"
    BY <1>1, <2>1 DEF BootInv, Alive
  <2>8. serve'[current'] # "none" /\ ~ terminate'[current'] /\ thread_ready'
    BY <1>2, <2>1, <2>2, <2>4
  <2>9. thread_ready' => \E r \in Server : HasNotified(r)'
    BY <1>1, <1>2, <2>1 DEF BootInv, HasNotified
  <2> QED
    BY <2>1, <2>5, <2>6, <2>8, <2>9, <2>7 DEF ServerInv, BootInv
<1>7. CASE Destroy
  <2>1. /\ UNCHANGED <<current, next, serve, terminate>>
        /\ boot = "idle" /\ boot' = "destroyed"
    BY <1>7 DEF Destroy, Boot
  <2>2. ServerTypes'
    BY <1>1, <1>2, <2>1 DEF ServerTypes
  <2> QED
    BY <1>1, <1>2, <2>1, <2>2 DEF ServerInv, BootInv, HasNotified, Alive
<1>8. CASE Joined
  <2>1. /\ UNCHANGED <<current, serve, terminate>> /\ next' = NoServer
        /\ boot' \in {"idle", "gone"}
    BY <1>8 DEF Joined
  <2>2. ServerTypes'
    BY <1>1, <1>2, <2>1 DEF ServerTypes
  <2>3. ~ Alive => boot' = "gone"
    BY <1>8 DEF Joined, Alive
  <2> QED
    BY <1>1, <1>2, <2>1, <2>2, <2>3 DEF ServerInv, BootInv, HasNotified, Alive
<1>9. CASE StopServer
  <2>1. /\ boot' = "close" /\ serve' = serve /\ next' = current
        /\ current' = NoServer
        /\ terminate' = [terminate EXCEPT ![current] = TRUE]
    BY <1>9 DEF StopServer, Boot
  <2>2. /\ terminate' \in [Server -> BOOLEAN]
        /\ \A r \in Server : terminate'[r] = (terminate[r] \/ r = current)
    BY <1>1, <1>3, <2>1 DEF ServerTypes
  <2>3. ServerTypes'
    BY <1>1, <1>2, <2>1, <2>2 DEF ServerTypes
  <2>4. \A r \in Server : /\ serve'[r] = "exited" => terminate'[r]
                          /\ serve'[r] = "none" => ~ terminate'[r]
                          /\ serve'[r] = "lost" => ~ Alive'
    BY <1>1, <1>3, <2>1, <2>2 DEF BootInv, Alive
  <2>5. thread_ready' => \E r \in Server : HasNotified(r)'
    BY <1>1, <1>2, <2>1 DEF BootInv, HasNotified
  <2> QED
    BY <2>1, <2>3, <2>4, <2>5 DEF ServerInv, BootInv
<1> QED
  BY <1>4, <1>5, <1>6, <1>7, <1>8, <1>9

(* Every step keeps it.                                                    *)
LEMMA ServerInvStep ==
  ASSUME ServerInv, [SNext]_everything
  PROVE  ServerInv'
<1>1. ServerTypes
  BY DEF ServerInv
<1>2. CASE UNCHANGED server
  <2>1. UNCHANGED <<control, socket, named, naming>>
    BY <1>2 DEF server
  <2>2. ServerTypes'
    BY <1>1, <2>1 DEF ServerTypes, control
  <2> QED
    BY <2>1, <2>2, ServerIdle
<1>3. CASE UNCHANGED everything \/ Use \/ UseStep
  BY <1>2, <1>3 DEF everything, Use, UseStep
<1>4. CASE setWorkflowName
  <2>1. /\ named' = Append(named, Workflow[Len(named) + 1]) /\ naming' = TRUE
        /\ Len(named) < Len(Workflow) /\ UNCHANGED <<control, socket>>
    BY <1>4 DEF setWorkflowName
  <2>2. Workflow[Len(named) + 1] \in Range(Workflow)
    <3> DEFINE S == Range(Workflow)
    <3>1. Workflow \in Seq(S) /\ named \in Seq(S)
      BY <1>1, ApiAssumption DEF ServerTypes
    <3> HIDE DEF S
    <3>2. Workflow[Len(named) + 1] \in S
      BY <2>1, <3>1
    <3> QED
      BY <3>2 DEF S
  <2>3. /\ named' \in Seq(Range(Workflow)) /\ named' # <<>> /\ Len(named') > 1
    <3> DEFINE S == Range(Workflow)
               x == Workflow[Len(named) + 1]
    <3>1. named \in Seq(S) /\ named # <<>> /\ x \in S /\ named' = Append(named, x)
      BY <1>1, <2>1, <2>2 DEF ServerTypes
    <3> HIDE DEF S, x
    <3>2. named' \in Seq(S) /\ named' # <<>> /\ Len(named') > 1
      BY <3>1
    <3> QED
      BY <3>2 DEF S
  <2>4. ServerTypes'
    BY <1>1, <2>1, <2>3 DEF ServerTypes, control
  <2> QED
    BY <2>1, <2>4, ServerIdle
<1>5. CASE Renamed
  <2>1. naming' = FALSE /\ UNCHANGED <<control, socket, named>>
    BY <1>5 DEF Renamed
  <2>2. ServerTypes'
    BY <1>1, <2>1 DEF ServerTypes, control
  <2> QED
    BY <2>1, <2>2, ServerIdle
<1>6. ASSUME NEW d \in Datagram, Send(d) PROVE ServerInv'
  <2>1. UNCHANGED <<control, named, naming>>
    BY <1>6 DEF Send
  <2>2. socket' \in [Server -> SUBSET Datagram]
    BY <1>1, <1>6 DEF Send, ServerTypes
  <2>3. /\ boot' = boot /\ current' = current /\ next' = next /\ serve' = serve
        /\ terminate' = terminate /\ thread_ready' = thread_ready
    BY <2>1 DEF control
  <2> QED
    BY <1>1, <2>1, <2>2, <2>3
    DEF ServerInv, BootInv, ServerTypes, HasNotified, Alive
<1> QED
  BY <1>3, <1>4, <1>5, <1>6, BootStepInv, ServerStepInv, LostInv DEF SNext, MainStep

(* ServerInv is an invariant.                                              *)
LEMMA ServerInvariant == SSpec => []ServerInv
<1>1. ServerInv /\ [SNext]_everything => ServerInv'
  BY ServerInvStep
<1> QED
  BY <1>1, ServerInvInit, PTL DEF SSpec, everything

(* When the first startApiServer has returned, its server is through with  *)
(* its set-up and receives unless that failed: the flag the constructor    *)
(* waited for can only have been set by this server, which is past its     *)
(* bind, and nobody has told it to stop.                                   *)
THEOREM TheFirstStartWaits == SSpec => []FirstStartWaits
<1>1. ServerInv => FirstStartWaits
  <2> SUFFICES ASSUME ServerInv, NEW s \in Server, boot = "idle", current = s,
                      \A r \in Server \ {s} : serve[r] = "none"
               PROVE  s \in Listening \cup deaf
    BY DEF FirstStartWaits
  <2>1. thread_ready /\ ~ terminate[s]
    BY ApiAssumption DEF ServerInv, BootInv
  <2>2. PICK r \in Server : HasNotified(r)
    BY <2>1 DEF ServerInv, BootInv
  <2>3. r = s
    BY <2>2 DEF HasNotified
  <2>4. serve[s] \notin {"exited", "lost"}
    BY <2>1 DEF ServerInv, BootInv, Alive
  <2> QED
    BY <2>2, <2>3, <2>4 DEF HasNotified, Listening
<1> QED
  BY <1>1, ServerInvariant, PTL

-----------------------------------------------------------------------------
(* The server is a user of the engine like any other.                      *)

(* A datagram that the server takes for its workflow's is addressed to a   *)
(* name the workflow has had, even while the name is being written.        *)
LEMMA TakenIsOurs ==
  ASSUME ServerInv, NEW d, TRUE \in ForThisWorkflow(d)
  PROVE  d.workflow \in Range(named)
<1> DEFINE n == Len(named)
<1>1. named \in Seq(Range(Workflow)) /\ named # <<>> /\ (naming => n > 1)
  BY DEF ServerInv, ServerTypes
<1>2. n \in DOMAIN named /\ (naming => n - 1 \in DOMAIN named)
  <2> DEFINE S == Range(Workflow)
  <2>1. named \in Seq(S)
    BY <1>1
  <2> HIDE DEF S
  <2> QED
    BY <1>1, <2>1
<1>3. d.workflow = named[n] \/ (naming /\ d.workflow = named[n - 1])
  BY DEF ForThisWorkflow
<1> HIDE DEF n
<1> QED
  BY <1>2, <1>3 DEF Range

(* A step of the server, of Main or of a client is a step of one thread in *)
(* the engine, begun with a call that may reach it, or the engine stands   *)
(* still.                                                                  *)
LEMMA EngineStep ==
  ASSUME ServerInv, [SNext]_everything
  PROVE  \/ UNCHANGED vars
         \/ \E t \in Threads : Step(t) \/ \E c \in Authorised : Invoke(t, c)
<1>1. Main \in Threads /\ Server \subseteq Threads
  BY ApiAssumption
<1>2. CASE UNCHANGED everything
  BY <1>2 DEF everything, engine
<1>3. CASE startApiServer \/ SpuriousWakeup \/ Destroy \/ setWorkflowName
  BY <1>3 DEF startApiServer, SpuriousWakeup, Destroy, setWorkflowName, engine
<1>4. CASE Use
  BY <1>1, <1>4 DEF Use, Authorised
<1>5. CASE MainStep
  BY <1>1, <1>5 DEF MainStep, TestReady, Wait, Swap, StopServer, Joined,
                    UseStep, Renamed, engine
<1>6. ASSUME NEW s \in Server, ServerStep(s)
      PROVE  UNCHANGED vars \/ Step(s) \/ \E c \in Authorised : Invoke(s, c)
  <2>1. CASE Receive(s)
    <3>1. \/ UNCHANGED vars
          \/ \E d \in socket[s] : /\ Complete(d) /\ TRUE \in ForThisWorkflow(d)
                                  /\ Invoke(s, AddCall(d))
      BY <2>1 DEF Receive, engine
    <3>2. socket[s] \subseteq Datagram
      BY DEF ServerInv, ServerTypes
    <3>3. \A d \in socket[s] : Complete(d) /\ TRUE \in ForThisWorkflow(d) =>
            AddCall(d) \in Authorised
      BY <3>2, TakenIsOurs DEF Authorised, Ours
    <3> QED
      BY <3>1, <3>3
  <2> QED
    BY <1>6, <2>1 DEF ServerStep, SetUp, SetReady, Notify, LoopTest, Timeout,
                      Adding, engine
<1>7. ASSUME NEW d \in Datagram, Send(d) PROVE UNCHANGED vars
  BY <1>7 DEF Send, engine
<1>8. ASSUME NEW s \in Server, Lost(s) PROVE UNCHANGED vars
  BY <1>8 DEF Lost, engine
<1> QED
  BY <1>1, <1>2, <1>3, <1>4, <1>5, <1>6, <1>7, <1>8 DEF SNext

(* The engine with its API server implements the engine alone: whatever    *)
(* servers are started, replaced and destroyed, and whatever datagrams     *)
(* arrive, every behaviour is one that threads calling the engine's methods*)
(* could have brought about.                                               *)
THEOREM ServerUsesEngine == SSpec => Init /\ [][Next]_vars
<1>1. SInit => Init
  BY DEF SInit
<1>2. ServerInv /\ [SNext]_everything => [Next]_vars
  <2>1. Authorised \subseteq Calls
    BY UsesAssumption DEF Authorised, Ours
  <2> QED
    BY <2>1, EngineStep DEF Next, Call
<1> QED
  BY <1>1, <1>2, ServerInvariant, PTL DEF SSpec, everything

(* So the types hold in the composed system.                               *)
LEMMA ServerTypeOK == SSpec => []TypeOK
BY ServerUsesEngine, TypeOKInit, TypeOKStep, PTL

(* And no application is lost, whichever servers and Main change entries at*)
(* the same time.                                                          *)
THEOREM ServerLosesNoRoles == SSpec => NoLostRoles
<1>1. TypeOK /\ [Next]_vars => [KeepsRoles]_vars
  BY KeepsRolesStep
<1> QED
  BY <1>1, ServerUsesEngine, ServerTypeOK, PTL DEF NoLostRoles

-----------------------------------------------------------------------------
(* Where producers come from.                                              *)

(* Every producer a path has after a step it had before, or it comes with  *)
(* the draft the path is registered with, or from the call that ends.      *)
LEMMA ProducersOrigin ==
  ASSUME TypeOK, NEW t \in Threads, TableStep(t), NEW p \in Path,
         entries'[p] # NoEntry, NEW a \in Range(entries'[p].producers)
  PROVE  \/ p \in Registered /\ a \in Range(entries[p].producers)
         \/ \E e \in Drafts(p) : a \in Range(e.producers)
         \/ p = frame[t].path /\ a \in Credited(frame[t])
         \/ /\ frame[t].at = "emplace" /\ p = frame[t].path
            /\ a \in Range(frame[t].draft.producers)
<1>1. entries \in [Path -> Entry \cup {NoEntry}] /\ NoEntry \notin Entry
  BY ConstantsAssumption DEF TypeOK
<1>2. CASE entries'[p] = entries[p]
  BY <1>2 DEF Registered
<1>3. ASSUME NEW q \in Path, NEW m \in _newFile(q), m[p] # NoEntry,
             a \in Range(m[p].producers)
      PROVE  \/ p \in Registered /\ a \in Range(entries[p].producers)
             \/ \E e \in Drafts(p) : a \in Range(e.producers)
  <2>1. CASE m = entries
    BY <1>3, <2>1 DEF Registered
  <2>2. CASE m # entries /\ p = q
    <3>1. PICK e \in Drafts(p) : e \in Entry /\ m[p] \in {e, OneMoreChild(e)}
      BY <1>3, <2>2, NewFileEffect
    <3>2. Range(OneMoreChild(e).producers) = Range(e.producers)
      BY <3>1, OneMoreChildFacts DEF Grows
    <3> QED
      BY <1>3, <3>1, <3>2
  <2>3. CASE m # entries /\ p # q
    <3>1. m[p] = IF Counting(entries, p) /\ p = Parent[q]
                 THEN OneMoreChild(entries[p]) ELSE entries[p]
      BY <1>3, <2>3, NewFileEffect
    <3>2. CASE m[p] = entries[p]
      BY <1>3, <3>2 DEF Registered
    <3>3. CASE Counting(entries, p) /\ m[p] = OneMoreChild(entries[p])
      <4>1. p \in Registered /\ entries[p] \in Entry
        BY <1>1, <3>3 DEF Counting, Registered
      <4>2. Range(OneMoreChild(entries[p]).producers) = Range(entries[p].producers)
        BY <4>1, OneMoreChildFacts DEF Grows
      <4> QED
        BY <1>3, <3>3, <4>1, <4>2
    <3> QED
      BY <3>1, <3>2, <3>3
  <2> QED
    BY <2>1, <2>2, <2>3
<1>4. CASE Registers
  BY <1>3, <1>4 DEF Registers
<1>5. ASSUME NEW q \in Path, NEW e, Credits(t, q, e),
             entries' = [entries EXCEPT ![q] = e]
      PROVE  \/ p \in Registered /\ a \in Range(entries[p].producers)
             \/ p = frame[t].path /\ a \in Credited(frame[t])
  <2>1. CASE p = q
    BY <1>1, <1>5, <2>1 DEF Credits
  <2>2. CASE p # q
    BY <1>1, <1>2, <1>5, <2>2 DEF Registered
  <2> QED
    BY <2>1, <2>2
<1>6. CASE Revises(t) \/ Merges(t)
  BY <1>5, <1>6 DEF Revises, Merges, Registered
<1>7. CASE Overwrites(t)
  <2>0. PICK q \in Path \ {EmptyPath}, e \in Entry :
          Credits(t, q, e) /\ \E m \in _newFile(q) : entries' = [m EXCEPT ![q] = e]
    BY <1>7 DEF Overwrites
  <2>1. PICK m \in _newFile(q) : entries' = [m EXCEPT ![q] = e]
    BY <2>0
  <2>2. m \in [Path -> Entry \cup {NoEntry}]
    BY NewFileType
  <2>3. CASE p = q
    BY <2>0, <2>1, <2>2, <2>3 DEF Credits
  <2>4. CASE p # q
    <3>1. entries'[p] = m[p]
      BY <2>1, <2>2, <2>4
    <3> QED
      BY <1>3, <3>1
  <2> QED
    BY <2>3, <2>4
<1>8. CASE Removes(t)
  BY <1>1, <1>2, <1>8 DEF Removes
<1>9. CASE Emplaces(t)
  BY <1>1, <1>2, <1>9 DEF Emplaces
<1> QED
  BY <1>2, <1>4, <1>6, <1>7, <1>8, <1>9 DEF TableStep

-----------------------------------------------------------------------------
(* Only calls that may reach the engine name producers.                    *)

(* Such a call has named application a for a path in S.                    *)
Sourced(S, a) == \E c \in Authorised : c.path \in S /\ a \in Credited(c)

(* Frame f is that of such a call.                                         *)
Permitted(f) ==
  \E c \in Authorised : c.api = f.api /\ c.path = f.path /\ c.arg = f.arg

(* Every producer in the table has such a source.                          *)
TableSourced ==
  \A S \in Closed : \A p \in Registered \cap S :
    \A a \in Range(entries[p].producers) : Sourced(S, a)

(* The invariant behind OnlyItsWorkflow: the calls in progress are such    *)
(* calls, and the draft that an unlocked _newFile is about to insert names *)
(* nobody else either.                                                     *)
OriginInv ==
  /\ \A t \in Threads : frame[t].at # "idle" => Permitted(frame[t])
  /\ \A S \in Closed, t \in Threads :
       frame[t].at = "emplace" /\ frame[t].path \in S =>
         \A a \in Range(frame[t].draft.producers) : Sourced(S, a)
  /\ TableSourced

(* The workflow's names only become more, and so do the calls it takes.    *)
LEMMA MoreAuthorised ==
  ASSUME ServerInv, [SNext]_everything
  PROVE  /\ Authorised \subseteq Authorised'
         /\ \A f : Permitted(f) => Permitted(f)'
         /\ \A S, a : Sourced(S, a) => Sourced(S, a)'
<1>1. named' = named \/ \E x : named' = Append(named, x)
  BY DEF SNext, everything, server, startApiServer, SpuriousWakeup, Destroy, Use,
     setWorkflowName, MainStep, TestReady, Wait, Swap, StopServer, Joined,
     UseStep, Renamed, ServerStep, SetUp, SetReady, Notify, LoopTest, Timeout,
     Receive, Adding, Lost, Send
<1>2. Range(named) \subseteq Range(named')
  <2>1. named \in Seq(Range(Workflow))
    BY DEF ServerInv, ServerTypes
  <2>2. ASSUME NEW x, named' = Append(named, x) PROVE Range(named) \subseteq Range(named')
    <3> DEFINE S == Range(Workflow)
    <3>1. named \in Seq(S)
      BY <2>1
    <3> HIDE DEF S
    <3>2. \A i \in DOMAIN named : i \in DOMAIN named' /\ named'[i] = named[i]
      BY <2>2, <3>1
    <3> QED
      BY <3>2 DEF Range
  <2> QED
    BY <1>1, <2>2
<1>3. Authorised \subseteq Authorised'
  BY <1>2 DEF Authorised, Ours
<1> QED
  BY <1>3 DEF Permitted, Sourced

(* A draft names nobody whom the patterns it may be copied from do not.    *)
LEMMA DraftSource ==
  ASSUME TypeOK, TableSourced, NEW S \in Closed, NEW p \in S,
         NEW e \in Drafts(p), NEW a \in Range(e.producers)
  PROVE  Sourced(S, a)
<1>1. p \in Path
  BY DEF Closed
<1>2. CASE LongestMatches(p) = {}
  <2>1. e = [DefaultEntry EXCEPT !.store_in_memory = @ \/ store_all_in_memory]
    BY <1>2 DEF Drafts
  <2>2. e.producers = <<>>
    BY <2>1 DEF DefaultEntry
  <2> QED
    BY <2>2 DEF Range
<1>3. CASE LongestMatches(p) # {}
  <2>1. PICK q \in LongestMatches(p) :
          e = [entries[q] EXCEPT !.store_in_memory = @ \/ store_all_in_memory]
    BY <1>3 DEF Drafts
  <2>2. q \in Registered /\ <<q, p>> \in Matches /\ q \in Path
    BY DEF LongestMatches, Registered
  <2>3. q \in S
    BY <2>2 DEF Closed
  <2>4. e.producers = entries[q].producers
    <3>1. entries[q] \in Entry
      BY <2>2 DEF TypeOK, Registered
    <3> QED
      BY <2>1, <3>1 DEF Entry
  <2> QED
    BY <2>2, <2>3, <2>4 DEF TableSourced, Sourced
<1> QED
  BY <1>2, <1>3

(* A step of a call keeps the invariant.                                   *)
LEMMA OriginOfSteps ==
  ASSUME TypeOK, OriginInv, NEW t \in Threads, Step(t),
         \A f : Permitted(f) => Permitted(f)',
         \A S, a : Sourced(S, a) => Sourced(S, a)'
  PROVE  OriginInv'
<1>1. /\ \A u \in Threads \ {t} : frame'[u] = frame[u]
      /\ \/ frame'[t].at = "idle"
         \/ /\ frame'[t].api = frame[t].api /\ frame'[t].path = frame[t].path
            /\ frame'[t].arg = frame[t].arg
            /\ frame'[t].at = "emplace" =>
                 \/ frame[t].at = "emplace" /\ frame'[t].draft = frame[t].draft
                 \/ frame'[t].draft \in Drafts(frame[t].path)
  BY StepMoves, MovesFact
<1>2. frame[t].at # "idle"
  BY StepsWork
<1>3. Permitted(frame[t])
  BY <1>2 DEF OriginInv
<1>4. ASSUME NEW u \in Threads, frame'[u].at # "idle" PROVE Permitted(frame[u])'
  <2>1. CASE u # t
    <3>1. frame'[u] = frame[u]
      BY <1>1, <2>1
    <3>2. Permitted(frame[u])
      BY <1>4, <3>1 DEF OriginInv
    <3> QED
      BY <3>1, <3>2 DEF Permitted
  <2>2. CASE u = t
    <3>1. PICK c \in Authorised : /\ c.api = frame[t].api /\ c.path = frame[t].path
                                  /\ c.arg = frame[t].arg
      BY <1>3 DEF Permitted
    <3>2. Permitted(c)'
      BY <3>1 DEF Permitted
    <3> QED
      BY <1>1, <1>4, <2>2, <3>1, <3>2 DEF Permitted
  <2> QED
    BY <2>1, <2>2
<1>5. ASSUME NEW S \in Closed, NEW u \in Threads, frame'[u].at = "emplace",
             frame'[u].path \in S, NEW a \in Range(frame'[u].draft.producers)
      PROVE  Sourced(S, a)'
  <2>1. Sourced(S, a)
    <3>1. CASE /\ frame[u].at = "emplace" /\ frame'[u].draft = frame[u].draft
               /\ frame'[u].path = frame[u].path
      BY <1>5, <3>1 DEF OriginInv
    <3>2. CASE u = t /\ frame'[t].path = frame[t].path
                 /\ frame'[t].draft \in Drafts(frame[t].path)
      BY <1>5, <3>2, DraftSource DEF OriginInv
    <3> QED
      BY <1>1, <1>5, <3>1, <3>2
  <2> QED
    BY <2>1
<1>6. ASSUME NEW S \in Closed, NEW p \in S, p \in Registered',
             NEW a \in Range(entries'[p].producers)
      PROVE  Sourced(S, a)'
  <2>1. TableStep(t)
    BY StepKinds
  <2>2. p \in Path /\ entries'[p] # NoEntry
    BY <1>6 DEF Registered
  <2>3. \/ p \in Registered /\ a \in Range(entries[p].producers)
        \/ \E e \in Drafts(p) : a \in Range(e.producers)
        \/ p = frame[t].path /\ a \in Credited(frame[t])
        \/ /\ frame[t].at = "emplace" /\ p = frame[t].path
           /\ a \in Range(frame[t].draft.producers)
    BY <2>1, <2>2, ProducersOrigin
  <2>4. CASE p \in Registered /\ a \in Range(entries[p].producers)
    BY <2>4 DEF OriginInv, TableSourced, Sourced
  <2>5. ASSUME NEW e \in Drafts(p), a \in Range(e.producers) PROVE Sourced(S, a)
    BY <2>5, DraftSource DEF OriginInv
  <2>6. CASE p = frame[t].path /\ a \in Credited(frame[t])
    <3>1. PICK c \in Authorised : /\ c.api = frame[t].api /\ c.path = frame[t].path
                                  /\ c.arg = frame[t].arg
      BY <1>3 DEF Permitted
    <3>2. a \in Credited(c)
      BY <2>6, <3>1 DEF Credited
    <3> QED
      BY <2>6, <3>1, <3>2 DEF Sourced
  <2>7. CASE /\ frame[t].at = "emplace" /\ p = frame[t].path
             /\ a \in Range(frame[t].draft.producers)
    BY <2>7 DEF OriginInv
  <2> QED
    BY <2>3, <2>4, <2>5, <2>6, <2>7
<1>7. TableSourced'
  BY <1>6 DEF TableSourced, Sourced
<1> QED
  BY <1>4, <1>5, <1>7 DEF OriginInv

(* So does a call that may reach the engine, when it is made.              *)
LEMMA OriginOfCalls ==
  ASSUME TypeOK, OriginInv, NEW t \in Threads, NEW c \in Authorised, Invoke(t, c),
         \A f : Permitted(f) => Permitted(f)',
         \A S, a : Sourced(S, a) => Sourced(S, a)'
  PROVE  OriginInv'
<1> DEFINE f == [api |-> c.api, path |-> c.path, arg |-> c.arg,
                 at |-> EntryPoint(c.api), draft |-> DefaultEntry,
                 todo |-> IF c.api = "setFileDeps" THEN c.arg.file_dependencies
                          ELSE <<>>]
<1>1. entries' = entries /\ frame' = [frame EXCEPT ![t] = f]
  BY DEF Invoke
<1>2. EntryPoint(c.api) # "emplace"
  BY DEF EntryPoint
<1>3. /\ f.api = c.api /\ f.path = c.path /\ f.arg = c.arg /\ f.at # "emplace"
  BY <1>2
<1> HIDE DEF f
<1>4. frame'[t] = f /\ \A u \in Threads \ {t} : frame'[u] = frame[u]
  BY <1>1 DEF TypeOK
<1>5. Permitted(frame[t])'
  <2>1. Permitted(c)'
    BY DEF Permitted
  <2> QED
    BY <1>3, <1>4, <2>1 DEF Permitted
<1>6. ASSUME NEW u \in Threads, frame'[u].at # "idle" PROVE Permitted(frame[u])'
  <2>1. CASE u # t
    <3>1. frame'[u] = frame[u] /\ Permitted(frame[u])
      BY <1>4, <1>6, <2>1 DEF OriginInv
    <3> QED
      BY <3>1 DEF Permitted
  <2> QED
    BY <1>5, <2>1
<1>7. ASSUME NEW S \in Closed, NEW u \in Threads, frame'[u].at = "emplace",
             frame'[u].path \in S, NEW a \in Range(frame'[u].draft.producers)
      PROVE  Sourced(S, a)'
  <2>1. frame'[u] = frame[u]
    BY <1>3, <1>4, <1>7
  <2> QED
    BY <1>7, <2>1 DEF OriginInv
<1>8. TableSourced'
  BY <1>1 DEF OriginInv, TableSourced, Sourced, Registered
<1> QED
  BY <1>6, <1>7, <1>8 DEF OriginInv

(* Every step keeps the invariant.                                         *)
LEMMA OriginInvStep ==
  ASSUME TypeOK, ServerInv, OriginInv, [SNext]_everything
  PROVE  OriginInv'
<1>1. /\ \A f : Permitted(f) => Permitted(f)'
      /\ \A S, a : Sourced(S, a) => Sourced(S, a)'
  BY MoreAuthorised
<1>2. CASE UNCHANGED vars
  <2>1. entries' = entries /\ frame' = frame
    BY <1>2 DEF vars
  <2>2. TableSourced'
    BY <1>1, <2>1 DEF OriginInv, TableSourced, Sourced, Registered
  <2>3. \A t \in Threads : frame'[t].at # "idle" => Permitted(frame[t])'
    BY <1>1, <2>1 DEF OriginInv, Permitted
  <2>4. \A S \in Closed, t \in Threads :
          frame'[t].at = "emplace" /\ frame'[t].path \in S =>
            \A a \in Range(frame'[t].draft.producers) : Sourced(S, a)'
    BY <1>1, <2>1 DEF OriginInv
  <2> QED
    BY <2>2, <2>3, <2>4 DEF OriginInv
<1> QED
  BY <1>1, <1>2, EngineStep, OriginOfSteps, OriginOfCalls

(* Whatever the engine knows it was told by its own program or by datagrams*)
(* for a workflow it has been, for any number of servers, names, paths and *)
(* patterns, also while its name is being changed.                         *)
THEOREM OnlyItsWorkflowIsHeard == SSpec => []OnlyItsWorkflow
<1>1. SInit => OriginInv
  <2> SUFFICES ASSUME SInit PROVE OriginInv
    OBVIOUS
  <2>1. /\ \A t \in Threads : frame[t] = NoFrame
        /\ Registered = {}
    BY DEF SInit, Init, Registered
  <2>2. NoFrame.at = "idle"
    BY DEF NoFrame
  <2> QED
    BY <2>1, <2>2 DEF OriginInv, TableSourced
<1>2. TypeOK /\ ServerInv /\ OriginInv /\ [SNext]_everything => OriginInv'
  BY OriginInvStep
<1>3. OriginInv => OnlyItsWorkflow
  BY DEF OriginInv, TableSourced, Sourced, OnlyItsWorkflow
<1> QED
  BY <1>1, <1>2, <1>3, ServerTypeOK, ServerInvariant, PTL DEF SSpec, everything

-----------------------------------------------------------------------------
(* Received entries add up.                                                *)

(* Function g is the one that Sum(s) is defined with.                      *)
IsSum(s, g) == g = [i \in 0 .. Len(s) |-> IF i = 0 THEN 0 ELSE g[i - 1] + s[i]]

(* Function g holds the sums of the first members of s, up to n of them.   *)
Sums(s, n, g) == /\ g \in [0 .. n -> Int] /\ g[0] = 0
                 /\ \A i \in 1 .. n : g[i] = g[i - 1] + s[i]

(* There is such a function.                                               *)
LEMMA SumExists ==
  ASSUME NEW s \in Seq(Int)
  PROVE  \E g : Sums(s, Len(s), g)
<1> DEFINE T == {n \in Nat : n <= Len(s) => \E g : Sums(s, n, g)}
<1>1. 0 \in T
  <2> DEFINE g == [i \in 0 .. 0 |-> 0]
  <2>1. g \in [0 .. 0 -> Int] /\ g[0] = 0
    OBVIOUS
  <2>2. Sums(s, 0, g)
    BY <2>1 DEF Sums
  <2> HIDE DEF g
  <2> QED
    BY <2>2
<1>2. ASSUME NEW n \in T \cap Nat PROVE n + 1 \in T
  <2> SUFFICES ASSUME n + 1 <= Len(s) PROVE \E g : Sums(s, n + 1, g)
    BY <1>2
  <2>1. n <= Len(s) /\ n + 1 \in 1 .. Len(s)
    OBVIOUS
  <2>2. PICK g : Sums(s, n, g)
    BY <1>2, <2>1
  <2>3. s[n + 1] \in Int /\ g \in [0 .. n -> Int] /\ g[n] \in Int /\ g[0] = 0
        /\ \A i \in 1 .. n : g[i] = g[i - 1] + s[i]
    BY <2>1, <2>2 DEF Sums
  <2> DEFINE h == [i \in 0 .. n + 1 |-> IF i = n + 1 THEN g[n] + s[n + 1] ELSE g[i]]
  <2>4. h \in [0 .. n + 1 -> Int] /\ h[0] = 0
    BY <2>3
  <2>5. \A i \in 1 .. n + 1 : h[i] = h[i - 1] + s[i]
    BY <2>3
  <2>6. Sums(s, n + 1, h)
    BY <2>4, <2>5 DEF Sums
  <2> QED
    BY <2>6
<1>3. \A n \in Nat : n \in T
  <2> HIDE DEF T
  <2> QED
    BY <1>1, <1>2, SetInduction
<1> QED
  BY <1>3

(* And its last value is the sum: the recursion has one solution only.     *)
LEMMA SumIs ==
  ASSUME NEW s \in Seq(Int), NEW g, Sums(s, Len(s), g)
  PROVE  Sum(s) = g[Len(s)]
<1> DEFINE f == CHOOSE h : IsSum(s, h)
<1>1. IsSum(s, g)
  <2>1. g = [i \in 0 .. Len(s) |-> IF i = 0 THEN 0 ELSE g[i - 1] + s[i]]
    BY DEF Sums
  <2> QED
    BY <2>1 DEF IsSum
<1>2. IsSum(s, f)
  BY <1>1, Zenon
<1>3. Sum(s) = f[Len(s)]
  BY DEF Sum, IsSum
<1> HIDE DEF f
<1>4. \A i \in 0 .. Len(s) : f[i] = IF i = 0 THEN 0 ELSE f[i - 1] + s[i]
  BY <1>2 DEF IsSum
<1> DEFINE T == {n \in Nat : n <= Len(s) => f[n] = g[n]}
<1>5. 0 \in T
  BY <1>4 DEF Sums
<1>6. ASSUME NEW n \in T \cap Nat PROVE n + 1 \in T
  <2> SUFFICES ASSUME n + 1 <= Len(s) PROVE f[n + 1] = g[n + 1]
    BY <1>6
  <2>1. f[n] = g[n] /\ n + 1 \in 1 .. Len(s)
    BY <1>6
  <2>2. f[n + 1] = f[n] + s[n + 1] /\ g[n + 1] = g[n] + s[n + 1]
    BY <1>4, <2>1 DEF Sums
  <2> QED
    BY <2>1, <2>2
<1>7. \A n \in Nat : n \in T
  <2> HIDE DEF T
  <2> QED
    BY <1>5, <1>6, SetInduction
<1> QED
  BY <1>3, <1>7

(* No numbers add up to 0.                                                 *)
LEMMA SumEmpty == Sum(<<>>) = 0
<1> DEFINE s == <<>>
<1>1. s \in Seq(Int) /\ Len(s) = 0
  OBVIOUS
<1> HIDE DEF s
<1>2. PICK g : Sums(s, Len(s), g)
  BY <1>1, SumExists
<1>3. Sum(s) = g[Len(s)]
  BY <1>1, <1>2, SumIs
<1>4. Sum(s) = 0
  BY <1>1, <1>2, <1>3 DEF Sums
<1> QED
  BY <1>4 DEF s

(* One number more makes the sum that much larger.                         *)
LEMMA SumOneMore ==
  ASSUME NEW s \in Seq(Int), NEW x \in Int, NEW r, DOMAIN r = 1 .. Len(s) + 1,
         r \in Seq(Int),
         \A i \in 1 .. Len(s) : r[i] = s[i], r[Len(s) + 1] = x
  PROVE  Sum(s) \in Int /\ Sum(r) = Sum(s) + x
<1> DEFINE n == Len(s)
<1>1. n \in Nat /\ Len(r) = n + 1
  OBVIOUS
<1>2. PICK g : Sums(r, Len(r), g)
  BY SumExists
<1> DEFINE h == [i \in 0 .. n |-> g[i]]
<1>3. Sums(s, n, h)
  <2>1. h \in [0 .. n -> Int] /\ h[0] = 0
    BY <1>1, <1>2 DEF Sums
  <2>2. \A i \in 1 .. n : h[i] = h[i - 1] + s[i]
    BY <1>1, <1>2 DEF Sums
  <2> HIDE DEF h
  <2> QED
    BY <2>1, <2>2 DEF Sums
<1>4. Sum(s) = h[n] /\ Sum(r) = g[n + 1]
  BY <1>1, <1>2, <1>3, SumIs
<1>5. g[n + 1] = g[n] + x /\ g[n] \in Int
  <2>1. /\ g \in [0 .. n + 1 -> Int]
        /\ \A i \in 1 .. n + 1 : g[i] = g[i - 1] + r[i]
    BY <1>1, <1>2 DEF Sums
  <2>2. n + 1 \in 1 .. n + 1 /\ (n + 1) - 1 = n /\ n \in 0 .. n + 1 /\ r[n + 1] = x
    BY <1>1
  <2> HIDE DEF n
  <2>3. g[n + 1] = g[(n + 1) - 1] + r[n + 1]
    BY <2>1, <2>2
  <2> QED
    BY <2>1, <2>2, <2>3
<1>6. h[n] = g[n]
  BY <1>1
<1> HIDE DEF h, n
<1>7. Sum(s) = g[n] /\ Sum(r) = g[n] + x
  BY <1>4, <1>5, <1>6
<1> QED
  BY <1>5, <1>7

(* What is added, and where.                                               *)
Addition == [path : Path, entry : Entry]

(* The entry a path has, or would be registered with.                      *)
EntryOf(p) == IF p \in Registered THEN entries[p] ELSE DefaultEntry

(* Entry e is what the entries added to p add up to.                       *)
AddsUp(p, e) ==
  LET I == AppliedTo(p)
      all == {applied[i].entry : i \in I}
  IN  /\ e.commit_on_close_count = Total(p, LAMBDA f : f.commit_on_close_count)
      /\ Children(p) = {} =>
           /\ e.directory_children_count =
                Total(p, LAMBDA f : f.directory_children_count)
           /\ e.is_file = (\A f \in all : f.is_file)
      /\ Len(e.producers) = Total(p, LAMBDA f : Len(f.producers))
      /\ Len(e.consumers) = Total(p, LAMBDA f : Len(f.consumers))
      /\ Len(e.file_dependencies) = Total(p, LAMBDA f : Len(f.file_dependencies))
      /\ Range(e.producers) = UNION {Range(f.producers) : f \in all}
      /\ Range(e.consumers) = UNION {Range(f.consumers) : f \in all}
      /\ Range(e.file_dependencies) = UNION {Range(f.file_dependencies) : f \in all}
      /\ e.enable_directory_count_update =
           (\A f \in all : f.enable_directory_count_update)
      /\ e.permanent = (\E f \in all : f.permanent)
      /\ e.excluded = (\E f \in all : f.excluded)
      /\ e.store_in_memory = (\E f \in all : f.store_in_memory)
      /\ I # {} =>
           \E i \in I : /\ \A j \in I : j <= i
                        /\ e.commit_rule = applied[i].entry.commit_rule
                        /\ e.fire_rule = applied[i].entry.fire_rule

(* The calls in progress: a server's is the addition it is about to make,  *)
(* Main's is one of its uses; the path whose parent an unlocked _newFile   *)
(* is about to update is there.                                            *)
InCalls ==
  /\ \A s \in Server :
       serve[s] = "add" => frame[s].api = "addEntry" /\ frame[s].at = "body"
  /\ frame[Main].at # "idle" =>
       \E c \in Uses : c.api = frame[Main].api /\ c.path = frame[Main].path
  /\ frame[Main].at = "flag" => frame[Main].api = "setAllStoreInMemory"
  /\ frame[Main].at \in {"count", "store"} => frame[Main].path \in Registered

(* The invariant behind MergedAsSum: of a path that Main does not disturb, *)
(* the entry it has, or would be registered with, is the sum of those      *)
(* added to it, also of none; nor is an unlocked _newFile about to insert  *)
(* anything but the default.                                               *)
MergeInv ==
  /\ applied \in Seq(Addition) /\ InCalls
  /\ \A p \in Path : Undisturbed(p) =>
       /\ ~ store_all_in_memory
       /\ frame[Main].at = "emplace" /\ frame[Main].path = p =>
            frame[Main].draft = DefaultEntry
       /\ p \notin Registered => AppliedTo(p) = {}
       /\ AddsUp(p, EntryOf(p))

(* One addition more adds its numbers to the sums of its path, and nothing *)
(* to those of others.                                                     *)
LEMMA TotalsGrow ==
  ASSUME applied \in Seq(Addition), NEW x \in Addition,
         applied' = Append(applied, x), NEW p \in Path
  PROVE  LET Plus(n, m, k) == n \in Int /\ m = n + (IF x.path = p THEN k ELSE 0)
         IN  /\ Plus(Total(p, LAMBDA f : f.commit_on_close_count),
                     Total(p, LAMBDA f : f.commit_on_close_count)',
                     x.entry.commit_on_close_count)
             /\ Plus(Total(p, LAMBDA f : f.directory_children_count),
                     Total(p, LAMBDA f : f.directory_children_count)',
                     x.entry.directory_children_count)
             /\ Plus(Total(p, LAMBDA f : Len(f.producers)),
                     Total(p, LAMBDA f : Len(f.producers))',
                     Len(x.entry.producers))
             /\ Plus(Total(p, LAMBDA f : Len(f.consumers)),
                     Total(p, LAMBDA f : Len(f.consumers))',
                     Len(x.entry.consumers))
             /\ Plus(Total(p, LAMBDA f : Len(f.file_dependencies)),
                     Total(p, LAMBDA f : Len(f.file_dependencies))',
                     Len(x.entry.file_dependencies))
<1> DEFINE n == Len(applied)
<1>1. /\ n \in Nat /\ DOMAIN applied = 1 .. n /\ DOMAIN applied' = 1 .. n + 1
      /\ applied'[n + 1] = x /\ \A i \in 1 .. n : applied'[i] = applied[i]
  OBVIOUS
<1>2. \A i \in 1 .. n + 1 : applied'[i] \in Addition
  BY <1>1
<1> HIDE DEF n
<1>3. \A e \in Entry : /\ e.commit_on_close_count \in Int
                       /\ e.directory_children_count \in Int
                       /\ Len(e.producers) \in Int /\ Len(e.consumers) \in Int
                       /\ Len(e.file_dependencies) \in Int
  BY DEF Entry
<1>4. \A i \in 1 .. n + 1 : applied'[i].entry \in Entry
  BY <1>2 DEF Addition
<1>5. ASSUME NEW s, NEW r, NEW k, k \in Int,
             s = [i \in 1 .. n |-> r[i]], r \in [1 .. n + 1 -> Int],
             r[n + 1] = IF x.path = p THEN k ELSE 0
      PROVE  Sum(s) \in Int /\ Sum(r) = Sum(s) + (IF x.path = p THEN k ELSE 0)
  <2> DEFINE y == IF x.path = p THEN k ELSE 0
  <2>1. s \in Seq(Int) /\ Len(s) = n /\ r \in Seq(Int) /\ DOMAIN r = 1 .. Len(s) + 1
    BY <1>1, <1>5
  <2>2. y \in Int /\ r[n + 1] = y /\ \A i \in 1 .. n : r[i] = s[i]
    BY <1>5
  <2> HIDE DEF y
  <2>3. r[Len(s) + 1] = y /\ \A i \in 1 .. Len(s) : r[i] = s[i]
    BY <2>1, <2>2
  <2>4. Sum(s) \in Int /\ Sum(r) = Sum(s) + y
    BY <2>1, <2>2, <2>3, SumOneMore
  <2> QED
    BY <2>4 DEF y
<1>6. /\ Total(p, LAMBDA f : f.commit_on_close_count) \in Int
      /\ Total(p, LAMBDA f : f.commit_on_close_count)'
           = Total(p, LAMBDA f : f.commit_on_close_count)
               + (IF x.path = p THEN x.entry.commit_on_close_count ELSE 0)
  <2> DEFINE s == [i \in DOMAIN applied |->
                     IF applied[i].path = p THEN applied[i].entry.commit_on_close_count ELSE 0]
             r == [i \in DOMAIN applied' |->
                     IF applied'[i].path = p THEN applied'[i].entry.commit_on_close_count ELSE 0]
             k == x.entry.commit_on_close_count
  <2>1. /\ k \in Int /\ s = [i \in 1 .. n |-> r[i]] /\ r \in [1 .. n + 1 -> Int]
        /\ r[n + 1] = IF x.path = p THEN k ELSE 0
    BY <1>1, <1>3, <1>4
  <2>2. Sum(s) \in Int /\ Sum(r) = Sum(s) + (IF x.path = p THEN k ELSE 0)
    <3> HIDE DEF s, r, k
    <3> QED
      BY <1>5, <2>1
  <2> QED
    BY <2>2 DEF Total
<1>7. /\ Total(p, LAMBDA f : f.directory_children_count) \in Int
      /\ Total(p, LAMBDA f : f.directory_children_count)'
           = Total(p, LAMBDA f : f.directory_children_count)
               + (IF x.path = p THEN x.entry.directory_children_count ELSE 0)
  <2> DEFINE s == [i \in DOMAIN applied |->
                     IF applied[i].path = p THEN applied[i].entry.directory_children_count ELSE 0]
             r == [i \in DOMAIN applied' |->
                     IF applied'[i].path = p THEN applied'[i].entry.directory_children_count ELSE 0]
             k == x.entry.directory_children_count
  <2>1. /\ k \in Int /\ s = [i \in 1 .. n |-> r[i]] /\ r \in [1 .. n + 1 -> Int]
        /\ r[n + 1] = IF x.path = p THEN k ELSE 0
    BY <1>1, <1>3, <1>4
  <2>2. Sum(s) \in Int /\ Sum(r) = Sum(s) + (IF x.path = p THEN k ELSE 0)
    <3> HIDE DEF s, r, k
    <3> QED
      BY <1>5, <2>1
  <2> QED
    BY <2>2 DEF Total
<1>8. /\ Total(p, LAMBDA f : Len(f.producers)) \in Int
      /\ Total(p, LAMBDA f : Len(f.producers))'
           = Total(p, LAMBDA f : Len(f.producers))
               + (IF x.path = p THEN Len(x.entry.producers) ELSE 0)
  <2> DEFINE s == [i \in DOMAIN applied |->
                     IF applied[i].path = p THEN Len(applied[i].entry.producers) ELSE 0]
             r == [i \in DOMAIN applied' |->
                     IF applied'[i].path = p THEN Len(applied'[i].entry.producers) ELSE 0]
             k == Len(x.entry.producers)
  <2>1. /\ k \in Int /\ s = [i \in 1 .. n |-> r[i]] /\ r \in [1 .. n + 1 -> Int]
        /\ r[n + 1] = IF x.path = p THEN k ELSE 0
    BY <1>1, <1>3, <1>4
  <2>2. Sum(s) \in Int /\ Sum(r) = Sum(s) + (IF x.path = p THEN k ELSE 0)
    <3> HIDE DEF s, r, k
    <3> QED
      BY <1>5, <2>1
  <2> QED
    BY <2>2 DEF Total
<1>9. /\ Total(p, LAMBDA f : Len(f.consumers)) \in Int
      /\ Total(p, LAMBDA f : Len(f.consumers))'
           = Total(p, LAMBDA f : Len(f.consumers))
               + (IF x.path = p THEN Len(x.entry.consumers) ELSE 0)
  <2> DEFINE s == [i \in DOMAIN applied |->
                     IF applied[i].path = p THEN Len(applied[i].entry.consumers) ELSE 0]
             r == [i \in DOMAIN applied' |->
                     IF applied'[i].path = p THEN Len(applied'[i].entry.consumers) ELSE 0]
             k == Len(x.entry.consumers)
  <2>1. /\ k \in Int /\ s = [i \in 1 .. n |-> r[i]] /\ r \in [1 .. n + 1 -> Int]
        /\ r[n + 1] = IF x.path = p THEN k ELSE 0
    BY <1>1, <1>3, <1>4
  <2>2. Sum(s) \in Int /\ Sum(r) = Sum(s) + (IF x.path = p THEN k ELSE 0)
    <3> HIDE DEF s, r, k
    <3> QED
      BY <1>5, <2>1
  <2> QED
    BY <2>2 DEF Total
<1>10. /\ Total(p, LAMBDA f : Len(f.file_dependencies)) \in Int
       /\ Total(p, LAMBDA f : Len(f.file_dependencies))'
           = Total(p, LAMBDA f : Len(f.file_dependencies))
               + (IF x.path = p THEN Len(x.entry.file_dependencies) ELSE 0)
  <2> DEFINE s == [i \in DOMAIN applied |->
                     IF applied[i].path = p THEN Len(applied[i].entry.file_dependencies) ELSE 0]
             r == [i \in DOMAIN applied' |->
                     IF applied'[i].path = p THEN Len(applied'[i].entry.file_dependencies) ELSE 0]
             k == Len(x.entry.file_dependencies)
  <2>1. /\ k \in Int /\ s = [i \in 1 .. n |-> r[i]] /\ r \in [1 .. n + 1 -> Int]
        /\ r[n + 1] = IF x.path = p THEN k ELSE 0
    BY <1>1, <1>3, <1>4
  <2>2. Sum(s) \in Int /\ Sum(r) = Sum(s) + (IF x.path = p THEN k ELSE 0)
    <3> HIDE DEF s, r, k
    <3> QED
      BY <1>5, <2>1
  <2> QED
    BY <2>2 DEF Total
<1> QED
  BY <1>6, <1>7, <1>8, <1>9, <1>10

(* An entry received for a path is summed up: merged with what is there, or*)
(* inserted where nothing is.                                              *)
LEMMA AdditionAddsUp ==
  ASSUME TypeOK, applied \in Seq(Addition), NEW x \in Addition,
         applied' = Append(applied, x), NEW p \in Path, x.path = p,
         AddsUp(p, EntryOf(p)), NEW e \in Entry,
         e = IF p \in Registered THEN Merge(entries[p], x.entry) ELSE x.entry,
         Children(p)' = {} => Children(p) = {}
  PROVE  AddsUp(p, e)'
<1> DEFINE o == EntryOf(p)
           r == x.entry
           n == Len(applied)
<1>1. o \in Entry /\ r \in Entry
  BY DefaultEntryType DEF EntryOf, Registered, TypeOK, Addition
<1>2. /\ e.commit_on_close_count = o.commit_on_close_count + r.commit_on_close_count
      /\ e.directory_children_count =
           o.directory_children_count + r.directory_children_count
      /\ e.is_file = (o.is_file /\ r.is_file)
      /\ e.permanent = (o.permanent \/ r.permanent)
      /\ e.excluded = (o.excluded \/ r.excluded)
      /\ e.store_in_memory = (o.store_in_memory \/ r.store_in_memory)
      /\ e.commit_rule = r.commit_rule /\ e.fire_rule = r.fire_rule
      /\ e.producers = o.producers \o r.producers
      /\ e.consumers = o.consumers \o r.consumers
      /\ e.file_dependencies = o.file_dependencies \o r.file_dependencies
      /\ e.enable_directory_count_update =
           (o.enable_directory_count_update /\ r.enable_directory_count_update)
  <2>1. CASE p \in Registered
    BY <2>1 DEF EntryOf, Merge
  <2>2. CASE p \notin Registered
    <3>1. o = DefaultEntry /\ e = r
      BY <2>2 DEF EntryOf
    <3>2. /\ <<>> \o r.producers = r.producers /\ <<>> \o r.consumers = r.consumers
          /\ <<>> \o r.file_dependencies = r.file_dependencies
      BY <1>1 DEF Entry
    <3>3. /\ r.commit_on_close_count \in Int /\ r.directory_children_count \in Int
          /\ r.is_file \in BOOLEAN /\ r.permanent \in BOOLEAN
          /\ r.excluded \in BOOLEAN /\ r.store_in_memory \in BOOLEAN
          /\ r.enable_directory_count_update \in BOOLEAN
      BY <1>1 DEF Entry
    <3> HIDE DEF o, r
    <3>4. /\ e.commit_on_close_count = o.commit_on_close_count + r.commit_on_close_count
          /\ e.directory_children_count =
               o.directory_children_count + r.directory_children_count
      BY <3>1, <3>3 DEF DefaultEntry
    <3>5. o.producers = <<>> /\ o.consumers = <<>> /\ o.file_dependencies = <<>>
      BY <3>1 DEF DefaultEntry
    <3>6. /\ e.producers = o.producers \o r.producers
          /\ e.consumers = o.consumers \o r.consumers
          /\ e.file_dependencies = o.file_dependencies \o r.file_dependencies
      BY <3>1, <3>2, <3>5, Zenon
    <3>7. /\ e.is_file = (o.is_file /\ r.is_file)
          /\ e.permanent = (o.permanent \/ r.permanent)
          /\ e.excluded = (o.excluded \/ r.excluded)
          /\ e.store_in_memory = (o.store_in_memory \/ r.store_in_memory)
          /\ e.enable_directory_count_update =
               (o.enable_directory_count_update /\ r.enable_directory_count_update)
      BY <3>1, <3>3 DEF DefaultEntry
    <3> QED
      BY <3>1, <3>4, <3>6, <3>7
  <2> QED
    BY <2>1, <2>2
<1>3. /\ n \in Nat /\ DOMAIN applied = 1 .. n /\ DOMAIN applied' = 1 .. n + 1
      /\ applied'[n + 1] = x /\ \A i \in 1 .. n : applied'[i] = applied[i]
  OBVIOUS
<1> DEFINE I == AppliedTo(p)
           J == AppliedTo(p)'
           all == {applied[i].entry : i \in I}
           more == {applied'[i].entry : i \in J}
<1>4. J = I \cup {n + 1} /\ I \subseteq 1 .. n
  BY <1>3 DEF AppliedTo
<1>5. more = all \cup {r}
  <2> HIDE DEF n, I, J
  <2>1. \A i \in I : applied'[i] = applied[i]
    BY <1>3, <1>4
  <2> QED
    BY <1>3, <1>4, <2>1
<1>6. Len(e.producers) = Len(o.producers) + Len(r.producers)
        /\ Len(e.consumers) = Len(o.consumers) + Len(r.consumers)
        /\ Len(e.file_dependencies) = Len(o.file_dependencies) + Len(r.file_dependencies)
  <2>1. ASSUME NEW S, NEW s \in Seq(S), NEW u \in Seq(S)
        PROVE  Len(s \o u) = Len(s) + Len(u)
    OBVIOUS
  <2>2. /\ o.producers \in Seq(App) /\ r.producers \in Seq(App)
        /\ o.consumers \in Seq(App) /\ r.consumers \in Seq(App)
        /\ o.file_dependencies \in Seq(Path) /\ r.file_dependencies \in Seq(Path)
    BY <1>1 DEF Entry
  <2> HIDE DEF o, r
  <2>3. /\ \A s \in Seq(App), u \in Seq(App) : Len(s \o u) = Len(s) + Len(u)
        /\ \A s \in Seq(Path), u \in Seq(Path) : Len(s \o u) = Len(s) + Len(u)
    BY <2>1
  <2>4. Len(e.producers) = Len(o.producers) + Len(r.producers)
    <3>1. Len(o.producers \o r.producers) = Len(o.producers) + Len(r.producers)
      BY <2>2, <2>3, Zenon
    <3> QED
      BY <1>2, <3>1, Zenon
  <2>5. Len(e.consumers) = Len(o.consumers) + Len(r.consumers)
    <3>1. Len(o.consumers \o r.consumers) = Len(o.consumers) + Len(r.consumers)
      BY <2>2, <2>3, Zenon
    <3> QED
      BY <1>2, <3>1, Zenon
  <2>6. Len(e.file_dependencies) = Len(o.file_dependencies) + Len(r.file_dependencies)
    <3>1. Len(o.file_dependencies \o r.file_dependencies) = Len(o.file_dependencies) + Len(r.file_dependencies)
      BY <2>2, <2>3, Zenon
    <3> QED
      BY <1>2, <3>1, Zenon
  <2> QED
    BY <2>4, <2>5, <2>6
<1>7. /\ Range(e.producers) = Range(o.producers) \cup Range(r.producers)
      /\ Range(e.consumers) = Range(o.consumers) \cup Range(r.consumers)
      /\ Range(e.file_dependencies) =
           Range(o.file_dependencies) \cup Range(r.file_dependencies)
  <2>1. ASSUME NEW S, NEW s \in Seq(S), NEW u \in Seq(S)
        PROVE  Range(s \o u) = Range(s) \cup Range(u)
    <3>1. Range(u) \subseteq Range(s \o u)
      <4> SUFFICES ASSUME NEW i \in DOMAIN u PROVE u[i] \in Range(s \o u)
        BY DEF Range
      <4>1. Len(s) + i \in DOMAIN (s \o u) /\ (s \o u)[Len(s) + i] = u[i]
        OBVIOUS
      <4> QED
        BY <4>1 DEF Range
    <3>2. Range(s) \subseteq Range(s \o u)
      BY ListsGrow
    <3> QED
      BY <3>1, <3>2, ConcatBound
  <2>2. /\ o.producers \in Seq(App) /\ r.producers \in Seq(App)
        /\ o.consumers \in Seq(App) /\ r.consumers \in Seq(App)
        /\ o.file_dependencies \in Seq(Path) /\ r.file_dependencies \in Seq(Path)
    BY <1>1 DEF Entry
  <2> HIDE DEF o, r
  <2>3. /\ \A s \in Seq(App), u \in Seq(App) : Range(s \o u) = Range(s) \cup Range(u)
        /\ \A s \in Seq(Path), u \in Seq(Path) : Range(s \o u) = Range(s) \cup Range(u)
    BY <2>1
  <2>4. Range(e.producers) = Range(o.producers) \cup Range(r.producers)
    <3>1. Range(o.producers \o r.producers) = Range(o.producers) \cup Range(r.producers)
      BY <2>2, <2>3, Zenon
    <3> QED
      BY <1>2, <3>1, Zenon
  <2>5. Range(e.consumers) = Range(o.consumers) \cup Range(r.consumers)
    <3>1. Range(o.consumers \o r.consumers) = Range(o.consumers) \cup Range(r.consumers)
      BY <2>2, <2>3, Zenon
    <3> QED
      BY <1>2, <3>1, Zenon
  <2>6. Range(e.file_dependencies) = Range(o.file_dependencies) \cup Range(r.file_dependencies)
    <3>1. Range(o.file_dependencies \o r.file_dependencies) = Range(o.file_dependencies) \cup Range(r.file_dependencies)
      BY <2>2, <2>3, Zenon
    <3> QED
      BY <1>2, <3>1, Zenon
  <2> QED
    BY <2>4, <2>5, <2>6
<1>8. /\ Total(p, LAMBDA f : f.commit_on_close_count)'
           = Total(p, LAMBDA f : f.commit_on_close_count) + r.commit_on_close_count
      /\ Total(p, LAMBDA f : f.directory_children_count)'
           = Total(p, LAMBDA f : f.directory_children_count)
               + r.directory_children_count
      /\ Total(p, LAMBDA f : Len(f.producers))'
           = Total(p, LAMBDA f : Len(f.producers)) + Len(r.producers)
      /\ Total(p, LAMBDA f : Len(f.consumers))'
           = Total(p, LAMBDA f : Len(f.consumers)) + Len(r.consumers)
      /\ Total(p, LAMBDA f : Len(f.file_dependencies))'
           = Total(p, LAMBDA f : Len(f.file_dependencies)) + Len(r.file_dependencies)
  BY TotalsGrow
<1> HIDE DEF o, r
<1>9. /\ e.commit_on_close_count = Total(p, LAMBDA f : f.commit_on_close_count)'
      /\ Len(e.producers) = Total(p, LAMBDA f : Len(f.producers))'
      /\ Len(e.consumers) = Total(p, LAMBDA f : Len(f.consumers))'
      /\ Len(e.file_dependencies) = Total(p, LAMBDA f : Len(f.file_dependencies))'
  BY <1>2, <1>6, <1>8 DEF AddsUp, o
<1>10. /\ o.permanent = (\E f \in all : f.permanent)
       /\ o.excluded = (\E f \in all : f.excluded)
       /\ o.store_in_memory = (\E f \in all : f.store_in_memory)
       /\ Range(o.producers) = UNION {Range(f.producers) : f \in all}
       /\ Range(o.consumers) = UNION {Range(f.consumers) : f \in all}
       /\ Range(o.file_dependencies) = UNION {Range(f.file_dependencies) : f \in all}
       /\ o.enable_directory_count_update =
            (\A f \in all : f.enable_directory_count_update)
       /\ Children(p) = {} =>
            /\ o.directory_children_count = Total(p, LAMBDA f : f.directory_children_count)
            /\ o.is_file = (\A f \in all : f.is_file)
  BY DEF AddsUp, o
<1> HIDE DEF all, more, I, J, n
<1>11. /\ e.permanent = (\E f \in more : f.permanent)
       /\ e.excluded = (\E f \in more : f.excluded)
       /\ e.store_in_memory = (\E f \in more : f.store_in_memory)
       /\ e.enable_directory_count_update =
            (\A f \in more : f.enable_directory_count_update)
  BY <1>2, <1>5, <1>10
<1>12. /\ Range(e.producers) = UNION {Range(f.producers) : f \in more}
       /\ Range(e.consumers) = UNION {Range(f.consumers) : f \in more}
       /\ Range(e.file_dependencies) = UNION {Range(f.file_dependencies) : f \in more}
  BY <1>5, <1>7, <1>10
<1>13. Children(p)' = {} =>
         /\ e.directory_children_count = Total(p, LAMBDA f : f.directory_children_count)'
         /\ e.is_file = (\A f \in more : f.is_file)
  BY <1>2, <1>5, <1>8, <1>10
<1>14. /\ n + 1 \in J /\ \A j \in J : j <= n + 1
       /\ e.commit_rule = applied'[n + 1].entry.commit_rule
       /\ e.fire_rule = applied'[n + 1].entry.fire_rule
  BY <1>2, <1>3, <1>4 DEF r
<1> QED
  BY <1>9, <1>11, <1>12, <1>13, <1>14 DEF AddsUp, more, J

(* An entry received for another path changes nothing.                     *)
LEMMA OtherAddition ==
  ASSUME applied \in Seq(Addition), NEW x \in Addition,
         applied' = Append(applied, x), NEW p \in Path, x.path # p,
         NEW e, AddsUp(p, e), Children(p)' = {} => Children(p) = {}
  PROVE  AppliedTo(p)' = AppliedTo(p) /\ AddsUp(p, e)'
<1> DEFINE n == Len(applied)
<1>1. /\ n \in Nat /\ DOMAIN applied = 1 .. n /\ DOMAIN applied' = 1 .. n + 1
      /\ applied'[n + 1] = x /\ \A i \in 1 .. n : applied'[i] = applied[i]
  OBVIOUS
<1>2. AppliedTo(p)' = AppliedTo(p) /\ AppliedTo(p) \subseteq 1 .. n
  BY <1>1 DEF AppliedTo
<1>3. \A i \in AppliedTo(p) : applied'[i] = applied[i]
  BY <1>1, <1>2
<1>4. {applied'[i].entry : i \in AppliedTo(p)'} = {applied[i].entry : i \in AppliedTo(p)}
  BY <1>2, <1>3
<1>5. /\ Total(p, LAMBDA f : f.commit_on_close_count)'
           = Total(p, LAMBDA f : f.commit_on_close_count)
      /\ Total(p, LAMBDA f : f.directory_children_count)'
           = Total(p, LAMBDA f : f.directory_children_count)
      /\ Total(p, LAMBDA f : Len(f.producers))' = Total(p, LAMBDA f : Len(f.producers))
      /\ Total(p, LAMBDA f : Len(f.consumers))' = Total(p, LAMBDA f : Len(f.consumers))
      /\ Total(p, LAMBDA f : Len(f.file_dependencies))'
           = Total(p, LAMBDA f : Len(f.file_dependencies))
  <2>1. \A k \in Int : k + 0 = k
    OBVIOUS
  <2> QED
    BY <2>1, TotalsGrow, Zenon
<1> QED
  BY <1>2, <1>3, <1>4, <1>5 DEF AddsUp

(* Entries that agree on all that is summed up whatever children there are.*)
Agree(o, e) ==
  \A f \in {"commit_on_close_count", "producers", "consumers", "permanent",
            "excluded", "store_in_memory", "commit_rule", "fire_rule",
            "file_dependencies", "enable_directory_count_update"} :
    e[f] = o[f]

(* A step of Main on a path that it does not disturb: its entry may count  *)
(* children that are there, and otherwise stays as it is, or becomes the   *)
(* default one.                                                            *)
Spared(p) ==
  /\ p \in Registered => p \in Registered'
  /\ Agree(EntryOf(p), EntryOf(p)')
  /\ Children(p)' = {} =>
       /\ Children(p) = {}
       /\ EntryOf(p)'.directory_children_count = EntryOf(p).directory_children_count
       /\ EntryOf(p)'.is_file = EntryOf(p).is_file

(* Nothing that has been summed up changes in such a step.                 *)
LEMMA SparedAddsUp ==
  ASSUME NEW p, Spared(p), applied' = applied, AddsUp(p, EntryOf(p))
  PROVE  AddsUp(p, EntryOf(p))'
<1> DEFINE o == EntryOf(p)
           e == EntryOf(p)'
<1>1. /\ e.commit_on_close_count = o.commit_on_close_count
      /\ e.producers = o.producers /\ e.consumers = o.consumers
      /\ e.file_dependencies = o.file_dependencies
      /\ e.enable_directory_count_update = o.enable_directory_count_update
      /\ e.permanent = o.permanent /\ e.excluded = o.excluded
      /\ e.store_in_memory = o.store_in_memory
      /\ e.commit_rule = o.commit_rule /\ e.fire_rule = o.fire_rule
  BY DEF Spared, Agree
<1>2. Children(p)' = {} => /\ Children(p) = {} /\ e.is_file = o.is_file
                           /\ e.directory_children_count = o.directory_children_count
  BY DEF Spared
<1>3. AppliedTo(p)' = AppliedTo(p)
  BY DEF AppliedTo
<1>4. /\ Total(p, LAMBDA f : f.commit_on_close_count)'
           = Total(p, LAMBDA f : f.commit_on_close_count)
      /\ Total(p, LAMBDA f : f.directory_children_count)'
           = Total(p, LAMBDA f : f.directory_children_count)
      /\ Total(p, LAMBDA f : Len(f.producers))' = Total(p, LAMBDA f : Len(f.producers))
      /\ Total(p, LAMBDA f : Len(f.consumers))' = Total(p, LAMBDA f : Len(f.consumers))
      /\ Total(p, LAMBDA f : Len(f.file_dependencies))'
           = Total(p, LAMBDA f : Len(f.file_dependencies))
  BY DEF Total
<1> HIDE DEF o, e
<1>5. AddsUp(p, o)
  BY DEF o
<1>6. /\ e.commit_on_close_count = Total(p, LAMBDA f : f.commit_on_close_count)'
      /\ Len(e.producers) = Total(p, LAMBDA f : Len(f.producers))'
      /\ Len(e.consumers) = Total(p, LAMBDA f : Len(f.consumers))'
      /\ Len(e.file_dependencies) = Total(p, LAMBDA f : Len(f.file_dependencies))'
      /\ Children(p)' = {} =>
           e.directory_children_count = Total(p, LAMBDA f : f.directory_children_count)'
  BY <1>1, <1>2, <1>4, <1>5 DEF AddsUp
<1> DEFINE I == AppliedTo(p)
           all == {applied[i].entry : i \in I}
           more == {applied'[i].entry : i \in AppliedTo(p)'}
<1>7. more = all
  BY <1>3
<1>8. /\ o.permanent = (\E f \in all : f.permanent)
      /\ o.excluded = (\E f \in all : f.excluded)
      /\ o.store_in_memory = (\E f \in all : f.store_in_memory)
      /\ Range(o.producers) = UNION {Range(f.producers) : f \in all}
      /\ Range(o.consumers) = UNION {Range(f.consumers) : f \in all}
      /\ Range(o.file_dependencies) = UNION {Range(f.file_dependencies) : f \in all}
      /\ o.enable_directory_count_update =
           (\A f \in all : f.enable_directory_count_update)
      /\ Children(p) = {} => o.is_file = (\A f \in all : f.is_file)
      /\ I # {} => \E i \in I : /\ \A j \in I : j <= i
                                /\ o.commit_rule = applied[i].entry.commit_rule
                                /\ o.fire_rule = applied[i].entry.fire_rule
  BY <1>5 DEF AddsUp
<1> HIDE DEF all, more
<1>9. /\ e.permanent = (\E f \in more : f.permanent)
      /\ e.excluded = (\E f \in more : f.excluded)
      /\ e.store_in_memory = (\E f \in more : f.store_in_memory)
      /\ Range(e.producers) = UNION {Range(f.producers) : f \in more}
      /\ Range(e.consumers) = UNION {Range(f.consumers) : f \in more}
      /\ Range(e.file_dependencies) = UNION {Range(f.file_dependencies) : f \in more}
      /\ e.enable_directory_count_update =
           (\A f \in more : f.enable_directory_count_update)
      /\ Children(p)' = {} => e.is_file = (\A f \in more : f.is_file)
  BY <1>1, <1>2, <1>7, <1>8
<1>10. AppliedTo(p)' # {} =>
         \E i \in AppliedTo(p)' : /\ \A j \in AppliedTo(p)' : j <= i
                                  /\ e.commit_rule = applied'[i].entry.commit_rule
                                  /\ e.fire_rule = applied'[i].entry.fire_rule
  BY <1>1, <1>3, <1>8
<1> QED
  BY <1>6, <1>9, <1>10 DEF AddsUp, e, more

(* The entry such a path is registered with is the default one.            *)
LEMMA UndisturbedDraft ==
  ASSUME NEW p \in Path, Undisturbed(p), p \notin Registered,
         store_all_in_memory = FALSE, NEW e \in Drafts(p)
  PROVE  e = DefaultEntry
<1>1. LongestMatches(p) = {}
  BY DEF LongestMatches, Undisturbed, Registered
<1>2. e = [DefaultEntry EXCEPT !.store_in_memory = @ \/ store_all_in_memory]
  BY <1>1 DEF Drafts
<1> QED
  BY <1>2 DEF DefaultEntry

(* Only one section of an unlocked _newFile can be next.                   *)
LEMMA OnlyStore ==
  ASSUME NEW t \in Threads, Step(t), frame[t].at = "store"
  PROVE  UnlockedStore(t)
BY DEF Step, In, Looping, Setter, Update, Lookup, setFireRule, setPermanent,
       setExclude, setDirectory, setFile, setCommitedCloseNumber,
       setStoreFileInMemory, setStoreFileInFileSystem, newFile, add, addEntry,
       remove, getCommitRule, getFireRule, isFirable, isExcluded,
       isStoredInMemory, getCommitCloseCount, getProducers, isPermanent, isFile,
       isDirectory, setCommitRule, addProducer, addConsumer, addFileDependency,
       isProducer, isConsumer, Create, Snapshot, setAllStoreInMemory,
       setDirectoryFileCount, setFileDeps, getDirectoryFileCount, UnlockedFind,
       UnlockedEmplace, UnlockedCount, getConsumers, contains, size,
       getCommitOnFileDependencies, getPaths, getFileToStoreInMemory

(* And a call of add(path, entry) has one section.                         *)
LEMMA OnlyAddEntry ==
  ASSUME NEW t \in Threads, Step(t), frame[t].api = "addEntry",
         frame[t].at = "body"
  PROVE  addEntry(t)
BY DEF Step, In, Looping, Setter, Update, Lookup, setFireRule, setPermanent,
       setExclude, setDirectory, setFile, setCommitedCloseNumber,
       setStoreFileInMemory, setStoreFileInFileSystem, newFile, add, remove,
       getCommitRule, getFireRule, isFirable, isExcluded, isStoredInMemory,
       getCommitCloseCount, getProducers, isPermanent, isFile, isDirectory,
       setCommitRule, addProducer, addConsumer, addFileDependency, isProducer,
       isConsumer, Create, Snapshot, setAllStoreInMemory, setDirectoryFileCount,
       setFileDeps, getDirectoryFileCount, UnlockedFind, UnlockedEmplace,
       UnlockedCount, UnlockedStore, getConsumers, contains, size,
       getCommitOnFileDependencies, getPaths, getFileToStoreInMemory

(* The flag of the whole engine is set by setAllStoreInMemory only.        *)
LEMMA FlagSteps ==
  ASSUME NEW t \in Threads, Step(t), store_all_in_memory' # store_all_in_memory
  PROVE  frame[t].at = "flag"
BY DEF Step, In, Looping, Setter, Update, Lookup, Query, setFireRule,
       setPermanent, setExclude, setDirectory, setFile, setCommitedCloseNumber,
       setStoreFileInMemory, setStoreFileInFileSystem, newFile, add, addEntry,
       remove, getCommitRule, getFireRule, isFirable, isExcluded,
       isStoredInMemory, getCommitCloseCount, getProducers, isPermanent, isFile,
       isDirectory, setCommitRule, addProducer, addConsumer, addFileDependency,
       isProducer, isConsumer, Create, Snapshot, setAllStoreInMemory,
       setDirectoryFileCount, setFileDeps, getDirectoryFileCount, UnlockedFind,
       UnlockedEmplace, UnlockedCount, UnlockedStore, getConsumers, contains,
       size, getCommitOnFileDependencies, getPaths, getFileToStoreInMemory

(* A path whose entry is the same, while no child is lost, is spared.      *)
LEMMA SameIsSpared ==
  ASSUME NEW p, EntryOf(p)' = EntryOf(p), p \in Registered => p \in Registered',
         Children(p) \subseteq Children(p)'
  PROVE  Spared(p)
BY DEF Spared, Agree

(* So is one that has children and counts another.                         *)
LEMMA CountingIsSpared ==
  ASSUME NEW p, p \in Registered, EntryOf(p) \in Entry, NEW n,
         EntryOf(p)' = [EntryOf(p) EXCEPT !.directory_children_count = n,
                                          !.is_file = FALSE],
         p \in Registered', Children(p)' # {}
  PROVE  Spared(p)
<1> DEFINE o == EntryOf(p)
<1>1. o \in Entry
  OBVIOUS
<1> HIDE DEF o
<1>2. Agree(o, [o EXCEPT !.directory_children_count = n, !.is_file = FALSE])
  BY <1>1 DEF Agree, Entry
<1> QED
  BY <1>2 DEF Spared, o

(* Registering a path spares those that Main does not disturb.             *)
LEMMA NewFileSpares ==
  ASSUME TypeOK, NEW p \in Path, Undisturbed(p), store_all_in_memory = FALSE,
         NEW q \in Path, NEW m \in _newFile(q),
         entries' \in [Path -> Entry \cup {NoEntry}],
         entries'[p] = m[p], \A r \in Path \ {q} : entries'[r] = m[r],
         entries'[q] = NoEntry <=> m[q] = NoEntry
  PROVE  Spared(p)
<1>1. entries \in [Path -> Entry \cup {NoEntry}] /\ NoEntry \notin Entry
  BY ConstantsAssumption DEF TypeOK
<1>2. CASE m = entries
  <2>1. entries'[p] = entries[p] /\ Registered' = Registered
    BY <1>2 DEF Registered
  <2>2. EntryOf(p)' = EntryOf(p) /\ Children(p)' = Children(p)
    BY <2>1 DEF EntryOf, Children
  <2> QED
    BY <2>1, <2>2, SameIsSpared
<1>3. CASE m # entries
  <2>1. /\ q \notin Registered
        /\ \A r \in Path \ {q} :
             m[r] = IF Counting(entries, r) /\ r = Parent[q]
                    THEN OneMoreChild(entries[r]) ELSE entries[r]
        /\ \E e \in Drafts(q) : /\ e \in Entry /\ m[q] \in {e, OneMoreChild(e)}
                                /\ m[q] # e => Parent[q] = q
    BY <1>3, NewFileEffect
  <2>2. PICK e \in Drafts(q) : /\ e \in Entry /\ m[q] \in {e, OneMoreChild(e)}
                               /\ m[q] # e => Parent[q] = q
    BY <2>1
  <2>3. q \in Registered' /\ Registered \subseteq Registered'
    <3>1. m[q] # NoEntry
      BY <1>1, <2>2, OneMoreChildType
    <3>2. ASSUME NEW r \in Registered PROVE r \in Registered'
      <4>1. r \in Path \ {q} /\ entries[r] \in Entry /\ OneMoreChild(entries[r]) \in Entry
        BY <1>1, <2>1, OneMoreChildType DEF Registered
      <4>2. entries'[r] # NoEntry
        BY <1>1, <2>1, <4>1
      <4> QED
        BY <4>1, <4>2 DEF Registered
    <3> QED
      BY <3>1, <3>2 DEF Registered
  <2>4. Children(p) \subseteq Children(p)' /\ (Parent[q] = p => Children(p)' # {})
    BY <2>3 DEF Children
  <2>5. CASE p = q
    <3>1. e = DefaultEntry /\ EntryOf(p) = DefaultEntry
      BY <2>1, <2>5, UndisturbedDraft DEF EntryOf
    <3>2. EntryOf(p)' = m[q]
      BY <2>3, <2>5 DEF EntryOf
    <3>3. CASE m[q] = e
      BY <2>4, <2>5, <2>3, <3>1, <3>2, <3>3, SameIsSpared
    <3>4. CASE m[q] # e
      <4>1. m[q] = OneMoreChild(DefaultEntry) /\ Children(p)' # {}
        BY <2>2, <2>4, <2>5, <3>1, <3>4
      <4>2. Agree(DefaultEntry, OneMoreChild(DefaultEntry))
        BY DEF Agree, OneMoreChild, DefaultEntry
      <4> QED
        BY <2>3, <2>5, <3>1, <3>2, <4>1, <4>2 DEF Spared
    <3> QED
      BY <3>3, <3>4
  <2>6. CASE p # q /\ Counting(entries, p) /\ p = Parent[q]
    <3>1. p \in Registered /\ entries[p] \in Entry
      BY <1>1, <2>6 DEF Counting, Registered
    <3>2. entries'[p] = OneMoreChild(entries[p])
      BY <2>1, <2>6
    <3>3. p \in Registered' /\ EntryOf(p) = entries[p]
      BY <2>3, <3>1 DEF EntryOf
    <3>4. EntryOf(p)' = OneMoreChild(EntryOf(p))
      BY <3>2, <3>3 DEF EntryOf
    <3> QED
      BY <2>4, <2>6, <3>1, <3>3, <3>4, CountingIsSpared DEF OneMoreChild
  <2>7. CASE p # q /\ ~ (Counting(entries, p) /\ p = Parent[q])
    <3>1. entries'[p] = entries[p]
      BY <2>1, <2>7
    <3>2. EntryOf(p)' = EntryOf(p)
      BY <3>1 DEF EntryOf, Registered
    <3> QED
      BY <2>3, <2>4, <3>2, SameIsSpared
  <2> QED
    BY <2>5, <2>6, <2>7
<1> QED
  BY <1>2, <1>3

(* Main's steps spare the paths it does not disturb.                       *)
LEMMA MainSpares ==
  ASSUME TypeOK, TypeOK', MergeInv, Step(Main), NEW p \in Path, Undisturbed(p)
  PROVE  Spared(p)
<1>1. Main \in Threads
  BY ApiAssumption
<1>2. /\ entries \in [Path -> Entry \cup {NoEntry}] /\ NoEntry \notin Entry
      /\ entries' \in [Path -> Entry \cup {NoEntry}]
      /\ store_all_in_memory \in BOOLEAN
  BY ConstantsAssumption DEF TypeOK
<1>3. store_all_in_memory = FALSE
  BY <1>2 DEF MergeInv
<1> DEFINE f == frame[Main]
<1>4. TableStep(Main)
  BY <1>1, StepKinds
<1>5. f.at # "idle"
  BY <1>1, StepsWork
<1>6. PICK c \in Uses : c.api = f.api /\ c.path = f.path
  BY <1>5 DEF MergeInv, InCalls
<1>7. /\ f.path = p => f.api \in Queries
      /\ f.api \notin {"setAllStoreInMemory", "setDirectoryFileCount"}
      /\ f.api = "remove" => Parent[f.path] # p
  BY <1>6 DEF Undisturbed
<1>8. \A x \in Queries : x \notin Setters \cup Adders
                           \cup {"setCommitRule", "setFileDeps", "add", "addEntry", "remove"}
  BY DEF Queries, Getters, Lookups, Scans, Setters, Adders
<1>9. ASSUME NEW q \in Path, q # p, NEW e, entries' = [entries EXCEPT ![q] = e],
             e # NoEntry \/ q \notin Children(p)
      PROVE  Spared(p)
  <2>1. /\ entries'[p] = entries[p]
        /\ \A r \in Path \ {q} : entries'[r] = entries[r]
        /\ entries'[q] = e
    BY <1>2, <1>9
  <2>2. EntryOf(p)' = EntryOf(p) /\ (p \in Registered => p \in Registered')
    BY <2>1 DEF EntryOf, Registered
  <2>3. Children(p) \subseteq Children(p)'
    BY <1>9, <2>1 DEF Children, Registered
  <2> QED
    BY <2>2, <2>3, SameIsSpared
<1>10. CASE entries' = entries
  BY <1>10, SameIsSpared DEF EntryOf, Registered, Children
<1>11. CASE Registers
  <2>1. PICK q \in Path : entries' \in _newFile(q)
    BY <1>11 DEF Registers
  <2> QED
    BY <1>2, <1>3, <2>1, NewFileSpares
<1>12. CASE Revises(Main)
  <2>1. PICK q \in Registered, e \in Entry :
          entries' = [entries EXCEPT ![q] = e] /\ Assigns(Main, q)
    BY <1>12 DEF Revises
  <2>2. q \in Path
    BY DEF Registered
  <2>3. CASE q # p
    BY <1>2, <1>9, <2>1, <2>2, <2>3
  <2>4. CASE q = p
    <3>1. f.at = "store" /\ p = Parent[f.path]
      BY <1>7, <1>8, <2>1, <2>4 DEF Assigns
    <3>2. UnlockedStore(Main)
      BY <1>1, <3>1, OnlyStore
    <3>3. f.path \in Registered
      BY <3>1 DEF MergeInv, InCalls
    <3>4. entries[p] \in Entry /\ entries[p] # NoEntry
      BY <1>2, <2>4 DEF Registered
    <3>5. entries' = [entries EXCEPT ![p] =
             [entries[p] EXCEPT !.directory_children_count =
                                   f.draft.directory_children_count + 1,
                                !.is_file = FALSE]]
      BY <3>1, <3>2, <3>4 DEF UnlockedStore
    <3>6. entries'[p] = [entries[p] EXCEPT !.directory_children_count =
                                   f.draft.directory_children_count + 1,
                                !.is_file = FALSE]
      BY <1>2, <3>5
    <3>7. Registered \subseteq Registered'
      BY <1>2, <2>1, <2>2 DEF Registered
    <3>8. Children(p)' # {}
      BY <3>1, <3>3, <3>7 DEF Children
    <3>9. /\ p \in Registered /\ p \in Registered' /\ EntryOf(p) = entries[p]
          /\ EntryOf(p)' = entries'[p]
      BY <2>4, <3>7 DEF EntryOf
    <3> QED
      BY <3>4, <3>6, <3>8, <3>9, CountingIsSpared
  <2> QED
    BY <2>3, <2>4
<1>13. CASE Overwrites(Main)
  <2>1. PICK q \in Path \ {EmptyPath}, e \in Entry :
          /\ Ends(Main, {"add"}, q)
          /\ \E m \in _newFile(q) : entries' = [m EXCEPT ![q] = e]
    BY <1>13 DEF Overwrites
  <2>2. PICK m \in _newFile(q) : entries' = [m EXCEPT ![q] = e]
    BY <2>1
  <2>3. q # p
    BY <1>7, <1>8, <2>1 DEF Ends
  <2>4. m \in [Path -> Entry \cup {NoEntry}] /\ m[q] \in Entry
    BY NewFileType, NewFileRegisters
  <2>5. /\ entries'[p] = m[p] /\ \A r \in Path \ {q} : entries'[r] = m[r]
        /\ entries'[q] # NoEntry /\ m[q] # NoEntry
    BY <1>2, <2>2, <2>3, <2>4
  <2> QED
    BY <1>2, <1>3, <2>5, NewFileSpares
<1>14. CASE Merges(Main)
  <2>1. PICK q \in Path, e \in Entry :
          Ends(Main, {"addEntry"}, q) /\ entries' = [entries EXCEPT ![q] = e]
    BY <1>14 DEF Merges
  <2>2. q # p
    BY <1>7, <1>8, <2>1 DEF Ends
  <2> QED
    BY <1>2, <1>9, <2>1, <2>2
<1>15. CASE Removes(Main)
  <2>1. PICK q \in Path :
          Ends(Main, {"remove"}, q) /\ entries' = [entries EXCEPT ![q] = NoEntry]
    BY <1>15 DEF Removes
  <2>2. q # p /\ q \notin Children(p)
    BY <1>7, <1>8, <2>1 DEF Ends, Children
  <2> QED
    BY <1>9, <2>1, <2>2
<1>16. CASE Emplaces(Main)
  <2>1. PICK q \in Path \ Registered, e \in Entry :
          /\ f.at = "emplace" /\ q = f.path /\ e = f.draft
          /\ entries' = [entries EXCEPT ![q] = e]
    BY <1>16 DEF Emplaces
  <2>2. CASE q # p
    BY <1>2, <1>9, <2>1, <2>2
  <2>3. CASE q = p
    <3>1. e = DefaultEntry
      BY <2>1, <2>3 DEF MergeInv
    <3>2. entries'[p] = e /\ \A r \in Path \ {p} : entries'[r] = entries[r]
      BY <1>2, <2>1, <2>3
    <3>3. p \notin Registered /\ p \in Registered' /\ Registered \subseteq Registered'
      BY <1>2, <2>3, <3>2 DEF Registered
    <3>4. EntryOf(p)' = EntryOf(p) /\ Children(p) \subseteq Children(p)'
      BY <3>1, <3>2, <3>3 DEF EntryOf, Children
    <3> QED
      BY <3>3, <3>4, SameIsSpared
  <2> QED
    BY <2>2, <2>3
<1> QED
  BY <1>4, <1>10, <1>11, <1>12, <1>13, <1>14, <1>15, <1>16 DEF TableStep

(* A step without additions that spares these paths keeps the invariant.   *)
LEMMA SparingKeeps ==
  ASSUME MergeInv, applied' = applied, InCalls',
         \A p \in Path : Undisturbed(p) =>
           /\ Spared(p) /\ ~ store_all_in_memory'
           /\ frame'[Main].at = "emplace" /\ frame'[Main].path = p =>
                frame'[Main].draft = DefaultEntry
  PROVE  MergeInv'
<1>1. ASSUME NEW p \in Path, Undisturbed(p)
      PROVE  (p \notin Registered' => AppliedTo(p)' = {}) /\ AddsUp(p, EntryOf(p))'
  <2>1. Spared(p) /\ AddsUp(p, EntryOf(p)) /\ (p \notin Registered => AppliedTo(p) = {})
    BY <1>1 DEF MergeInv
  <2>2. AppliedTo(p)' = AppliedTo(p)
    BY DEF AppliedTo
  <2>3. p \in Registered => p \in Registered'
    BY <2>1 DEF Spared
  <2> QED
    BY <2>1, <2>2, <2>3, SparedAddsUp
<1>2. (applied \in Seq(Addition))'
  BY DEF MergeInv
<1>3. \A p \in Path : Undisturbed(p)' = Undisturbed(p)
  BY DEF Undisturbed
<1> QED
  BY <1>1, <1>2, <1>3 DEF MergeInv

(* If the table stays as it is, so do the sums.                            *)
LEMMA IdleTableSpares ==
  ASSUME entries' = entries
  PROVE  \A p \in Path : Spared(p)
BY SameIsSpared DEF EntryOf, Registered, Children

(* A call being made.                                                      *)
LEMMA MergeInvCall ==
  ASSUME TypeOK, MergeInv, NEW t \in Threads, NEW c, Invoke(t, c), applied' = applied,
         \/ t = Main /\ c \in Uses /\ serve' = serve
         \/ t \in Server /\ c.api = "addEntry" /\ serve' = [serve EXCEPT ![t] = "add"]
  PROVE  MergeInv'
<1> DEFINE f == [api |-> c.api, path |-> c.path, arg |-> c.arg,
                 at |-> EntryPoint(c.api), draft |-> DefaultEntry,
                 todo |-> IF c.api = "setFileDeps" THEN c.arg.file_dependencies
                          ELSE <<>>]
<1>1. /\ entries' = entries /\ store_all_in_memory' = store_all_in_memory
      /\ frame' = [frame EXCEPT ![t] = f]
  BY DEF Invoke
<1>2. /\ EntryPoint(c.api) \notin {"emplace", "count", "store"}
      /\ EntryPoint(c.api) = "flag" => c.api = "setAllStoreInMemory"
      /\ c.api = "addEntry" => EntryPoint(c.api) = "body"
  BY DEF EntryPoint
<1>3. f.api = c.api /\ f.path = c.path /\ f.at = EntryPoint(c.api)
  OBVIOUS
<1> HIDE DEF f
<1>4. frame'[t] = f /\ \A u \in Threads \ {t} : frame'[u] = frame[u]
  BY <1>1 DEF TypeOK
<1>5. Main \notin Server /\ Threads = Server \cup {Main}
  BY ApiAssumption
<1>6. Registered' = Registered /\ InCalls
  BY <1>1 DEF Registered, MergeInv
<1>7. CASE t = Main /\ c \in Uses /\ serve' = serve
  <2>1. InCalls'
    BY <1>2, <1>3, <1>4, <1>5, <1>6, <1>7 DEF InCalls
  <2>2. frame'[Main].at # "emplace"
    BY <1>2, <1>3, <1>4, <1>7
  <2> QED
    BY <1>1, <2>1, <2>2, IdleTableSpares, SparingKeeps DEF MergeInv
<1>8. CASE t \in Server /\ c.api = "addEntry" /\ serve' = [serve EXCEPT ![t] = "add"]
  <2>1. frame'[Main] = frame[Main]
    BY <1>4, <1>5, <1>8
  <2>2. \A s \in Server : s # t /\ serve'[s] = "add" => serve[s] = "add"
    BY <1>8
  <2>3. \A s \in Server :
          serve'[s] = "add" => frame'[s].api = "addEntry" /\ frame'[s].at = "body"
    BY <1>2, <1>3, <1>4, <1>5, <1>6, <1>8, <2>2 DEF InCalls
  <2>4. InCalls'
    BY <1>6, <2>1, <2>3 DEF InCalls
  <2> QED
    BY <1>1, <2>1, <2>4, IdleTableSpares, SparingKeeps DEF MergeInv
<1> QED
  BY <1>7, <1>8

(* A step of Main's call.                                                  *)
LEMMA MergeInvUse ==
  ASSUME TypeOK, TypeOK', MergeInv, Step(Main), applied' = applied, serve' = serve
  PROVE  MergeInv'
<1> DEFINE f == frame[Main]
           g == frame'[Main]
<1>1. Main \in Threads /\ Main \notin Server /\ Threads = Server \cup {Main}
  BY ApiAssumption
<1>2. f.at # "idle"
  BY <1>1, StepsWork
<1>3. PICK c \in Uses : c.api = f.api /\ c.path = f.path
  BY <1>2 DEF MergeInv, InCalls
<1>4. /\ \A u \in Threads \ {Main} : frame'[u] = frame[u]
      /\ \/ g.at = "idle"
         \/ /\ g.api = f.api /\ g.path = f.path /\ g.at # "flag"
            /\ g.at = "emplace" => f.path \notin Registered /\ g.draft \in Drafts(f.path)
            /\ g.at = "count" => UnlockedEmplace(Main)
            /\ g.at = "store" => UnlockedCount(Main)
  BY <1>1, StepMoves, MovesFact
<1>5. g.at \in {"count", "store"} => g.path \in Registered'
  <2>1. entries \in [Path -> Entry \cup {NoEntry}] /\ NoEntry \notin Entry
    BY ConstantsAssumption DEF TypeOK
  <2>2. CASE g.at = "count"
    <3>1. UnlockedEmplace(Main) /\ g.path = f.path
      BY <1>4, <2>2
    <3>2. f.path \in Path /\ f.draft \in Entry
      BY <1>1, <1>2, FrameFacts
    <3>3. entries' = IF Hit(Main) THEN entries ELSE [entries EXCEPT ![f.path] = f.draft]
      BY <3>1 DEF UnlockedEmplace
    <3> QED
      BY <2>1, <3>1, <3>2, <3>3 DEF Hit, Registered
  <2>3. CASE g.at = "store"
    <3>1. UnlockedCount(Main) /\ g.path = f.path
      BY <1>4, <2>3
    <3>2. entries' = entries /\ f.at = "count"
      BY <3>1 DEF UnlockedCount
    <3>3. f.path \in Registered
      BY <3>2 DEF MergeInv, InCalls
    <3> QED
      BY <3>1, <3>2, <3>3 DEF Registered
  <2> QED
    BY <2>2, <2>3
<1>6. InCalls'
  <2>1. \A s \in Server :
          serve'[s] = "add" => frame'[s].api = "addEntry" /\ frame'[s].at = "body"
    BY <1>1, <1>4 DEF MergeInv, InCalls
  <2>2. g.at # "idle" => \E u \in Uses : u.api = g.api /\ u.path = g.path
    BY <1>3, <1>4
  <2>3. g.at # "flag"
    BY <1>4
  <2> QED
    BY <1>5, <2>1, <2>2, <2>3 DEF InCalls
<1>7. ASSUME NEW p \in Path, Undisturbed(p)
      PROVE  /\ Spared(p) /\ ~ store_all_in_memory'
             /\ g.at = "emplace" /\ g.path = p => g.draft = DefaultEntry
  <2>1. store_all_in_memory = FALSE
    BY <1>7 DEF MergeInv, TypeOK
  <2>2. store_all_in_memory' = FALSE
    <3>1. CASE f.at = "flag"
      BY <1>3, <1>7, <3>1 DEF MergeInv, InCalls, Undisturbed
    <3>2. CASE f.at # "flag"
      BY <1>1, <2>1, <3>2, FlagSteps
    <3> QED
      BY <3>1, <3>2
  <2>3. ASSUME g.at = "emplace", g.path = p PROVE g.draft = DefaultEntry
    BY <1>4, <1>7, <2>1, <2>3, UndisturbedDraft
  <2> QED
    BY <1>7, <2>2, <2>3, MainSpares
<1> QED
  BY <1>6, <1>7, SparingKeeps

(* An entry received is added.                                             *)
LEMMA MergeInvAdd ==
  ASSUME TypeOK, MergeInv, NEW s \in Server, Adding(s), ServerTypes
  PROVE  MergeInv'
<1> DEFINE q == frame[s].path
           x == [path |-> q, entry |-> frame[s].arg]
           e == IF q \in Registered THEN Merge(entries[q], x.entry) ELSE x.entry
<1>1. s \in Threads /\ Main \in Threads /\ Main # s /\ Server \subseteq Threads
  BY ApiAssumption
<1>2. serve[s] = "add" /\ serve' = [serve EXCEPT ![s] = "loop"] /\ Step(s)
        /\ applied' = Append(applied, x)
  BY DEF Adding, Serve
<1>3. addEntry(s) /\ frame[s].at = "body"
  BY <1>1, <1>2, OnlyAddEntry DEF MergeInv, InCalls
<1>4. q \in Path /\ frame[s].arg \in Entry
  BY <1>1, <1>3, FrameFacts DEF Arg
<1>5. entries' = [entries EXCEPT ![q] = e] /\ store_all_in_memory' = store_all_in_memory
        /\ frame' = [frame EXCEPT ![s] = NoFrame]
  BY <1>3 DEF addEntry, Hit, Arg, Return
<1>6. entries \in [Path -> Entry \cup {NoEntry}] /\ NoEntry \notin Entry
  BY ConstantsAssumption DEF TypeOK
<1>7. x \in Addition /\ x.path = q /\ x.entry = frame[s].arg
  BY <1>4 DEF Addition
<1>8. e \in Entry
  BY <1>4, <1>6, MergeType DEF Registered
<1>9. applied \in Seq(Addition) /\ applied' \in Seq(Addition)
  BY <1>2, <1>7 DEF MergeInv
<1> HIDE DEF e, x, q
<1>10. /\ entries'[q] = e /\ \A r \in Path \ {q} : entries'[r] = entries[r]
  BY <1>4, <1>5, <1>6
<1>11. q \in Registered' /\ Registered \subseteq Registered'
  BY <1>4, <1>6, <1>8, <1>10 DEF Registered
<1>12. \A p \in Path : Children(p)' = {} => Children(p) = {}
  BY <1>11 DEF Children
<1>13. InCalls'
  <2>1. \A u \in Threads \ {s} : frame'[u] = frame[u]
    BY <1>5 DEF TypeOK
  <2>2. \A u \in Server : serve'[u] = "add" => u # s /\ serve[u] = "add"
    BY <1>2 DEF ServerTypes
  <2>3. frame'[Main] = frame[Main]
    BY <1>1, <2>1
  <2>4. \A u \in Server :
          serve'[u] = "add" => frame'[u].api = "addEntry" /\ frame'[u].at = "body"
    BY <1>1, <2>1, <2>2 DEF MergeInv, InCalls
  <2>5. frame[Main].at \in {"count", "store"} => frame[Main].path \in Registered'
    BY <1>11 DEF MergeInv, InCalls
  <2> QED
    BY <2>3, <2>4, <2>5 DEF MergeInv, InCalls
<1>14. ASSUME NEW p \in Path, Undisturbed(p)
       PROVE  (p \notin Registered' => AppliedTo(p)' = {}) /\ AddsUp(p, EntryOf(p))'
  <2>1. AddsUp(p, EntryOf(p)) /\ (p \notin Registered => AppliedTo(p) = {})
    BY <1>14 DEF MergeInv
  <2>2. CASE p = q
    <3>1. PICK k \in Entry : k = e
      BY <1>8
    <3>2. EntryOf(p)' = k
      BY <1>10, <1>11, <2>2, <3>1 DEF EntryOf
    <3>3. k = IF p \in Registered THEN Merge(entries[p], x.entry) ELSE x.entry
      BY <2>2, <3>1 DEF e
    <3>4. AddsUp(p, k)'
      BY <1>2, <1>7, <1>9, <1>12, <2>1, <2>2, <3>3, AdditionAddsUp
    <3>5. AddsUp(p, EntryOf(p))'
      BY <3>2, <3>4 DEF AddsUp
    <3> QED
      BY <1>11, <2>2, <3>5
  <2>3. CASE p # q
    <3>1. EntryOf(p)' = EntryOf(p) /\ (p \notin Registered' => p \notin Registered)
      BY <1>10, <2>3 DEF EntryOf, Registered
    <3>2. PICK k : k = EntryOf(p)
      OBVIOUS
    <3>3. AddsUp(p, k)
      BY <2>1, <3>2
    <3>4. AppliedTo(p)' = AppliedTo(p) /\ AddsUp(p, k)'
      BY <1>2, <1>7, <1>9, <1>12, <2>3, <3>3, OtherAddition
    <3>5. AddsUp(p, EntryOf(p))'
      BY <3>1, <3>2, <3>4 DEF AddsUp
    <3> QED
      BY <2>1, <3>1, <3>4, <3>5
  <2> QED
    BY <2>2, <2>3
<1>15. frame'[Main] = frame[Main]
  BY <1>1, <1>5 DEF TypeOK
<1>16. \A p \in Path : Undisturbed(p)' = Undisturbed(p)
  BY DEF Undisturbed
<1> QED
  BY <1>5, <1>9, <1>13, <1>14, <1>15, <1>16 DEF MergeInv

(* Every step keeps the invariant.                                         *)
LEMMA MergeInvStep ==
  ASSUME TypeOK, TypeOK', ServerInv, MergeInv, [SNext]_everything
  PROVE  MergeInv'
<1>1. ServerTypes /\ Main \in Threads /\ Server \subseteq Threads
  BY ApiAssumption DEF ServerInv
<1>2. ASSUME UNCHANGED vars, applied' = applied,
             \A s \in Server : serve'[s] = "add" => serve[s] = "add"
      PROVE  MergeInv'
  <2>1. entries' = entries /\ frame' = frame
          /\ store_all_in_memory' = store_all_in_memory
    BY <1>2 DEF vars
  <2>2. InCalls'
    BY <1>2, <2>1 DEF MergeInv, InCalls, Registered
  <2> QED
    BY <1>2, <2>1, <2>2, IdleTableSpares, SparingKeeps DEF MergeInv
<1>3. CASE UNCHANGED everything
  BY <1>2, <1>3 DEF everything, engine, server, control
<1>4. CASE \/ startApiServer \/ SpuriousWakeup \/ Destroy \/ setWorkflowName
           \/ TestReady \/ Wait \/ Swap \/ StopServer \/ Joined \/ Renamed
  <2>1. UNCHANGED vars /\ applied' = applied
    BY <1>4 DEF startApiServer, SpuriousWakeup, Destroy, setWorkflowName, TestReady,
                Wait, Swap, StopServer, Joined, Renamed, engine
  <2>2. serve' = serve \/ \E s \in Server : serve' = [serve EXCEPT ![s] = "setup"]
    BY <1>4 DEF startApiServer, SpuriousWakeup, Destroy, setWorkflowName, TestReady,
                Wait, Swap, StopServer, Joined, Renamed, control
  <2>3. \A s \in Server : serve'[s] = "add" => serve[s] = "add"
    BY <1>1, <2>2 DEF ServerTypes
  <2> QED
    BY <1>2, <2>1, <2>3
<1>5. ASSUME NEW d \in Datagram, Send(d) PROVE MergeInv'
  BY <1>2, <1>5 DEF Send, engine, control
<1>6. CASE Use
  <2>1. applied' = applied /\ serve' = serve
    BY <1>6 DEF Use, server, control
  <2> QED
    BY <1>1, <1>6, <2>1, MergeInvCall DEF Use
<1>7. CASE UseStep
  <2>1. applied' = applied /\ serve' = serve
    BY <1>7 DEF UseStep, server, control
  <2> QED
    BY <1>7, <2>1, MergeInvUse DEF UseStep
<1>8. ASSUME NEW s \in Server,
             \/ SetUp(s) \/ SetReady(s) \/ Notify(s) \/ LoopTest(s)
             \/ Timeout(s) \/ Lost(s)
      PROVE  MergeInv'
  <2>1. UNCHANGED vars /\ applied' = applied
    BY <1>8 DEF SetUp, SetReady, Notify, LoopTest, Timeout, Lost, engine
  <2>2. \E l \in {"ready", "notify", "loop", "exited", "recv", "lost"} :
          serve' = [serve EXCEPT ![s] = l]
    BY <1>8 DEF SetUp, SetReady, Notify, LoopTest, Timeout, Lost, Serve
  <2>3. \A u \in Server : serve'[u] = "add" => serve[u] = "add"
    BY <1>1, <2>2 DEF ServerTypes
  <2> QED
    BY <1>2, <2>1, <2>3
<1>9. ASSUME NEW s \in Server, Receive(s) PROVE MergeInv'
  <2>1. applied' = applied
    BY <1>9 DEF Receive
  <2>2. \/ UNCHANGED vars /\ Serve(s, "recv", "loop")
        \/ \E d \in socket[s] : Invoke(s, AddCall(d)) /\ Serve(s, "recv", "add")
    BY <1>9 DEF Receive, engine
  <2>3. CASE UNCHANGED vars /\ Serve(s, "recv", "loop")
    <3>1. \A u \in Server : serve'[u] = "add" => serve[u] = "add"
      BY <1>1, <2>3 DEF ServerTypes, Serve
    <3> QED
      BY <1>2, <2>1, <2>3, <3>1
  <2>4. ASSUME NEW d \in socket[s], Invoke(s, AddCall(d)), Serve(s, "recv", "add")
        PROVE  MergeInv'
    <3>1. AddCall(d).api = "addEntry" /\ serve' = [serve EXCEPT ![s] = "add"]
      BY <2>4 DEF AddCall, Serve
    <3> QED
      BY <1>1, <1>9, <2>1, <2>4, <3>1, MergeInvCall
  <2> QED
    BY <2>2, <2>3, <2>4
<1>10. ASSUME NEW s \in Server, Adding(s) PROVE MergeInv'
  BY <1>1, <1>10, MergeInvAdd
<1> QED
  BY <1>3, <1>4, <1>5, <1>6, <1>7, <1>8, <1>9, <1>10 DEF SNext, MainStep, ServerStep

(* Nothing has been added at the beginning.                                *)
LEMMA MergeInvInit == SInit => MergeInv
<1> SUFFICES ASSUME SInit PROVE MergeInv
  OBVIOUS
<1>1. /\ applied = <<>> /\ Registered = {} /\ store_all_in_memory = FALSE
      /\ serve = [s \in Server |-> "none"] /\ frame = [t \in Threads |-> NoFrame]
  BY DEF SInit, Init, Registered
<1>2. applied \in Seq(Addition)
  BY <1>1
<1>3. frame[Main].at = "idle"
  BY <1>1, ApiAssumption DEF NoFrame
<1>4. InCalls
  BY <1>1, <1>3 DEF InCalls
<1>5. ASSUME NEW p \in Path PROVE AppliedTo(p) = {} /\ AddsUp(p, EntryOf(p))
  <2>1. AppliedTo(p) = {} /\ EntryOf(p) = DefaultEntry
    BY <1>1 DEF AppliedTo, EntryOf
  <2>2. /\ Total(p, LAMBDA f : f.commit_on_close_count) = 0
        /\ Total(p, LAMBDA f : f.directory_children_count) = 0
        /\ Total(p, LAMBDA f : Len(f.producers)) = 0
        /\ Total(p, LAMBDA f : Len(f.consumers)) = 0
        /\ Total(p, LAMBDA f : Len(f.file_dependencies)) = 0
    <3>1. /\ [i \in DOMAIN applied |-> IF applied[i].path = p
                THEN applied[i].entry.commit_on_close_count ELSE 0] = <<>>
          /\ [i \in DOMAIN applied |-> IF applied[i].path = p
                THEN applied[i].entry.directory_children_count ELSE 0] = <<>>
          /\ [i \in DOMAIN applied |-> IF applied[i].path = p
                THEN Len(applied[i].entry.producers) ELSE 0] = <<>>
          /\ [i \in DOMAIN applied |-> IF applied[i].path = p
                THEN Len(applied[i].entry.consumers) ELSE 0] = <<>>
          /\ [i \in DOMAIN applied |-> IF applied[i].path = p
                THEN Len(applied[i].entry.file_dependencies) ELSE 0] = <<>>
      BY <1>1
    <3> QED
      BY <3>1, SumEmpty DEF Total
  <2>3. /\ Len(DefaultEntry.producers) = 0 /\ Len(DefaultEntry.consumers) = 0
        /\ Len(DefaultEntry.file_dependencies) = 0
    BY DEF DefaultEntry
  <2>4. /\ Range(DefaultEntry.producers) = {} /\ Range(DefaultEntry.consumers) = {}
        /\ Range(DefaultEntry.file_dependencies) = {}
    BY DEF DefaultEntry, Range
  <2>5. /\ DefaultEntry.commit_on_close_count = 0
        /\ DefaultEntry.directory_children_count = 0 /\ DefaultEntry.is_file
        /\ DefaultEntry.is_file = TRUE /\ DefaultEntry.permanent = FALSE
        /\ DefaultEntry.excluded = FALSE /\ DefaultEntry.store_in_memory = FALSE
        /\ DefaultEntry.enable_directory_count_update = TRUE
    BY DEF DefaultEntry
  <2>6. AddsUp(p, DefaultEntry)
    BY <2>1, <2>2, <2>3, <2>4, <2>5 DEF AddsUp
  <2> QED
    BY <2>1, <2>6
<1> QED
  BY <1>1, <1>2, <1>3, <1>4, <1>5 DEF MergeInv

(* What the entries received for a path add up to does not depend on their *)
(* order, on the server that received them or on when Main's own queries   *)
(* registered the path: for any number of servers, datagrams and paths, an *)
(* undisturbed path's counters are the sums of theirs, its lists hold all  *)
(* of theirs and no others, its flags are combined, and its rules are those*)
(* of the last one.                                                        *)
THEOREM ReceivedEntriesAddUp == SSpec => []MergedAsSum
<1>1. TypeOK /\ TypeOK' /\ ServerInv /\ MergeInv /\ [SNext]_everything => MergeInv'
  BY MergeInvStep
<1>2. MergeInv => MergedAsSum
  <2> SUFFICES ASSUME MergeInv, NEW p \in Path, Undisturbed(p), AppliedTo(p) # {}
               PROVE  p \in Registered /\ AddsUp(p, entries[p])
    BY DEF MergedAsSum, AddsUp
  <2> QED
    BY DEF MergeInv, EntryOf
<1> QED
  BY <1>1, <1>2, MergeInvInit, ServerTypeOK, ServerInvariant, PTL DEF SSpec, everything

=============================================================================
