------------------------ MODULE CommitMonitorProofs ------------------------
(***************************************************************************)
(* Type correctness of CommitMonitor, and the theorem that no instance ever*)
(* learns of a commit that nobody asked for.                               *)
(***************************************************************************)
EXTENDS CommitMonitor, TLAPS

(* Walking over the backends stays inside Interfaces.                      *)
LEMMA InterfacesFact ==
  /\ Len(Interfaces) \in {1, 2} /\ Interfaces[1] = "mcast"
  /\ Len(Interfaces) = 2 => Interfaces[2] = "fs"
BY MonitorAssumption

(* Where a call enters a backend is one of its labels.                     *)
LEMMA FirstFact ==
  ASSUME NEW op, NEW b
  PROVE  First(op, b) \in {"send", "check", "lookup", "exists"}
BY DEF First

(* No call is a frame.                                                     *)
LEMMA NoCallFact == NoCall \in Frame
<1>1. (CHOOSE p \in Path : TRUE) \in Path
  BY MonitorAssumption
<1>2. 0 \in 0 .. Len(Interfaces)
  BY InterfacesFact
<1> QED
  BY <1>1, <1>2 DEF NoCall, Frame

(* The initial state is well typed.                                        *)
LEMMA InitType == Init => TypeOK
<1>1. MaxCalls \in Nat /\ MaxStarts \in Nat
  BY MonitorAssumption
<1> QED
  BY <1>1, NoCallFact DEF Init, TypeOK

(* A step of the walk keeps the types of frame, ret and the history.       *)
LEMMA WalkType ==
  ASSUME TypeOK, NEW n \in Node,
         \/ NextBackend(n) \/ Yes(n) \/ (\E l \in {"add", "ask", "again", "create"} : Goto(n, l))
         \/ Return(n, "throws") /\ UNCHANGED history
  PROVE  /\ frame' \in [Node -> Frame]
         /\ ret' \in [Node -> {"none", "done", "yes", "no", "throws"}]
         /\ requested' = requested
         /\ acked' \subseteq {Token[p] : p \in Path}
         /\ saw' \in [Node -> SUBSET Path]
<1>1. /\ frame \in [Node -> Frame] /\ frame[n] \in Frame
      /\ frame[n].path \in Path /\ frame[n].i \in 0 .. Len(Interfaces)
      /\ ret \in [Node -> {"none", "done", "yes", "no", "throws"}]
      /\ acked \subseteq {Token[p] : p \in Path} /\ saw \in [Node -> SUBSET Path]
  BY DEF TypeOK, Frame
<1>2. ASSUME NEW v \in {"done", "yes", "no", "throws"}, Return(n, v)
      PROVE  /\ frame' \in [Node -> Frame]
             /\ ret' \in [Node -> {"none", "done", "yes", "no", "throws"}]
  BY <1>1, <1>2, NoCallFact DEF Return
<1>3. CASE NextBackend(n)
  <2>1. CASE frame[n].i < Len(Interfaces)
    <3>1. frame[n].i + 1 \in 0 .. Len(Interfaces)
      BY <1>1, <2>1, InterfacesFact
    <3> DEFINE l == First(frame[n].op, Interfaces[frame[n].i + 1])
    <3>2. l \in {"send", "check", "lookup", "exists"}
      BY FirstFact
    <3> HIDE DEF l
    <3> DEFINE f == [frame[n] EXCEPT !.i = frame[n].i + 1, !.at = l]
    <3>3. f \in Frame
      BY <1>1, <3>1, <3>2 DEF Frame
    <3>4. frame' = [frame EXCEPT ![n] = f] /\ UNCHANGED <<ret, history>>
      BY <1>3, <2>1 DEF NextBackend, l
    <3> HIDE DEF f
    <3> QED
      BY <1>1, <3>3, <3>4 DEF history
  <2>2. CASE ~ (frame[n].i < Len(Interfaces)) /\ frame[n].op = "setCommitted"
    <3>1. /\ Return(n, "done") /\ UNCHANGED <<requested, saw>>
          /\ acked' \in {acked, acked \cup {Token[frame[n].path]}}
      BY <1>3, <2>2 DEF NextBackend
    <3> QED
      BY <1>1, <1>2, <3>1
  <2>3. CASE ~ (frame[n].i < Len(Interfaces)) /\ frame[n].op # "setCommitted"
    BY <1>1, <1>2, <1>3, <2>3 DEF NextBackend, history
  <2> QED
    BY <2>1, <2>2, <2>3
<1>4. CASE Yes(n)
  BY <1>1, <1>2, <1>4 DEF Yes
<1>5. ASSUME NEW l \in {"add", "ask", "again", "create"}, Goto(n, l)
      PROVE  /\ frame' \in [Node -> Frame] /\ UNCHANGED <<ret, history>>
  <2>1. [frame[n] EXCEPT !.at = l] \in Frame
    BY <1>1 DEF Frame
  <2> QED
    BY <1>1, <1>5, <2>1 DEF Goto
<1>6. CASE Return(n, "throws") /\ UNCHANGED history
  BY <1>1, <1>2, <1>6 DEF history
<1> QED
  BY <1>1, <1>3, <1>4, <1>5, <1>6 DEF history

(* Whatever sockets a datagram reaches, they hold datagrams.               *)
LEMMA SendType ==
  ASSUME NEW box \in [Node -> SUBSET Datagram], NEW m \in Datagram,
         _send_message(box, m)
  PROVE  inbox' \in [Node -> SUBSET Datagram]
BY DEF _send_message

(* Starting, joining, stopping and dying keep the types.                   *)
LEMMA InstanceType ==
  ASSUME TypeOK, NEW n \in Node,
         Start(n) \/ Join(n) \/ Stop(n) \/ Crash(n) \/ IdlePoll(n)
  PROVE  TypeOK'
<1>1. CASE Start(n)
  <2>1. starts' \in 0 .. MaxStarts
    BY <1>1, MonitorAssumption DEF Start, TypeOK
  <2> QED
    BY <1>1, <2>1 DEF Start, TypeOK, history
<1>2. CASE Join(n)
  BY <1>2 DEF Join, TypeOK, history
<1>3. CASE Stop(n)
  BY <1>3 DEF Stop, TypeOK, history
<1>4. CASE Gone(n)
  BY <1>4, NoCallFact DEF Gone, TypeOK
<1> QED
  BY <1>1, <1>2, <1>3, <1>4 DEF Crash, IdlePoll

(* Reading a datagram keeps the types.                                     *)
LEMMA ListenerType ==
  ASSUME TypeOK, NEW n \in Node, commit_listener(n)
  PROVE  TypeOK'
<1>1. PICK m \in inbox[n] : Reads(n, m)
  BY DEF commit_listener
<1> DEFINE rest == [inbox EXCEPT ![n] = @ \ {m}]
<1>2. rest \in [Node -> SUBSET Datagram] /\ m \in Datagram /\ m.path \in Path
  BY DEF TypeOK, Datagram
<1>3. [cmd |-> "SET", path |-> m.path] \in Datagram
  BY <1>2 DEF Datagram
<1>4. inbox' \in [Node -> SUBSET Datagram]
  <2>1. inbox' = rest \/ _send_message(rest, [cmd |-> "SET", path |-> m.path])
    BY <1>1 DEF Reads
  <2> HIDE DEF rest
  <2> QED
    BY <1>2, <1>3, <2>1, SendType
<1>5. committed' \in [Node -> SUBSET Path]
  BY <1>1, <1>2 DEF Reads, TypeOK
<1> QED
  BY <1>1, <1>4, <1>5 DEF Reads, TypeOK, local, history

(* Making a call keeps the types.                                          *)
LEMMA CallType ==
  ASSUME TypeOK, NEW n \in Node, Call(n)
  PROVE  TypeOK'
<1>1. PICK op \in {"setCommitted", "isCommitted"}, p \in Path :
        /\ \/ calls < MaxCalls /\ calls' = calls + 1
           \/ UNCHANGED calls
        /\ frame' = [frame EXCEPT ![n] =
             [op |-> op, path |-> p, i |-> 1, at |-> First(op, Interfaces[1]),
              must |-> op = "isCommitted" /\ (Token[p] \in acked \/ p \in saw[n])]]
        /\ ret' = [ret EXCEPT ![n] = "none"]
        /\ requested' = IF op = "setCommitted" THEN requested \cup {p}
                        ELSE requested
        /\ UNCHANGED <<local, committed, inbox, tokens, acked, saw>>
  BY DEF Call
<1>2. calls' \in 0 .. MaxCalls
  BY <1>1, MonitorAssumption DEF TypeOK
<1> DEFINE l == First(op, Interfaces[1])
           b == op = "isCommitted" /\ (Token[p] \in acked \/ p \in saw[n])
           f == [op |-> op, path |-> p, i |-> 1, at |-> l, must |-> b]
<1>3. l \in {"send", "check", "lookup", "exists"} /\ 1 \in 0 .. Len(Interfaces)
  BY FirstFact, InterfacesFact
<1>4. b \in BOOLEAN
  OBVIOUS
<1>5. frame' = [frame EXCEPT ![n] = f]
  BY <1>1
<1> HIDE DEF l, b
<1>6. f \in Frame
  BY <1>3, <1>4 DEF Frame
<1> HIDE DEF f
<1> QED
  BY <1>1, <1>2, <1>5, <1>6 DEF TypeOK, local

(* A step of a call keeps the types.                                       *)
LEMMA CallStepType ==
  ASSUME TypeOK, NEW n \in Node, CallStep(n)
  PROVE  TypeOK'
<1>1. frame[n].path \in Path
  BY DEF TypeOK, Frame
<1>2. \/ NextBackend(n) \/ Yes(n)
      \/ (\E l \in {"add", "ask", "again", "create"} : Goto(n, l))
      \/ Return(n, "throws") /\ UNCHANGED history
  BY DEF CallStep, McastSet, McastIs, FsSet, FsIs, Throws
<1>3. /\ frame' \in [Node -> Frame]
      /\ ret' \in [Node -> {"none", "done", "yes", "no", "throws"}]
      /\ requested' = requested
      /\ acked' \subseteq {Token[p] : p \in Path}
      /\ saw' \in [Node -> SUBSET Path]
  BY <1>2, WalkType
<1>4. inbox' \in [Node -> SUBSET Datagram]
  <2>1. \/ inbox' = inbox
        \/ _send_message(inbox, [cmd |-> "SET", path |-> frame[n].path])
        \/ _send_message(inbox, [cmd |-> "GET", path |-> frame[n].path])
    BY DEF CallStep, McastSet, McastIs, FsSet, FsIs, Throws
  <2>2. /\ [cmd |-> "SET", path |-> frame[n].path] \in Datagram
        /\ [cmd |-> "GET", path |-> frame[n].path] \in Datagram
    BY <1>1 DEF Datagram
  <2> QED
    BY <2>1, <2>2, SendType DEF TypeOK
<1>5. committed' \in {committed, [committed EXCEPT ![n] = @ \cup {frame[n].path}]}
  BY DEF CallStep, McastSet, McastIs, FsSet, FsIs, Throws
<1>6. committed' \in [Node -> SUBSET Path]
  BY <1>1, <1>5 DEF TypeOK
<1>7. tokens' \in {tokens, tokens \cup {Token[frame[n].path]}}
  BY DEF CallStep, McastSet, McastIs, FsSet, FsIs, Throws,
         compute_capiocl_token_name
<1>8. tokens' \subseteq {Token[p] : p \in Path}
  BY <1>1, <1>7 DEF TypeOK
<1>9. UNCHANGED <<local, calls>>
  BY DEF CallStep, McastSet, McastIs, FsSet, FsIs, Throws
<1> QED
  BY <1>3, <1>4, <1>6, <1>8, <1>9 DEF TypeOK, local

(* Every step keeps the types.                                             *)
LEMMA NextType == TypeOK /\ [Next]_vars => TypeOK'
<1>1. TypeOK /\ UNCHANGED vars => TypeOK'
  BY DEF TypeOK, vars
<1>2. ASSUME TypeOK, Next PROVE TypeOK'
  BY <1>2, InstanceType, ListenerType, CallType, CallStepType DEF Next
<1> QED
  BY <1>1, <1>2

(* The nodes, their sockets and the disk only ever hold what their types   *)
(* say: a call that walks over the backends stays inside the registered    *)
(* ones, whatever fails on the way.                                        *)
THEOREM MonitorTypeCorrect == Spec => []TypeOK
<1>1. Init /\ [][Next]_vars => []TypeOK
  BY InitType, NextType, PTL
<1> QED
  BY <1>1 DEF Spec

-----------------------------------------------------------------------------
(* NoSpuriousCommit is not inductive: a setCommitted in progress must know *)
(* that its path was requested, and only such a call may be at the places  *)
(* where commits are announced, recorded and given a token.                *)
SetFrame(f) ==
  /\ f.at \in {"send", "add", "check", "create"} => f.op = "setCommitted"
  /\ f.op = "setCommitted" => f.path \in requested
CommitInv == NoSpuriousCommit /\ \A n \in Node : SetFrame(frame[n])

(* It holds before anybody has called.                                     *)
LEMMA InitCommit == Init => CommitInv
BY DEF Init, CommitInv, NoSpuriousCommit, SetFrame, NoCall

(* What the step of a walk does to the frames and to what was seen.        *)
LEMMA WalkCommit ==
  ASSUME TypeOK, CommitInv, NEW n \in Node,
         \/ NextBackend(n)
         \/ Yes(n) /\ \E q \in requested : Token[q] = Token[frame[n].path]
         \/ Goto(n, "add") /\ frame[n].at = "send"
         \/ Goto(n, "create") /\ frame[n].at = "check"
         \/ \E l \in {"ask", "again"} : Goto(n, l)
         \/ Return(n, "throws") /\ UNCHANGED history
  PROVE  /\ requested' = requested
         /\ \A k \in Node : SetFrame(frame[k])'
         /\ \A k \in Node : \A p \in saw'[k] :
              \E q \in requested : Token[q] = Token[p]
<1>1. /\ frame \in [Node -> Frame] /\ frame[n] \in Frame /\ saw \in [Node -> SUBSET Path]
  BY DEF TypeOK
<1>2. /\ \A k \in Node : SetFrame(frame[k])
      /\ \A k \in Node : \A p \in saw[k] :
           \E q \in requested : Token[q] = Token[p]
  BY DEF CommitInv, NoSpuriousCommit
<1>3. ASSUME NEW v, Return(n, v), requested' = requested
      PROVE  \A k \in Node : SetFrame(frame[k])'
  BY <1>1, <1>2, <1>3 DEF Return, SetFrame, NoCall
<1>4. CASE NextBackend(n)
  <2>1. CASE frame[n].i < Len(Interfaces)
    <3> DEFINE l == First(frame[n].op, Interfaces[frame[n].i + 1])
               f == [frame[n] EXCEPT !.i = frame[n].i + 1, !.at = l]
    <3>1. /\ frame' = [frame EXCEPT ![n] = f]
          /\ requested' = requested /\ saw' = saw
      BY <1>4, <2>1 DEF NextBackend, history
    <3>2. /\ l \in {"send", "check"} => frame[n].op = "setCommitted"
          /\ l \notin {"add", "create"}
      BY DEF First
    <3> HIDE DEF l
    <3>3. f.op = frame[n].op /\ f.path = frame[n].path /\ f.at = l
      BY <1>1 DEF Frame
    <3> HIDE DEF f
    <3>4. SetFrame(f)
      BY <1>2, <3>2, <3>3 DEF SetFrame
    <3> QED
      BY <1>1, <1>2, <3>1, <3>4 DEF SetFrame
  <2>2. CASE ~ (frame[n].i < Len(Interfaces))
    <3>1. /\ \E v : Return(n, v)
          /\ requested' = requested /\ saw' = saw
      BY <1>4, <2>2 DEF NextBackend, history
    <3> QED
      BY <1>2, <1>3, <3>1
  <2> QED
    BY <2>1, <2>2
<1>5. CASE Yes(n) /\ \E q \in requested : Token[q] = Token[frame[n].path]
  <2>1. /\ Return(n, "yes") /\ requested' = requested
        /\ saw' = [saw EXCEPT ![n] = @ \cup {frame[n].path}]
    BY <1>5 DEF Yes
  <2>2. \A k \in Node : \A p \in saw'[k] :
          p \in saw[k] \/ p = frame[n].path
    BY <1>1, <2>1
  <2> QED
    BY <1>2, <1>3, <1>5, <2>1, <2>2
<1>6. ASSUME NEW l, Goto(n, l),
             l \in {"add", "create"} => frame[n].at \in {"send", "check"},
             l \notin {"send", "check"}
      PROVE  /\ requested' = requested /\ saw' = saw
             /\ \A k \in Node : SetFrame(frame[k])'
  <2> DEFINE f == [frame[n] EXCEPT !.at = l]
  <2>1. frame' = [frame EXCEPT ![n] = f] /\ requested' = requested /\ saw' = saw
    BY <1>1, <1>6 DEF Goto, history, Frame
  <2>2. f.op = frame[n].op /\ f.path = frame[n].path /\ f.at = l
    BY <1>1 DEF Frame
  <2> HIDE DEF f
  <2>3. SetFrame(f)
    BY <1>2, <1>6, <2>2 DEF SetFrame
  <2> QED
    BY <1>1, <1>2, <2>1, <2>3 DEF SetFrame
<1>7. CASE Goto(n, "add") /\ frame[n].at = "send"
  BY <1>2, <1>6, <1>7
<1>8. CASE Goto(n, "create") /\ frame[n].at = "check"
  BY <1>2, <1>6, <1>8
<1>9. CASE \E l \in {"ask", "again"} : Goto(n, l)
  BY <1>2, <1>6, <1>9
<1>10. CASE Return(n, "throws") /\ UNCHANGED history
  BY <1>2, <1>3, <1>10 DEF history
<1> QED
  BY <1>4, <1>5, <1>7, <1>8, <1>9, <1>10

(* Announcements that travel were requested, if the new one was.           *)
LEMMA SendCommit ==
  ASSUME NEW box \in [Node -> SUBSET Datagram], NEW m \in Datagram,
         \A k \in Node : \A d \in box[k] : d.cmd = "SET" => d.path \in requested,
         m.cmd = "SET" => m.path \in requested,
         _send_message(box, m)
  PROVE  \A k \in Node : \A d \in inbox'[k] : d.cmd = "SET" => d.path \in requested
BY DEF _send_message

(* Starting, joining, stopping and dying invent no commit.                 *)
LEMMA InstanceCommit ==
  ASSUME TypeOK, CommitInv, NEW n \in Node,
         Start(n) \/ Join(n) \/ Stop(n) \/ Crash(n) \/ IdlePoll(n)
  PROVE  CommitInv'
<1>1. CASE Start(n) \/ Join(n) \/ Stop(n)
  BY <1>1 DEF Start, Join, Stop, CommitInv, NoSpuriousCommit, SetFrame, history
<1>2. CASE Gone(n)
  <2>1. /\ frame' = [frame EXCEPT ![n] = NoCall]
        /\ committed' = [committed EXCEPT ![n] = {}]
        /\ inbox' = [inbox EXCEPT ![n] = {}] /\ saw' = [saw EXCEPT ![n] = {}]
        /\ UNCHANGED <<tokens, requested>>
    BY <1>2 DEF Gone
  <2>2. \A k \in Node : SetFrame(frame[k])'
    BY <2>1 DEF CommitInv, SetFrame, NoCall, TypeOK
  <2>3. NoSpuriousCommit'
    BY <2>1 DEF CommitInv, NoSpuriousCommit, TypeOK
  <2> QED
    BY <2>2, <2>3 DEF CommitInv
<1> QED
  BY <1>1, <1>2 DEF Crash, IdlePoll

(* A listener records and passes on only what was requested.               *)
LEMMA ListenerCommit ==
  ASSUME TypeOK, CommitInv, NEW n \in Node, commit_listener(n)
  PROVE  CommitInv'
<1>1. PICK m \in inbox[n] : Reads(n, m)
  BY DEF commit_listener
<1> DEFINE rest == [inbox EXCEPT ![n] = @ \ {m}]
<1>2. rest \in [Node -> SUBSET Datagram] /\ m \in Datagram /\ m.path \in Path
  BY DEF TypeOK, Datagram
<1>3. \A k \in Node : \A d \in rest[k] : d.cmd = "SET" => d.path \in requested
  BY DEF CommitInv, NoSpuriousCommit, TypeOK
<1>4. UNCHANGED <<tokens, frame, requested, saw>>
  BY <1>1 DEF Reads, history
<1>5. \A k \in Node : committed'[k] \subseteq requested
  BY <1>1, <1>2 DEF Reads, CommitInv, NoSpuriousCommit, TypeOK
<1>6. \A k \in Node : \A d \in inbox'[k] : d.cmd = "SET" => d.path \in requested
  <2>1. \/ inbox' = rest
        \/ /\ _send_message(rest, [cmd |-> "SET", path |-> m.path])
           /\ m.path \in committed[n]
    BY <1>1 DEF Reads
  <2>2. m.path \in committed[n] => m.path \in requested
    BY DEF CommitInv, NoSpuriousCommit
  <2>3. [cmd |-> "SET", path |-> m.path] \in Datagram
    BY <1>2 DEF Datagram
  <2> HIDE DEF rest
  <2> QED
    BY <1>2, <1>3, <2>1, <2>2, <2>3, SendCommit
<1> QED
  BY <1>4, <1>5, <1>6 DEF CommitInv, NoSpuriousCommit, SetFrame

(* A call adds its own path to what was requested before it does anything. *)
LEMMA CallCommit ==
  ASSUME TypeOK, CommitInv, NEW n \in Node, Call(n)
  PROVE  CommitInv'
<1>1. PICK op \in {"setCommitted", "isCommitted"}, p \in Path :
        /\ frame' = [frame EXCEPT ![n] =
             [op |-> op, path |-> p, i |-> 1, at |-> First(op, Interfaces[1]),
              must |-> op = "isCommitted" /\ (Token[p] \in acked \/ p \in saw[n])]]
        /\ requested' = IF op = "setCommitted" THEN requested \cup {p}
                        ELSE requested
        /\ UNCHANGED <<local, committed, inbox, tokens, acked, saw>>
  BY DEF Call
<1>2. requested \subseteq requested' /\ (op = "setCommitted" => p \in requested')
  BY <1>1
<1> DEFINE l == First(op, Interfaces[1])
           b == op = "isCommitted" /\ (Token[p] \in acked \/ p \in saw[n])
           f == [op |-> op, path |-> p, i |-> 1, at |-> l, must |-> b]
<1>3. l \in {"send", "add", "check", "create"} => op = "setCommitted"
  BY DEF First
<1>4. frame' = [frame EXCEPT ![n] = f]
  BY <1>1
<1> HIDE DEF l, b
<1>5. f.op = op /\ f.path = p /\ f.at = l
  OBVIOUS
<1> HIDE DEF f
<1>6. \A k \in Node : SetFrame(frame[k])'
  BY <1>2, <1>3, <1>4, <1>5 DEF CommitInv, SetFrame, TypeOK
<1>7. NoSpuriousCommit'
  BY <1>1, <1>2 DEF CommitInv, NoSpuriousCommit
<1> QED
  BY <1>6, <1>7 DEF CommitInv

(* A step of a call announces, records and creates tokens only for paths   *)
(* that were requested, and says "yes" only on such evidence.              *)
LEMMA CallStepCommit ==
  ASSUME TypeOK, CommitInv, NEW n \in Node, CallStep(n)
  PROVE  CommitInv'
<1>1. /\ frame[n].path \in Path
      /\ committed \in [Node -> SUBSET Path] /\ inbox \in [Node -> SUBSET Datagram]
  BY DEF TypeOK, Frame
<1>2. /\ frame[n].at \in {"send", "add", "check", "create"} =>
           frame[n].path \in requested
      /\ frame[n].path \in committed[n] => frame[n].path \in requested
      /\ Token[frame[n].path] \in tokens =>
           \E q \in requested : Token[q] = Token[frame[n].path]
      /\ tokens \subseteq {Token[p] : p \in requested}
      /\ \A k \in Node : committed[k] \subseteq requested
      /\ \A k \in Node : \A d \in inbox[k] : d.cmd = "SET" => d.path \in requested
  BY DEF CommitInv, NoSpuriousCommit, SetFrame
<1>3. /\ requested' = requested
      /\ \A k \in Node : SetFrame(frame[k])'
      /\ \A k \in Node : \A p \in saw'[k] :
           \E q \in requested : Token[q] = Token[p]
  <2>1. \/ NextBackend(n)
        \/ Yes(n) /\ \E q \in requested : Token[q] = Token[frame[n].path]
        \/ Goto(n, "add") /\ frame[n].at = "send"
        \/ Goto(n, "create") /\ frame[n].at = "check"
        \/ \E l \in {"ask", "again"} : Goto(n, l)
        \/ Return(n, "throws") /\ UNCHANGED history
    BY <1>2 DEF CallStep, McastSet, McastIs, FsSet, FsIs, Throws,
                compute_capiocl_token_name
  <2> QED
    BY <2>1, WalkCommit
<1>4. \A k \in Node : \A d \in inbox'[k] : d.cmd = "SET" => d.path \in requested
  <2>1. \/ inbox' = inbox
        \/ /\ frame[n].at = "send"
           /\ _send_message(inbox, [cmd |-> "SET", path |-> frame[n].path])
        \/ _send_message(inbox, [cmd |-> "GET", path |-> frame[n].path])
    BY DEF CallStep, McastSet, McastIs, FsSet, FsIs, Throws
  <2>2. /\ [cmd |-> "SET", path |-> frame[n].path] \in Datagram
        /\ [cmd |-> "GET", path |-> frame[n].path] \in Datagram
    BY <1>1 DEF Datagram
  <2> QED
    BY <1>1, <1>2, <2>1, <2>2, SendCommit
<1>5. \A k \in Node : committed'[k] \subseteq requested
  <2>1. \/ committed' = committed
        \/ /\ frame[n].at = "add"
           /\ committed' = [committed EXCEPT ![n] = @ \cup {frame[n].path}]
    BY DEF CallStep, McastSet, McastIs, FsSet, FsIs, Throws
  <2> QED
    BY <1>1, <1>2, <2>1
<1>6. tokens' \subseteq {Token[p] : p \in requested}
  <2>1. \/ tokens' = tokens
        \/ frame[n].at = "create" /\ tokens' = tokens \cup {Token[frame[n].path]}
    BY DEF CallStep, McastSet, McastIs, FsSet, FsIs, Throws,
           compute_capiocl_token_name
  <2> QED
    BY <1>2, <2>1
<1> QED
  BY <1>3, <1>4, <1>5, <1>6 DEF CommitInv, NoSpuriousCommit

(* Every step keeps the inductive invariant.                               *)
LEMMA NextCommit == TypeOK /\ CommitInv /\ [Next]_vars => CommitInv'
<1>1. CommitInv /\ UNCHANGED vars => CommitInv'
  BY DEF CommitInv, NoSpuriousCommit, SetFrame, vars
<1>2. ASSUME TypeOK, CommitInv, Next PROVE CommitInv'
  BY <1>2, InstanceCommit, ListenerCommit, CallCommit, CallStepCommit DEF Next
<1> QED
  BY <1>1, <1>2

(* No instance ever records, announces, tokens or reports a commit that no *)
(* setCommitted asked for, however many nodes there are, whatever is lost, *)
(* late, failing or restarted.                                             *)
THEOREM NothingInvented == Spec => []NoSpuriousCommit
<1>1. CommitInv => NoSpuriousCommit
  BY DEF CommitInv
<1>2. Spec => []CommitInv
  <2>1. Spec => Init /\ [][Next]_vars
    BY DEF Spec
  <2> QED
    BY <2>1, InitCommit, NextCommit, MonitorTypeCorrect, PTL
<1> QED
  BY <1>1, <1>2, PTL

=============================================================================
