------------------------ MODULE CommitRegisterProofs ------------------------
(***************************************************************************)
(* The Monitor with its backends implements CommitRegister: the step that  *)
(* ends a call is a step the register allows, and every other step changes *)
(* nothing that the register shows.                                        *)
(***************************************************************************)
EXTENDS CommitMonitorProofs

(* Why a call may not say "no": where it still has to look.  A call that   *)
(* must say "yes" has found nothing in the multicast backend, so it is the *)
(* token that it will find; and what an instance has said "yes" to, it can *)
(* still find in the same two places.                                      *)
HasFs == Interfaces[Len(Interfaces)] = "fs"
Place(f) ==
  /\ f.at = "idle" => f.op = "none"
  /\ f.at \in {"send", "add"} => f.op = "setCommitted" /\ f.i = 1
  /\ f.at \in {"lookup", "ask", "again"} => f.op = "isCommitted" /\ f.i = 1
  /\ f.at \in {"check", "create"} =>
       f.op = "setCommitted" /\ f.i = Len(Interfaces) /\ HasFs
  /\ f.at = "exists" => f.op = "isCommitted" /\ f.i = Len(Interfaces) /\ HasFs
  /\ f.must => f.op = "isCommitted"
Evidence(n, p) == Token[p] \in tokens \/ p \in committed[n]
Must(n) == frame[n].must =>
             IF frame[n].at = "lookup" THEN Evidence(n, frame[n].path)
             ELSE Token[frame[n].path] \in tokens
RegisterInv ==
  /\ acked \subseteq tokens
  /\ ~ HasFs => tokens = {}
  /\ \A n \in Node : Place(frame[n]) /\ Must(n)
  /\ \A n \in Node : \A p \in saw[n] : Evidence(n, p)

(* What the register shows of a step.                                      *)
Shown == [Register!Next]_(Register!rvars)

(* It holds before anybody has called, and that is the empty register.     *)
LEMMA InitRegister == Init => RegisterInv /\ Register!Init
BY InterfacesFact DEF Init, RegisterInv, Place, Must, NoCall, Register!Init

-----------------------------------------------------------------------------
(* Steps that the register does not see.                                   *)

(* It shows only the calls, how they ended and the history.                *)
LEMMA StutterShown == UNCHANGED <<frame, ret, history>> => Shown
BY DEF Shown, Register!rvars, history

(* Tokens and what the instances have recorded may grow meanwhile.         *)
LEMMA GrowthKeeps ==
  ASSUME RegisterInv, UNCHANGED <<frame, acked, saw>>, tokens \subseteq tokens',
         \A k \in Node : committed[k] \subseteq committed'[k],
         ~ HasFs => tokens' = {}
  PROVE  RegisterInv'
<1>1. \A k \in Node : \A p : Evidence(k, p) => Evidence(k, p)'
  BY DEF Evidence
<1>2. \A k \in Node : Must(k)'
  BY <1>1 DEF RegisterInv, Must
<1>3. \A k \in Node : Place(frame[k])'
  BY DEF RegisterInv, Place
<1> QED
  BY <1>1, <1>2, <1>3 DEF RegisterInv

(* Starting, joining, stopping and dying: the register at most forgets     *)
(* what the instance knew.                                                 *)
LEMMA InstanceRegister ==
  ASSUME TypeOK, RegisterInv, NEW n \in Node,
         Start(n) \/ Join(n) \/ Stop(n) \/ Crash(n) \/ IdlePoll(n)
  PROVE  RegisterInv' /\ Shown
<1>1. CASE Start(n) \/ Join(n) \/ Stop(n)
  <2>1. UNCHANGED <<frame, ret, history, acked, saw, tokens, committed>>
    BY <1>1 DEF Start, Join, Stop, history
  <2>2. RegisterInv'
    BY <2>1, GrowthKeeps DEF RegisterInv
  <2> QED
    BY <2>1, <2>2, StutterShown
<1>2. CASE Gone(n)
  <2>1. /\ frame' = [frame EXCEPT ![n] = NoCall]
        /\ committed' = [committed EXCEPT ![n] = {}]
        /\ ret' = [ret EXCEPT ![n] = "none"] /\ saw' = [saw EXCEPT ![n] = {}]
        /\ UNCHANGED <<tokens, requested, acked>>
    BY <1>2 DEF Gone
  <2>2. /\ frame \in [Node -> Frame] /\ committed \in [Node -> SUBSET Path]
        /\ saw \in [Node -> SUBSET Path]
    BY DEF TypeOK
  <2>3. \A k \in Node : Place(frame[k])' /\ Must(k)'
    BY <2>1, <2>2 DEF RegisterInv, Place, Must, Evidence, NoCall
  <2>4. \A k \in Node : \A p \in saw'[k] : Evidence(k, p)'
    BY <2>1, <2>2 DEF RegisterInv, Evidence
  <2>5. RegisterInv'
    BY <2>1, <2>3, <2>4 DEF RegisterInv
  <2>6. Register!Forget(n)
    BY <2>1, <2>2 DEF Register!Forget
  <2> QED
    BY <2>5, <2>6 DEF Shown, Register!Next
<1> QED
  BY <1>1, <1>2 DEF Crash, IdlePoll

(* A listener only ever adds to what its instance has recorded.            *)
LEMMA ListenerRegister ==
  ASSUME TypeOK, RegisterInv, NEW n \in Node, commit_listener(n)
  PROVE  RegisterInv' /\ Shown
<1>1. PICK m \in inbox[n] : Reads(n, m)
  BY DEF commit_listener
<1>2. UNCHANGED <<frame, ret, history, acked, saw, tokens>>
  BY <1>1 DEF Reads, history
<1>3. \A k \in Node : committed[k] \subseteq committed'[k]
  BY <1>1 DEF Reads, TypeOK
<1>4. RegisterInv'
  BY <1>2, <1>3, GrowthKeeps DEF RegisterInv
<1> QED
  BY <1>2, <1>4, StutterShown

-----------------------------------------------------------------------------
(* Steps of a call.                                                        *)

(* What the register shows after a node's frame has been replaced.         *)
LEMMA CallsShown ==
  ASSUME TypeOK, NEW n \in Node, NEW f, frame' = [frame EXCEPT ![n] = f]
  PROVE  [k \in Node |-> CallOf(frame'[k])] =
           [[k \in Node |-> CallOf(frame[k])] EXCEPT ![n] = CallOf(f)]
BY DEF TypeOK

(* The calls that other nodes are in are kept, with what was said before.  *)
LEMMA OthersKept ==
  ASSUME TypeOK, RegisterInv, NEW n \in Node, NEW f,
         frame' = [frame EXCEPT ![n] = f], Place(f), tokens \subseteq tokens',
         \A k \in Node : committed[k] \subseteq committed'[k],
         ~ HasFs => tokens' = {}, acked' \subseteq tokens',
         Must(n)', \A k \in Node : \A p \in saw'[k] : Evidence(k, p)'
  PROVE  RegisterInv'
<1>1. frame'[n] = f /\ \A k \in Node \ {n} : frame'[k] = frame[k]
  BY DEF TypeOK
<1>2. \A k \in Node : Place(frame[k])'
  BY <1>1 DEF RegisterInv, Place
<1>3. \A k \in Node \ {n} : Must(k)'
  BY <1>1 DEF RegisterInv, Must, Evidence
<1> QED
  BY <1>2, <1>3 DEF RegisterInv

(* A call begins, and if it must say "yes" the evidence is there.          *)
LEMMA CallRegister ==
  ASSUME TypeOK, RegisterInv, NEW n \in Node, Call(n)
  PROVE  RegisterInv' /\ Shown
<1>1. PICK op \in {"setCommitted", "isCommitted"}, p \in Path :
        /\ frame[n] = NoCall
        /\ frame' = [frame EXCEPT ![n] =
             [op |-> op, path |-> p, i |-> 1, at |-> First(op, Interfaces[1]),
              must |-> op = "isCommitted" /\ (Token[p] \in acked \/ p \in saw[n])]]
        /\ ret' = [ret EXCEPT ![n] = "none"]
        /\ requested' = IF op = "setCommitted" THEN requested \cup {p}
                        ELSE requested
        /\ UNCHANGED <<committed, tokens, acked, saw>>
  BY DEF Call
<1> DEFINE l == First(op, Interfaces[1])
           b == op = "isCommitted" /\ (Token[p] \in acked \/ p \in saw[n])
           f == [op |-> op, path |-> p, i |-> 1, at |-> l, must |-> b]
<1>2. IF op = "setCommitted" THEN l = "send" ELSE l = "lookup"
  BY InterfacesFact DEF First
<1>3. frame' = [frame EXCEPT ![n] = f]
  BY <1>1
<1>4. b => op = "isCommitted" /\ Evidence(n, p)'
  BY <1>1 DEF RegisterInv, Evidence
<1>5. CallOf(f) = [op |-> op, path |-> p, must |-> b]
  BY DEF CallOf
<1>6. Register!Begin(n, op, p)
  <2>1. CallOf(frame[n]).op = "none"
    BY <1>1 DEF CallOf, NoCall
  <2>2. [k \in Node |-> CallOf(frame'[k])] =
          [[k \in Node |-> CallOf(frame[k])] EXCEPT ![n] =
             [op |-> op, path |-> p, must |-> b]]
    <3> HIDE DEF f, b
    <3> QED
      BY <1>3, <1>5, CallsShown
  <2> QED
    BY <1>1, <2>1, <2>2 DEF Register!Begin
<1> HIDE DEF l, b
<1>7. f.op = op /\ f.path = p /\ f.at = l /\ f.i = 1 /\ f.must = b
  OBVIOUS
<1> HIDE DEF f
<1>8. Place(f)
  BY <1>2, <1>4, <1>7 DEF Place
<1>9. frame'[n] = f
  BY <1>3 DEF TypeOK
<1>10. Must(n)'
  BY <1>2, <1>4, <1>7, <1>9 DEF Must
<1>11. \A k \in Node : \A q \in saw'[k] : Evidence(k, q)'
  BY <1>1 DEF RegisterInv, Evidence
<1>12. RegisterInv'
  BY <1>1, <1>3, <1>8, <1>10, <1>11, OthersKept DEF RegisterInv
<1> QED
  BY <1>6, <1>12 DEF Shown, Register!Next

(* The end of a call, as the register shows it.                            *)
LEMMA EndRegister ==
  ASSUME TypeOK, RegisterInv, NEW n \in Node, NEW v, Return(n, v),
         frame[n].op # "none", tokens \subseteq tokens',
         \A k \in Node : committed[k] \subseteq committed'[k],
         ~ HasFs => tokens' = {}, acked' \subseteq tokens',
         \A k \in Node : \A p \in saw'[k] : Evidence(k, p)'
  PROVE  RegisterInv' /\ Register!End(n, v)
<1>1. frame' = [frame EXCEPT ![n] = NoCall] /\ ret' = [ret EXCEPT ![n] = v]
  BY DEF Return
<1>2. frame'[n] = NoCall /\ Place(NoCall)
  BY <1>1 DEF TypeOK, Place, NoCall
<1>3. Must(n)'
  BY <1>2 DEF Must, NoCall
<1>4. RegisterInv'
  BY <1>1, <1>2, <1>3, OthersKept
<1>5. [k \in Node |-> CallOf(frame'[k])] =
        [[k \in Node |-> CallOf(frame[k])] EXCEPT ![n] = CallOf(NoCall)]
  BY <1>1, CallsShown
<1>6. CallOf(frame[n]).op # "none"
  BY DEF CallOf
<1>7. Register!End(n, v)
  BY <1>1, <1>5, <1>6 DEF Register!End
<1> QED
  BY <1>4, <1>7

(* A call that goes on: the register sees nothing of it.                   *)
LEMMA GoesOn ==
  ASSUME TypeOK, RegisterInv, NEW n \in Node, NEW f,
         frame' = [frame EXCEPT ![n] = f], UNCHANGED <<ret, history>>,
         f.op = frame[n].op, f.path = frame[n].path, f.must = frame[n].must,
         f.at # "lookup", Place(f), tokens \subseteq tokens',
         f.must => Token[f.path] \in tokens,
         \A k \in Node : committed[k] \subseteq committed'[k],
         ~ HasFs => tokens' = {}
  PROVE  RegisterInv' /\ Shown
<1>1. frame'[n] = f
  BY DEF TypeOK
<1>2. Must(n)'
  BY <1>1 DEF Must
<1>3. /\ acked' \subseteq tokens'
      /\ \A k \in Node : \A p \in saw'[k] : Evidence(k, p)'
  BY DEF RegisterInv, Evidence, history
<1>4. RegisterInv'
  BY <1>2, <1>3, OthersKept
<1>5. CallOf(f) = CallOf(frame[n])
  BY DEF CallOf
<1>6. [k \in Node |-> CallOf(frame'[k])] = [k \in Node |-> CallOf(frame[k])]
  BY <1>5, CallsShown
<1>7. UNCHANGED Register!rvars
  BY <1>6 DEF Register!rvars, history
<1> QED
  BY <1>4, <1>7 DEF Shown

(* The next label of the same backend.                                     *)
LEMMA GotoRegister ==
  ASSUME TypeOK, RegisterInv, NEW n \in Node,
         \/ frame[n].at = "send" /\ Goto(n, "add")
         \/ frame[n].at = "ask" /\ Goto(n, "again")
         \/ frame[n].at = "check" /\ Goto(n, "create")
         \/ /\ frame[n].at = "lookup" /\ Goto(n, "ask")
            /\ frame[n].path \notin committed[n],
         UNCHANGED <<tokens, committed>>
  PROVE  RegisterInv' /\ Shown
<1>1. PICK l \in {"add", "again", "create", "ask"} :
        /\ Goto(n, l)
        /\ l = "add" => frame[n].at = "send"
        /\ l = "again" => frame[n].at = "ask"
        /\ l = "create" => frame[n].at = "check"
        /\ l = "ask" => frame[n].at = "lookup" /\ frame[n].path \notin committed[n]
  OBVIOUS
<1> DEFINE f == [frame[n] EXCEPT !.at = l]
<1>2. frame' = [frame EXCEPT ![n] = f] /\ UNCHANGED <<ret, history>>
  BY <1>1 DEF Goto, TypeOK
<1>3. /\ f.op = frame[n].op /\ f.path = frame[n].path /\ f.at = l
      /\ f.i = frame[n].i /\ f.must = frame[n].must
  BY DEF TypeOK, Frame
<1> HIDE DEF f
<1>4. Place(frame[n]) /\ Must(n)
  BY DEF RegisterInv
<1>5. Place(f)
  BY <1>1, <1>3, <1>4 DEF Place
<1>6. f.must => Token[f.path] \in tokens
  BY <1>1, <1>3, <1>4 DEF Must, Evidence
<1>7. ~ HasFs => tokens' = {}
  BY DEF RegisterInv
<1> QED
  BY <1>1, <1>2, <1>3, <1>5, <1>6, <1>7, GoesOn

(* A backend is done: on to the next one, or the call ends with "done", or *)
(* with "no" where the register allows it.                                 *)
LEMMA NextBackendRegister ==
  ASSUME TypeOK, RegisterInv, NEW n \in Node, NextBackend(n),
         frame[n].at \in {"add", "again", "check", "create", "exists"},
         frame[n].at = "exists" => Token[frame[n].path] \notin tokens,
         tokens \subseteq tokens', ~ HasFs => tokens' = {},
         \A k \in Node : committed[k] \subseteq committed'[k]
  PROVE  RegisterInv' /\ Shown
<1>1. /\ Place(frame[n]) /\ Must(n) /\ acked \subseteq tokens
      /\ \A k \in Node : \A p \in saw[k] : Evidence(k, p)
      /\ ~ HasFs => tokens = {}
  BY DEF RegisterInv
<1>2. frame[n].must => Token[frame[n].path] \in tokens
  BY <1>1 DEF Must
<1>3. CASE frame[n].i < Len(Interfaces)
  <2>1. frame[n].i = 1 /\ Len(Interfaces) = 2 /\ Interfaces[2] = "fs"
    <3>1. frame[n].i = 1 \/ frame[n].i = Len(Interfaces)
      BY <1>1 DEF Place
    <3>2. ~ (2 < 2) /\ ~ (1 < 1) /\ Len(Interfaces) \in {1, 2}
      BY InterfacesFact
    <3>3. Len(Interfaces) = 2
      BY <1>3, <3>1, <3>2
    <3>4. frame[n].i = 1
      BY <1>3, <3>1, <3>2, <3>3
    <3> QED
      BY <3>3, <3>4, InterfacesFact
  <2> DEFINE l == First(frame[n].op, Interfaces[frame[n].i + 1])
             f == [frame[n] EXCEPT !.i = frame[n].i + 1, !.at = l]
  <2>2. frame' = [frame EXCEPT ![n] = f] /\ UNCHANGED <<ret, history>>
    BY <1>3 DEF NextBackend
  <2>3. IF frame[n].op = "setCommitted" THEN l = "check" ELSE l = "exists"
    BY <2>1 DEF First
  <2> HIDE DEF l
  <2>4. /\ f.op = frame[n].op /\ f.path = frame[n].path /\ f.at = l
        /\ f.i = 2 /\ f.must = frame[n].must
    BY <2>1 DEF TypeOK, Frame
  <2> HIDE DEF f
  <2>5. Place(f)
    BY <1>1, <2>1, <2>3, <2>4 DEF Place, HasFs
  <2> QED
    BY <1>2, <2>2, <2>3, <2>4, <2>5, GoesOn
<1>4. CASE ~ (frame[n].i < Len(Interfaces)) /\ frame[n].op = "setCommitted"
  <2>1. /\ Return(n, "done") /\ UNCHANGED <<requested, saw>>
        /\ acked' = IF Token[frame[n].path] \in tokens'
                    THEN acked \cup {Token[frame[n].path]} ELSE acked
    BY <1>4 DEF NextBackend, compute_capiocl_token_name
  <2>2. acked' \subseteq tokens'
    BY <1>1, <2>1
  <2>3. \A k \in Node : \A p \in saw'[k] : Evidence(k, p)'
    BY <1>1, <2>1 DEF Evidence
  <2>4. RegisterInv' /\ Register!End(n, "done")
    BY <1>4, <2>1, <2>2, <2>3, EndRegister
  <2>5. /\ [k \in Node |-> CallOf(frame[k])][n].op = "setCommitted"
        /\ [k \in Node |-> CallOf(frame[k])][n].path = frame[n].path
    BY <1>4 DEF CallOf
  <2>6. Register!Done(n)
    BY <2>1, <2>4, <2>5 DEF Register!Done
  <2> QED
    BY <2>4, <2>6 DEF Shown, Register!Next
<1>5. CASE ~ (frame[n].i < Len(Interfaces)) /\ frame[n].op # "setCommitted"
  <2>1. Return(n, "no") /\ UNCHANGED <<requested, acked, saw>>
    BY <1>5 DEF NextBackend, history
  <2>2. frame[n].op = "isCommitted" /\ frame[n].at \in {"again", "exists"}
    BY <1>1, <1>5 DEF Place
  <2>3. frame[n].at = "again" => ~ HasFs
    <3>1. frame[n].at = "again" => frame[n].i = 1
      BY <1>1 DEF Place
    <3>2. frame[n].at = "again" => Len(Interfaces) = 1
      BY <1>5, <3>1, InterfacesFact
    <3> QED
      BY <3>2, InterfacesFact DEF HasFs
  <2>4. ~ frame[n].must
    BY <1>1, <1>2, <2>2, <2>3
  <2>5. \A k \in Node : \A p \in saw'[k] : Evidence(k, p)'
    BY <1>1, <2>1 DEF Evidence
  <2>6. RegisterInv' /\ Register!End(n, "no")
    BY <1>1, <2>1, <2>2, <2>5, EndRegister
  <2>7. /\ [k \in Node |-> CallOf(frame[k])][n].op = "isCommitted"
        /\ ~ [k \in Node |-> CallOf(frame[k])][n].must
    BY <2>2, <2>4 DEF CallOf
  <2>8. Register!No(n)
    BY <2>1, <2>6, <2>7 DEF Register!No
  <2> QED
    BY <2>6, <2>8 DEF Shown, Register!Next
<1> QED
  BY <1>3, <1>4, <1>5

(* A call says "yes": somebody asked for that commit, and the instance can *)
(* find it again.                                                          *)
LEMMA YesRegister ==
  ASSUME TypeOK, RegisterInv, NEW n \in Node, Yes(n),
         frame[n].op = "isCommitted", Evidence(n, frame[n].path),
         \E q \in requested : Token[q] = Token[frame[n].path],
         UNCHANGED <<tokens, committed>>
  PROVE  RegisterInv' /\ Shown
<1>1. /\ Return(n, "yes") /\ UNCHANGED <<requested, acked>>
      /\ saw' = [saw EXCEPT ![n] = saw[n] \cup {frame[n].path}]
  BY DEF Yes
<1>2. \A k \in Node : \A p \in saw'[k] : Evidence(k, p)'
  BY <1>1 DEF RegisterInv, Evidence, TypeOK
<1>3. acked' \subseteq tokens' /\ (~ HasFs => tokens' = {})
  BY <1>1 DEF RegisterInv
<1>4. RegisterInv' /\ Register!End(n, "yes")
  BY <1>1, <1>2, <1>3, EndRegister
<1>5. /\ [k \in Node |-> CallOf(frame[k])][n].op = "isCommitted"
      /\ [k \in Node |-> CallOf(frame[k])][n].path = frame[n].path
  BY DEF CallOf
<1>6. Register!Yes(n)
  BY <1>1, <1>4, <1>5 DEF Register!Yes
<1> QED
  BY <1>4, <1>6 DEF Shown, Register!Next

(* Every step of a call.                                                   *)
LEMMA CallStepRegister ==
  ASSUME TypeOK, CommitInv, RegisterInv, NEW n \in Node, CallStep(n)
  PROVE  RegisterInv' /\ Shown
<1>1. /\ Place(frame[n]) /\ (~ HasFs => tokens = {})
      /\ acked \subseteq tokens /\ \A k \in Node : \A p \in saw[k] : Evidence(k, p)
      /\ committed \in [Node -> SUBSET Path]
  BY DEF RegisterInv, TypeOK
<1>2. /\ frame[n].path \in committed[n] => frame[n].path \in requested
      /\ Token[frame[n].path] \in tokens =>
           \E q \in requested : Token[q] = Token[frame[n].path]
  BY DEF CommitInv, NoSpuriousCommit
<1>3. CASE McastSet(n)
  <2>1. CASE frame[n].at = "send" /\ Goto(n, "add") /\ UNCHANGED <<tokens, committed>>
    BY <2>1, GotoRegister
  <2>2. CASE /\ frame[n].at = "add" /\ NextBackend(n) /\ UNCHANGED tokens
             /\ committed' = [committed EXCEPT ![n] = @ \cup {frame[n].path}]
    BY <1>1, <2>2, NextBackendRegister
  <2> QED
    BY <1>3, <2>1, <2>2 DEF McastSet
<1>4. CASE McastIs(n)
  <2>1. UNCHANGED <<tokens, committed>>
    BY <1>4 DEF McastIs
  <2>2. CASE frame[n].at \in {"lookup", "again"} /\ Yes(n) /\ frame[n].path \in committed[n]
    BY <1>1, <1>2, <2>1, <2>2, YesRegister DEF Place, Evidence
  <2>3. CASE \/ frame[n].at = "ask" /\ Goto(n, "again")
             \/ /\ frame[n].at = "lookup" /\ Goto(n, "ask")
                /\ frame[n].path \notin committed[n]
    BY <2>1, <2>3, GotoRegister
  <2>4. CASE frame[n].at = "again" /\ NextBackend(n)
    BY <1>1, <2>1, <2>4, NextBackendRegister
  <2> QED
    BY <1>4, <2>2, <2>3, <2>4 DEF McastIs
<1>5. CASE FsSet(n)
  <2>1. UNCHANGED committed
    BY <1>5 DEF FsSet
  <2>2. CASE frame[n].at = "check" /\ NextBackend(n) /\ UNCHANGED tokens
    BY <1>1, <2>1, <2>2, NextBackendRegister
  <2>3. CASE frame[n].at = "check" /\ Goto(n, "create") /\ UNCHANGED tokens
    BY <2>1, <2>3, GotoRegister
  <2>4. CASE frame[n].at = "create" /\ NextBackend(n) /\ tokens \subseteq tokens'
    <3>1. HasFs
      BY <1>1, <2>4 DEF Place
    <3> QED
      BY <2>1, <2>4, <3>1, NextBackendRegister
  <2> QED
    BY <1>5, <2>2, <2>3, <2>4 DEF FsSet
<1>6. CASE FsIs(n)
  <2>1. frame[n].at = "exists" /\ UNCHANGED <<tokens, committed>>
    BY <1>6 DEF FsIs
  <2>2. CASE Yes(n) /\ Token[frame[n].path] \in tokens
    BY <1>1, <1>2, <2>1, <2>2, YesRegister DEF Place, Evidence
  <2>3. CASE NextBackend(n) /\ Token[frame[n].path] \notin tokens
    BY <1>1, <2>1, <2>3, NextBackendRegister
  <2> QED
    BY <1>6, <2>2, <2>3 DEF FsIs, compute_capiocl_token_name
<1>7. CASE Throws(n)
  <2>1. /\ Return(n, "throws") /\ UNCHANGED <<tokens, committed, requested, acked, saw>>
        /\ frame[n].at \in {"send", "ask", "check", "create", "exists"}
    BY <1>7 DEF Throws, history
  <2>2. frame[n].op # "none"
    BY <1>1, <2>1 DEF Place
  <2>3. \A k \in Node : \A p \in saw'[k] : Evidence(k, p)'
    BY <1>1, <2>1 DEF Evidence
  <2>4. RegisterInv' /\ Register!End(n, "throws")
    BY <1>1, <2>1, <2>2, <2>3, EndRegister
  <2>5. Register!Fails(n)
    BY <2>1, <2>4 DEF Register!Fails
  <2> QED
    BY <2>4, <2>5 DEF Shown, Register!Next
<1> QED
  BY <1>3, <1>4, <1>5, <1>6, <1>7 DEF CallStep

-----------------------------------------------------------------------------
(* Every step keeps the invariant and is one that the register shows.      *)
LEMMA NextRegister ==
  TypeOK /\ CommitInv /\ RegisterInv /\ [Next]_vars => RegisterInv' /\ Shown
<1>1. ASSUME RegisterInv, UNCHANGED vars PROVE RegisterInv' /\ Shown
  <2>1. UNCHANGED <<frame, ret, history, acked, saw, tokens, committed>>
    BY <1>1 DEF vars, history
  <2>2. RegisterInv'
    BY <1>1, <2>1, GrowthKeeps DEF RegisterInv
  <2> QED
    BY <2>1, <2>2, StutterShown
<1>2. ASSUME TypeOK, CommitInv, RegisterInv, Next PROVE RegisterInv' /\ Shown
  BY <1>2, InstanceRegister, ListenerRegister, CallRegister, CallStepRegister
  DEF Next
<1> QED
  BY <1>1, <1>2

(* To its callers the Monitor with its backends is the register: for any   *)
(* number of nodes, spellings and calls, with any datagram lost or late,   *)
(* with sockets and disks that fail and instances that die, isCommitted    *)
(* says "yes" only of what some setCommitted named, and never says "no" of *)
(* a commit that was on the disk before, nor after it has said "yes".      *)
THEOREM MonitorIsRegister == Spec => RegisterSpec
<1>1. Spec => Init /\ [][Next]_vars
  BY DEF Spec
<1>2. Spec => []CommitInv
  BY <1>1, InitCommit, NextCommit, MonitorTypeCorrect, PTL
<1>3. Spec => []RegisterInv /\ [][Register!Next]_(Register!rvars)
  BY <1>1, <1>2, InitRegister, NextRegister, MonitorTypeCorrect, PTL DEF Shown
<1>4. Spec => Register!Init
  BY <1>1, InitRegister
<1> QED
  BY <1>3, <1>4 DEF RegisterSpec, Register!Spec

(* While a call is under way nothing has been returned.                    *)
Quiet == /\ ret \in [Node -> {"none", "done", "yes", "no", "throws"}]
         /\ \A n \in Node : frame[n].op # "none" => ret[n] = "none"

(* This follows from what the register shows, and so does that a call that *)
(* must say "yes" does not end with "no".                                  *)
LEMMA ShownQuiet ==
  ASSUME Quiet, Shown, NEW n \in Node
  PROVE  /\ frame'[n].op # "none" => ret'[n] = "none"
         /\ frame[n].op # "none" /\ frame[n].must => ret'[n] # "no"
<1> DEFINE calls_ == [k \in Node |-> CallOf(frame[k])]
           next_  == [k \in Node |-> CallOf(frame'[k])]
<1>1. /\ calls_[n].op = frame[n].op /\ calls_[n].must = frame[n].must
      /\ next_[n].op = frame'[n].op
  BY DEF CallOf
<1>2. CallOf(NoCall).op = "none"
  BY DEF CallOf, NoCall
<1>3. CASE UNCHANGED Register!rvars
  <2>1. next_ = calls_ /\ ret' = ret
    BY <1>3 DEF Register!rvars
  <2> HIDE DEF next_, calls_
  <2> QED
    BY <1>1, <2>1 DEF Quiet
<1>4. CASE Register!Next
  <2>1. PICK k \in Node :
          \/ Register!Forget(k) \/ Register!Done(k) \/ Register!Yes(k)
          \/ Register!No(k) \/ Register!Fails(k)
          \/ \E op \in {"setCommitted", "isCommitted"}, p \in Path :
               Register!Begin(k, op, p)
    BY <1>4 DEF Register!Next
  <2> DEFINE Moves(x, v) ==
        /\ next_ = [calls_ EXCEPT ![k] = x] /\ ret' = [ret EXCEPT ![k] = v]
        /\ x.op # "none" => v = "none"
        /\ v = "no" => ~ calls_[k].must
  <2>2. \E x, v : Moves(x, v)
    <3>1. CASE Register!Forget(k)
      <4>1. Moves(CallOf(NoCall), "none")
        BY <1>2, <3>1 DEF Register!Forget
      <4> QED
        BY <4>1
    <3>2. CASE Register!Done(k) \/ Register!Yes(k) \/ Register!No(k) \/ Register!Fails(k)
      <4>1. PICK v \in {"done", "yes", "no", "throws"} :
              Register!End(k, v) /\ (v = "no" => ~ calls_[k].must)
        BY <3>2 DEF Register!Done, Register!Yes, Register!No, Register!Fails
      <4>2. Moves(CallOf(NoCall), v)
        BY <1>2, <4>1 DEF Register!End
      <4> QED
        BY <4>2
    <3>3. CASE \E op \in {"setCommitted", "isCommitted"}, p \in Path :
                 Register!Begin(k, op, p)
      <4>1. \E x : Moves(x, "none")
        BY <3>3 DEF Register!Begin
      <4> QED
        BY <4>1
    <3> QED
      BY <2>1, <3>1, <3>2, <3>3
  <2>3. calls_ = [m \in Node |-> calls_[m]]
    OBVIOUS
  <2> HIDE DEF next_, calls_
  <2> QED
    BY <1>1, <2>2, <2>3 DEF Quiet
<1> QED
  BY <1>3, <1>4 DEF Shown

(* A commit that setCommitted has returned from and the disk has taken is  *)
(* seen by every isCommitted that begins later, on any node and under any  *)
(* spelling, and no instance takes back a "yes".                           *)
THEOREM CommitStays == Spec => CommitIsForGood
<1>1. Spec => Init /\ [][Next]_vars
  BY DEF Spec
<1>2. Spec => []CommitInv
  BY <1>1, InitCommit, NextCommit, MonitorTypeCorrect, PTL
<1>3. Spec => []RegisterInv
  BY <1>1, <1>2, InitRegister, NextRegister, MonitorTypeCorrect, PTL
<1>4. Init => Quiet
  BY DEF Init, Quiet, NoCall
<1>5. TypeOK' /\ Quiet /\ Shown => Quiet'
  BY ShownQuiet DEF Quiet, TypeOK
<1>6. RegisterInv /\ Quiet /\ Shown =>
        \A n \in Node : frame[n].must /\ frame[n] # frame'[n] => ret'[n] # "no"
  BY ShownQuiet DEF RegisterInv, Place
<1>7. Spec => []Quiet
  BY <1>1, <1>2, <1>3, <1>4, <1>5, NextRegister, MonitorTypeCorrect, PTL
<1>8. TypeOK /\ CommitInv /\ RegisterInv /\ Quiet /\ [Next]_vars =>
        [\A n \in Node : frame[n].must /\ frame[n] # frame'[n] => ret'[n] # "no"]_vars
  BY <1>6, NextRegister
<1> QED
  BY <1>1, <1>2, <1>3, <1>7, <1>8, MonitorTypeCorrect, PTL DEF CommitIsForGood

=============================================================================
