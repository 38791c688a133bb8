--------------------------- MODULE CommitRegister ---------------------------
(***************************************************************************)
(* What the Monitor promises its callers about commits, without backends,  *)
(* datagrams, tokens and instances: a register of files that only fills.   *)
(* A call takes effect somewhere between its beginning and its end and may *)
(* fail.  "yes" is only ever said of a file that some setCommitted named,  *)
(* under any spelling; "no" is not said of a file that was durably         *)
(* committed before the call began, nor by an instance that said "yes".    *)
(***************************************************************************)
CONSTANTS Node, Path, Token,
          Idle  (* no call: its op is "none" *)

VARIABLES
  requested,  (* paths given to some setCommitted                          *)
  durable,    (* files whose commit outlives the instance that made it     *)
  saw,        (* paths an instance has said "yes" to                       *)
  pending,    (* the call each node is in: [op, path, must]                *)
  ret         (* how the last call of each node ended                      *)

rvars == <<requested, durable, saw, pending, ret>>

Init ==
  /\ requested = {} /\ durable = {} /\ saw = [n \in Node |-> {}]
  /\ pending = [n \in Node |-> Idle] /\ ret = [n \in Node |-> "none"]

Begin(n, op, p) ==
  /\ ret' = [ret EXCEPT ![n] = "none"]
  /\ pending[n].op = "none"
  /\ pending' = [pending EXCEPT ![n] =
       [op |-> op, path |-> p,
        must |-> op = "isCommitted" /\ (Token[p] \in durable \/ p \in saw[n])]]
  /\ requested' = IF op = "setCommitted" THEN requested \cup {p} ELSE requested
  /\ UNCHANGED <<durable, saw>>

End(n, v) ==
  /\ ret' = [ret EXCEPT ![n] = v]
  /\ pending[n].op # "none"
  /\ pending' = [pending EXCEPT ![n] = Idle]

Done(n) ==
  /\ End(n, "done") /\ pending[n].op = "setCommitted"
  /\ durable' \in {durable, durable \cup {Token[pending[n].path]}}
  /\ UNCHANGED <<requested, saw>>

Yes(n) ==
  /\ End(n, "yes") /\ pending[n].op = "isCommitted"
  /\ \E q \in requested : Token[q] = Token[pending[n].path]
  /\ saw' = [saw EXCEPT ![n] = saw[n] \cup {pending[n].path}]
  /\ UNCHANGED <<requested, durable>>

No(n) ==
  /\ End(n, "no") /\ pending[n].op = "isCommitted" /\ ~ pending[n].must
  /\ UNCHANGED <<requested, durable, saw>>

Fails(n) == End(n, "throws") /\ UNCHANGED <<requested, durable, saw>>

(* The instance is gone; what it knew is forgotten, what was durable stays.*)
Forget(n) ==
  /\ ret' = [ret EXCEPT ![n] = "none"]
  /\ saw' = [saw EXCEPT ![n] = {}]
  /\ pending' = [pending EXCEPT ![n] = Idle]
  /\ UNCHANGED <<requested, durable>>

Next ==
  \E n \in Node :
    \/ Forget(n) \/ Done(n) \/ Yes(n) \/ No(n) \/ Fails(n)
    \/ \E op \in {"setCommitted", "isCommitted"}, p \in Path : Begin(n, op, p)

Spec == Init /\ [][Next]_rvars

=============================================================================
