------------------------------ MODULE HomeNode ------------------------------
(***************************************************************************)
(* The home nodes of files, as the instances of CAPIO-CL on several nodes  *)
(* see them (src/Monitor.cpp, src/monitors/Multicast.cpp, src/monitors/    *)
(* FileSystem.cpp).  A node makes itself the home of a path (setHomeNode)  *)
(* and anyone asks for it (getHomeNode, which collects the answers of all  *)
(* backends).  Datagrams get lost and are read late and in any order;      *)
(* instances stop and crash; the token files survive.                      *)
(***************************************************************************)
EXTENDS Integers, Sequences

CONSTANTS
  Node,        (* nodes; a node is also its host name                      *)
  Path,        (* spellings of file names, as the callers give them        *)
  Token,       (* the token file a spelling leads to                       *)
  Words,       (* the words of a spelling: what its blanks separate        *)
  Interfaces,  (* the backends registered with the Monitor, in order       *)
  NoPath,      (* not a path                                               *)
  None,        (* NO_HOME_NODE, and no entry in a map                      *)
  Uncached,    (* the file system backend has not cached an answer         *)
  Empty,       (* a token file with nothing in it yet, and what it reads as*)
  Torn,        (* a string that is read while it is being assigned         *)
  MaxCalls,    (* bound: calls made on all nodes                           *)
  MaxStarts,   (* bound: instances started                                 *)
  SendFails,   (* TRUE: socket() may fail and throw                        *)
  DiskFails    (* TRUE: the shared file system may fail                    *)

Word == UNION {{Words[p][i] : i \in DOMAIN Words[p]} : p \in Path}

ASSUME HomeAssumption ==
  /\ Words \in [Path -> Seq(Word)] /\ \A p \in Path : Words[p] # <<>>
  /\ NoPath \notin Path /\ Interfaces \in {<<"mcast">>, <<"mcast", "fs">>}
  /\ None \notin {Uncached, Empty, Torn} /\ Uncached \notin {Empty, Torn}
  /\ Empty # Torn
  /\ {None, Uncached, Empty, Torn} \cap Node = {}
  /\ MaxCalls \in Nat /\ MaxStarts \in Nat
  /\ {SendFails, DiskFails} \subseteq BOOLEAN

VARIABLES
  phase,      (* of the node's instance: down, up, or in its destructor    *)
  listening,  (* its home_node_listener has joined the group and runs      *)
  home,       (* _home_nodes of its multicast backend                      *)
  writing,    (* the announcement the listener is assigning, lock held     *)
  inbox,      (* datagrams in the listener's socket                        *)
  cache,      (* _home_nodes of its file system backend                    *)
  tokens,     (* the home node token files that exist, and what they hold  *)
  frame,      (* the call its user thread is in                            *)
  ret,        (* what its last call returned                               *)
  calls, starts,
  claims,     (* history: <<node, path>> of every setHomeNode              *)
  settled     (* history: tokens that existed when a setHomeNode returned  *)

vars == <<phase, listening, home, writing, inbox, cache, tokens, frame, ret,
          calls, starts, claims, settled>>
local    == <<phase, listening, starts>>
history  == <<claims, settled>>
listener == <<home, writing, inbox>>

(* A datagram is text that the listener cuts up at the blanks: the second  *)
(* word is the path to it and the third, of an announcement, the node.     *)
Announcement(p, n) == [cmd |-> "SET", words |-> Append(Words[p], n)]
Question(p)        == [cmd |-> "GET", words |-> Words[p]]
PathIn(m) == m.words[1]
HostIn(m) == m.words[2]
Key == Path \cup {Words[p][1] : p \in Path}

NoCall == [op |-> "none", path |-> NoPath, i |-> 0,
           at |-> "idle", got |-> {}, must |-> FALSE]
NoReturn == [end |-> "none", path |-> NoPath, got |-> {}]

Init ==
  /\ phase = [n \in Node |-> "down"] /\ listening = [n \in Node |-> FALSE]
  /\ home = [n \in Node |-> [k \in Key |-> None]]
  /\ writing = [n \in Node |-> None] /\ inbox = [n \in Node |-> {}]
  /\ cache = [n \in Node |-> [p \in Path |-> Uncached]]
  /\ tokens = <<>>
  /\ frame = [n \in Node |-> NoCall] /\ ret = [n \in Node |-> NoReturn]
  /\ calls = 0 /\ starts = 0 /\ claims = {} /\ settled = {}

-----------------------------------------------------------------------------
(* The instance, as in CommitMonitor.                                      *)

Start(n) ==
  /\ phase[n] = "down" /\ starts < MaxStarts /\ starts' = starts + 1
  /\ phase' = [phase EXCEPT ![n] = "up"]
  /\ UNCHANGED <<listening, listener, cache, tokens, frame, ret, calls, history>>

(* incoming_socket_multicast: from now on datagrams reach the socket.      *)
Join(n) ==
  /\ phase[n] # "down" /\ ~ listening[n]
  /\ listening' = [listening EXCEPT ![n] = TRUE]
  /\ UNCHANGED <<phase, starts, listener, cache, tokens, frame, ret, calls,
                 history>>

Stop(n) ==
  /\ phase[n] = "up" /\ frame[n] = NoCall
  /\ phase' = [phase EXCEPT ![n] = "stopping"]
  /\ UNCHANGED <<listening, starts, listener, cache, tokens, frame, ret, calls,
                 history>>

Gone(n) ==
  /\ phase' = [phase EXCEPT ![n] = "down"]
  /\ listening' = [listening EXCEPT ![n] = FALSE]
  /\ home' = [home EXCEPT ![n] = [k \in Key |-> None]]
  /\ writing' = [writing EXCEPT ![n] = None]
  /\ inbox' = [inbox EXCEPT ![n] = {}]
  /\ cache' = [cache EXCEPT ![n] = [p \in Path |-> Uncached]]
  /\ frame' = [frame EXCEPT ![n] = NoCall]
  /\ ret' = [ret EXCEPT ![n] = NoReturn]
  /\ UNCHANGED <<starts, tokens, calls, history>>

(* A token that is open for writing stays as it is.                        *)
Crash(n) == phase[n] # "down" /\ Gone(n)

-----------------------------------------------------------------------------
(* The listener.                                                           *)

_send_message(box, m) ==
  \E R \in SUBSET {n \in Node : listening[n]} :
    inbox' = [n \in Node |-> IF n \in R THEN box[n] \cup {m} ELSE box[n]]

(* poll finds nothing to read: only now terminate is looked at.            *)
IdlePoll(n) ==
  /\ listening[n] /\ inbox[n] = {} /\ writing[n] = None
  /\ phase[n] = "stopping" /\ Gone(n)

(* An announcement replaces what the map holds, in the order of arrival.   *)
(* The assignment of another name is not one step for a caller that holds  *)
(* a reference to the string.                                              *)
Learns(n, m) ==
  IF home[n][PathIn(m)] \in {None, HostIn(m)}
  THEN home' = [home EXCEPT ![n][PathIn(m)] = HostIn(m)] /\ UNCHANGED writing
  ELSE /\ home' = [home EXCEPT ![n][PathIn(m)] = Torn]
       /\ writing' = [writing EXCEPT ![n] = m]

(* Seeded fault: whoever knows the path answers, and with its own name.    *)
ReadsAnswersForOthers(n, m) ==
  LET rest == [inbox EXCEPT ![n] = @ \ {m}]
  IN  /\ listening[n] /\ writing[n] = None /\ m \in inbox[n]
      /\ \/ m.cmd = "SET" /\ Learns(n, m) /\ inbox' = rest
         \/ /\ m.cmd = "GET" /\ UNCHANGED <<home, writing>>
            /\ IF home[n][PathIn(m)] # None
               THEN _send_message(rest, [cmd |-> "SET", words |-> <<PathIn(m), n>>])
               ELSE inbox' = rest
      /\ UNCHANGED <<local, cache, tokens, frame, ret, calls, history>>

(* A question is answered only by the home node itself.                    *)
Reads(n, m) ==
  LET rest == [inbox EXCEPT ![n] = @ \ {m}]
  IN  /\ listening[n] /\ writing[n] = None /\ m \in inbox[n]
      /\ \/ m.cmd = "SET" /\ Learns(n, m) /\ inbox' = rest
         \/ /\ m.cmd = "GET" /\ UNCHANGED <<home, writing>>
            /\ IF home[n][PathIn(m)] = n
               THEN _send_message(rest, [cmd |-> "SET", words |-> <<PathIn(m), n>>])
               ELSE inbox' = rest
      /\ UNCHANGED <<local, cache, tokens, frame, ret, calls, history>>

Written(n) ==
  /\ writing[n] # None /\ writing' = [writing EXCEPT ![n] = None]
  /\ home' = [home EXCEPT ![n][PathIn(writing[n])] = HostIn(writing[n])]
  /\ UNCHANGED <<local, inbox, cache, tokens, frame, ret, calls, history>>

home_node_listener(n) == Written(n) \/ \E m \in inbox[n] : Reads(n, m)

-----------------------------------------------------------------------------
(* The calls.  Monitor walks over all backends in order.                   *)

First(op, b) == IF op = "setHomeNode" THEN IF b = "mcast" THEN "send" ELSE "check"
                ELSE IF b = "mcast" THEN "lookup" ELSE "token"

(* "must": a setHomeNode that comes after the token was settled, or a      *)
(* getHomeNode after that which has no older answer in its cache.          *)
Call(n) ==
  \E op \in {"setHomeNode", "getHomeNode"}, p \in Path :
    /\ phase[n] = "up" /\ frame[n] = NoCall
    /\ calls < MaxCalls /\ calls' = calls + 1
    /\ frame' = [frame EXCEPT ![n] =
         [op |-> op, path |-> p, i |-> 1, at |-> First(op, Interfaces[1]),
          got |-> {}, must |-> /\ Token[p] \in settled
                               /\ op = "setHomeNode" \/ cache[n][p] = Uncached]]
    /\ ret' = [ret EXCEPT ![n] = NoReturn]
    /\ claims' = IF op = "setHomeNode" THEN claims \cup {<<n, p>>} ELSE claims
    /\ UNCHANGED <<local, listener, cache, tokens, settled>>

Return(n, end, p, got) ==
  /\ frame' = [frame EXCEPT ![n] = NoCall]
  /\ ret' = [ret EXCEPT ![n] = [end |-> end, path |-> p, got |-> got]]

(* Seeded fault: the token file is named after the path as given.          *)
TokenNamedAsGiven(p) == p
compute_capiocl_token_name(p) == Token[p]

(* The backend is done and has said v: to the next one, or to the end.     *)
NextBackend(n, v) ==
  LET got == frame[n].got \cup ({v} \ {None})
  IN  IF frame[n].i < Len(Interfaces)
      THEN /\ frame' = [frame EXCEPT ![n] =
                [frame[n] EXCEPT !.i = frame[n].i + 1, !.got = got,
                   !.at = First(frame[n].op, Interfaces[frame[n].i + 1])]]
           /\ UNCHANGED <<ret, history>>
      ELSE IF frame[n].op = "setHomeNode"
      THEN /\ Return(n, "done", NoPath, {}) /\ UNCHANGED claims
           /\ settled' = IF compute_capiocl_token_name(frame[n].path) \in DOMAIN tokens'
                         THEN settled \cup {Token[frame[n].path]} ELSE settled
      ELSE Return(n, "answer", frame[n].path, got) /\ UNCHANGED history

Goto(n, l) == /\ frame' = [frame EXCEPT ![n].at = l]
              /\ UNCHANGED <<ret, history>>

Unlocked(n) == writing[n] = None

(* MulticastMonitor::setHomeNode: announce, then record under the lock.    *)
McastSet(n) ==
  /\ UNCHANGED <<local, writing, cache, tokens, calls>>
  /\ \/ /\ frame[n].at = "send" /\ Goto(n, "add") /\ UNCHANGED home
        /\ _send_message(inbox, Announcement(frame[n].path, n))
     \/ /\ frame[n].at = "add" /\ Unlocked(n) /\ NextBackend(n, None)
        /\ home' = [home EXCEPT ![n][frame[n].path] = n] /\ UNCHANGED inbox

(* MulticastMonitor::getHomeNode: look, ask, sleep, look again.  What it   *)
(* returns is a reference into the map: Monitor reads the name through it  *)
(* after the lock has been released.                                       *)
McastGet(n) ==
  /\ UNCHANGED <<local, home, writing, cache, tokens, calls>>
  /\ \/ /\ frame[n].at = "lookup" /\ Unlocked(n) /\ UNCHANGED inbox
        /\ Goto(n, IF home[n][frame[n].path] = None THEN "ask" ELSE "deref")
     \/ /\ frame[n].at = "ask" /\ Goto(n, "again")
        /\ _send_message(inbox, Question(frame[n].path))
     \/ /\ frame[n].at = "again" /\ Unlocked(n) /\ UNCHANGED inbox
        /\ IF home[n][frame[n].path] = None THEN NextBackend(n, None)
           ELSE Goto(n, "deref")
     \/ /\ frame[n].at = "deref" /\ UNCHANGED inbox
        /\ NextBackend(n, home[n][frame[n].path])

(* A token file now holds v, and exists if it did not.                     *)
Puts(token, v) ==
  tokens' = [t \in DOMAIN tokens \cup {token} |->
               IF t = token THEN v ELSE tokens[t]]

(* generate_home_node_token: an existing token is left alone; otherwise    *)
(* the file is opened, which empties it, and the name is written.  Neither *)
(* an open nor a write that fails is noticed.  Seeded fault: the token is  *)
(* written whether or not it exists.                                       *)
FsSetWithoutCheck(n) ==
  LET token == compute_capiocl_token_name(frame[n].path)
  IN  /\ UNCHANGED <<local, listener, cache, calls>>
      /\ \/ frame[n].at = "check" /\ UNCHANGED tokens /\ Goto(n, "create")
         \/ /\ frame[n].at = "create"
            /\ Puts(token, Empty) /\ Goto(n, "write")
         \/ /\ frame[n].at = "write"
            /\ Puts(token, n) /\ NextBackend(n, None)
FsSet(n) ==
  LET token == compute_capiocl_token_name(frame[n].path)
  IN  /\ UNCHANGED <<local, listener, cache, calls>>
      /\ \/ /\ frame[n].at = "check" /\ UNCHANGED tokens
            /\ IF token \in DOMAIN tokens
               THEN NextBackend(n, None) ELSE Goto(n, "create")
         \/ /\ frame[n].at = "create"
            /\ \/ Puts(token, Empty) /\ Goto(n, "write")
               \/ DiskFails /\ UNCHANGED tokens /\ NextBackend(n, None)
         \/ /\ frame[n].at = "write"
            /\ \/ Puts(token, n)
               \/ DiskFails /\ UNCHANGED tokens
            /\ NextBackend(n, None)

(* FileSystemMonitor::getHomeNode, under its lock: what was cached, or what*)
(* the token holds (nothing, if it cannot be read); None is cached too.    *)
FsGet(n) ==
  LET p == frame[n].path
      token == compute_capiocl_token_name(p)
  IN  /\ frame[n].at = "token" /\ UNCHANGED <<local, listener, tokens, calls>>
      /\ \/ /\ cache[n][p] # Uncached /\ UNCHANGED cache
            /\ NextBackend(n, cache[n][p])
         \/ /\ cache[n][p] = Uncached
            /\ \E v \in IF token \notin DOMAIN tokens THEN {None}
                         ELSE {tokens[token]} \cup IF DiskFails THEN {Empty} ELSE {} :
                 /\ cache' = [cache EXCEPT ![n][p] = v]
                 /\ NextBackend(n, v)

(* socket() or the file system throws: the whole call ends.                *)
Throws(n) ==
  /\ \/ SendFails /\ frame[n].at \in {"send", "ask"}
     \/ DiskFails /\ frame[n].at \in {"check", "create"}
     \/ DiskFails /\ frame[n].at = "token" /\ cache[n][frame[n].path] = Uncached
  /\ Return(n, "throws", NoPath, {})
  /\ UNCHANGED <<local, listener, cache, tokens, calls, history>>

-----------------------------------------------------------------------------
CallStep(n) == McastSet(n) \/ McastGet(n) \/ FsSet(n) \/ FsGet(n) \/ Throws(n)

Next ==
  \E n \in Node :
    \/ Start(n) \/ Join(n) \/ Stop(n) \/ Crash(n) \/ IdlePoll(n)
    \/ home_node_listener(n) \/ Call(n) \/ CallStep(n)

Spec == Init /\ [][Next]_vars

-----------------------------------------------------------------------------
(* Properties.                                                             *)

Claimed(p) == {n \in Node : <<n, p>> \in claims}
Contested(p) == \E m, n \in Claimed(p) : m # n
ClaimedAs(t) == UNION {Claimed(p) : p \in {q \in Path : Token[q] = t}}

(* A path that no announcement of another one, with blanks in it, is taken *)
(* for by the listeners.                                                   *)
Plain(p) == \A q \in Path : Words[q][1] = p => q = p /\ Len(Words[q]) = 1

(* What may be said of path p: by the multicast backend, by a token file   *)
(* and whoever has cached it, and by a getHomeNode.                        *)
Known(p, v) == v \in Claimed(p) \/ (v = Torn /\ Contested(p))
OnDisk(t, v) == ClaimedAs(t) # {} /\ v \in ClaimedAs(t) \cup {Empty}
Answer(p, v) == Known(p, v) \/ OnDisk(Token[p], v)

(* Nobody is named as a home node who did not ask to be: what the maps and *)
(* caches hold, what is announced, what the token files say and what every *)
(* getHomeNode collects are nodes that claimed this path, or this file     *)
(* under another spelling.  An empty name comes only from a token that     *)
(* somebody claimed, and garbage only where two nodes claimed the path.    *)
(* For paths that are the first word of a path with blanks the multicast   *)
(* backend does not keep this.                                             *)
NoInventedHome ==
  /\ \A t \in DOMAIN tokens : OnDisk(t, tokens[t])
  /\ \A n \in Node :
       /\ \A p \in Path : Plain(p) => home[n][p] = None \/ Known(p, home[n][p])
       /\ \A p \in Path : cache[n][p] \in {None, Uncached}
                            \/ OnDisk(Token[p], cache[n][p])
       /\ \A m \in inbox[n] : m.cmd = "SET" /\ Plain(PathIn(m)) =>
            HostIn(m) \in Claimed(PathIn(m))
       /\ Plain(frame[n].path) =>
            \A v \in frame[n].got : Known(frame[n].path, v)
       /\ Plain(ret[n].path) => \A v \in ret[n].got : Answer(ret[n].path, v)

(* The home node that was there first stays: a setHomeNode that begins     *)
(* after another one has returned, with the token on the disk, does not    *)
(* touch the token, on whatever node and under whatever spelling.  (Two    *)
(* calls that overlap may both write it.)                                  *)
FirstClaimStays ==
  [][\A n \in Node :
       frame[n].op = "setHomeNode" /\ frame[n].must /\ frame[n] # frame'[n]
       => tokens' = tokens]_vars

(* A getHomeNode that begins after the token was put on the disk comes     *)
(* back with an answer, whatever datagrams were lost and whoever is gone,  *)
(* unless this instance has asked the file system before.                  *)
HomeIsFound ==
  [][\A n \in Node :
       /\ frame[n].op = "getHomeNode" /\ frame[n].must
       /\ frame[n] # frame'[n] /\ ret'[n].end = "answer"
       => ret'[n].got # {}]_vars

=============================================================================
