--------------------------- MODULE HomeNodeProofs ---------------------------
(***************************************************************************)
(* The home nodes: nobody is named who did not ask, the first claim stays  *)
(* and a settled home node is found, for any number of nodes, paths and    *)
(* spellings, whatever is lost, delayed, torn or crashes.                  *)
(***************************************************************************)
EXTENDS HomeNode, TLAPS

-----------------------------------------------------------------------------
(* The inductive invariant.                                                *)

Name == Node \cup Key \cup Word \cup {None, Uncached, Empty, Torn}
Datagram == [cmd : {"SET", "GET"}, words : Seq(Name)]
Places == {"idle", "send", "add", "lookup", "ask", "again", "deref", "check",
           "create", "write", "token"}
Frame == [op : {"none", "setHomeNode", "getHomeNode"},
          path : Path \cup {NoPath}, i : {0, 1, 2}, at : Places,
          got : SUBSET Name, must : BOOLEAN]

(* The types the proofs need.                                              *)
Types ==
  /\ home \in [Node -> [Key -> Name]]
  /\ writing \in [Node -> Datagram \cup {None}]
  /\ inbox \in [Node -> SUBSET Datagram]
  /\ cache \in [Node -> [Path -> Name]]
  /\ frame \in [Node -> Frame]
  /\ ret \in [Node -> [end : {"none", "done", "answer", "throws"},
                       path : Path \cup {NoPath}, got : SUBSET Name]]

(* A call is in its method's part of the backend it has got to.            *)
Place(f) ==
  \/ f = NoCall
  \/ /\ f.path \in Path
     /\ \/ /\ f.i = 1
           /\ \/ f.op = "setHomeNode" /\ f.at \in {"send", "add"}
              \/ f.op = "getHomeNode" /\ f.at \in {"lookup", "ask", "again", "deref"}
        \/ /\ f.i = 2 /\ Len(Interfaces) = 2
           /\ \/ f.op = "setHomeNode" /\ f.at \in {"check", "create", "write"}
              \/ f.op = "getHomeNode" /\ f.at = "token"

(* A datagram names a path, and an announcement of a plain one somebody    *)
(* who claimed it.                                                         *)
Honest(m) ==
  /\ PathIn(m) \in Key
  /\ m.cmd = "SET" =>
       /\ HostIn(m) \in Name
       /\ Plain(PathIn(m)) => HostIn(m) \in Claimed(PathIn(m))

(* A call that began after its token was settled finds the token there: a  *)
(* setHomeNode has not gone past its check, a getHomeNode has no older     *)
(* answer to give.                                                         *)
MustHold(n, f) ==
  f.must => /\ Token[f.path] \in DOMAIN tokens
            /\ f.op = "setHomeNode" => f.at \in {"send", "add", "check"}
            /\ f.op = "getHomeNode" => cache[n][f.path] = Uncached

(* The multicast backend of node n, its file system backend, and the call. *)
MapsOK(n) ==
  /\ \A p \in Path : Plain(p) => home[n][p] = None \/ Known(p, home[n][p])
  /\ writing[n] # None => writing[n].cmd = "SET" /\ Honest(writing[n])
  /\ \A p \in Path : cache[n][p] \in {None, Uncached}
                       \/ OnDisk(Token[p], cache[n][p])
InboxOK(n) == \A m \in inbox[n] : Honest(m)
CallOK(n) ==
  /\ Place(frame[n])
  /\ frame[n].op = "setHomeNode" => <<n, frame[n].path>> \in claims
  /\ Plain(frame[n].path) => \A v \in frame[n].got : Known(frame[n].path, v)
  /\ MustHold(n, frame[n])
  /\ frame[n] # NoCall => ret[n] = NoReturn
  /\ Plain(ret[n].path) => \A v \in ret[n].got : Answer(ret[n].path, v)

(* The token files: claimed, there once settled, and none without the file *)
(* system backend.                                                         *)
DiskOK ==
  /\ \A t \in DOMAIN tokens : OnDisk(t, tokens[t])
  /\ settled \subseteq DOMAIN tokens
  /\ Len(Interfaces) = 1 => DOMAIN tokens = {}

HomeInv == /\ Types /\ DiskOK
           /\ \A n \in Node : MapsOK(n) /\ InboxOK(n) /\ CallOK(n)

-----------------------------------------------------------------------------
(* Constants and operators.                                                *)

(* The backends: multicast, and after it perhaps the file system.          *)
LEMMA InterfacesFact ==
  /\ Len(Interfaces) \in {1, 2} /\ Interfaces[1] = "mcast"
  /\ Len(Interfaces) = 2 => Interfaces[2] = "fs"
BY HomeAssumption

(* The words of a spelling, and what a plain first word means.             *)
LEMMA WordsFact ==
  ASSUME NEW p \in Path
  PROVE  /\ p \in Key /\ Words[p] \in Seq(Name) /\ Len(Words[p]) \in Nat \ {0}
         /\ Words[p][1] \in Key
         /\ Plain(Words[p][1]) => Words[p][1] = p /\ Len(Words[p]) = 1
<1>1. Words[p] \in Seq(Word) /\ Words[p] # <<>>
  BY HomeAssumption
<1>2. Words[p] \in Seq(Name) /\ Len(Words[p]) \in Nat \ {0}
  BY <1>1 DEF Name
<1> QED
  BY <1>2 DEF Key, Plain

(* Only a path is plain.                                                   *)
LEMMA PlainFact ==
  ASSUME NEW k \in Key, Plain(k)
  PROVE  k \in Path
BY DEF Key, Plain

(* An announcement and a question are datagrams; the listeners read a plain*)
(* path and the node off an announcement only if it is about that path.    *)
LEMMA DatagramFact ==
  ASSUME NEW p \in Path, NEW n \in Node
  PROVE  /\ Announcement(p, n) \in Datagram /\ Announcement(p, n).cmd = "SET"
         /\ PathIn(Announcement(p, n)) \in Key
         /\ HostIn(Announcement(p, n)) \in Name
         /\ Plain(PathIn(Announcement(p, n))) =>
              PathIn(Announcement(p, n)) = p /\ HostIn(Announcement(p, n)) = n
         /\ Question(p) \in Datagram /\ Question(p).cmd = "GET"
         /\ PathIn(Question(p)) \in Key
<1> DEFINE w == Words[p]
           a == Append(w, n)
<1>1. /\ w \in Seq(Name) /\ Len(w) \in Nat \ {0} /\ w[1] \in Key
      /\ Plain(w[1]) => w[1] = p /\ Len(w) = 1
  BY WordsFact
<1>2. n \in Name
  BY DEF Name
<1> HIDE DEF w
<1>3. /\ a \in Seq(Name) /\ a[1] = w[1] /\ Len(a) = Len(w) + 1
      /\ Len(w) = 1 => a[2] = n
  BY <1>1, <1>2
<1>4. a[2] \in Name
  BY <1>1, <1>3
<1> HIDE DEF a
<1>5. Announcement(p, n) = [cmd |-> "SET", words |-> a]
  BY DEF Announcement, a, w
<1>6. Question(p) = [cmd |-> "GET", words |-> w]
  BY DEF Question, w
<1> QED
  BY <1>1, <1>3, <1>4, <1>5, <1>6 DEF Datagram, PathIn, HostIn

(* The answer of a home node is a datagram.                                *)
LEMMA ReplyFact ==
  ASSUME NEW k \in Key, NEW n \in Node
  PROVE  LET r == [cmd |-> "SET", words |-> <<k, n>>]
         IN  /\ r \in Datagram /\ r.cmd = "SET"
             /\ PathIn(r) = k /\ HostIn(r) = n /\ n \in Name
BY DEF Datagram, PathIn, HostIn, Name

(* No call is a frame, at its place, and has nothing to answer for.        *)
LEMMA NoCallFact ==
  /\ NoCall \in Frame /\ Place(NoCall) /\ NoCall.op = "none"
  /\ NoCall.got = {} /\ ~ NoCall.must
  /\ NoReturn.got = {}
  /\ NoReturn \in [end : {"none", "done", "answer", "throws"},
                   path : Path \cup {NoPath}, got : SUBSET Name]
BY DEF NoCall, NoReturn, Frame, Places, Place

-----------------------------------------------------------------------------
(* Claims only become more.                                                *)

(* What was known stays known.                                             *)
LEMMA MoreClaims ==
  ASSUME claims \subseteq claims'
  PROVE  /\ \A p : Claimed(p) \subseteq Claimed(p)'
         /\ \A p, v : Known(p, v) => Known(p, v)'
         /\ \A t, v : OnDisk(t, v) => OnDisk(t, v)'
         /\ \A p, v : Answer(p, v) => Answer(p, v)'
         /\ \A m : Honest(m) => Honest(m)'
<1>1. \A p : Claimed(p) \subseteq Claimed(p)'
  BY DEF Claimed
<1>2. \A p, v : Known(p, v) => Known(p, v)'
  BY <1>1 DEF Known, Contested
<1>3. \A t : ClaimedAs(t) \subseteq ClaimedAs(t)'
  BY <1>1 DEF ClaimedAs
<1>4. \A t, v : OnDisk(t, v) => OnDisk(t, v)'
  BY <1>3 DEF OnDisk
<1>5. \A p, v : Answer(p, v) => Answer(p, v)'
  BY <1>2, <1>4 DEF Answer
<1>6. \A m : Honest(m) => Honest(m)'
  BY <1>1 DEF Honest
<1> QED
  BY <1>1, <1>2, <1>4, <1>5, <1>6

(* The maps of a node that nobody writes stay in order.                    *)
LEMMA MapsKept ==
  ASSUME NEW n \in Node, MapsOK(n), claims \subseteq claims',
         home'[n] = home[n], writing'[n] = writing[n], cache'[n] = cache[n]
  PROVE  MapsOK(n)'
BY MoreClaims DEF MapsOK

(* So does its socket if what arrives is honest.                           *)
LEMMA InboxKept ==
  ASSUME NEW n \in Node, InboxOK(n), claims \subseteq claims',
         \A m \in inbox'[n] : m \in inbox[n] \/ Honest(m)'
  PROVE  InboxOK(n)'
BY MoreClaims DEF InboxOK

(* So does its call while it waits.                                        *)
LEMMA CallKept ==
  ASSUME NEW n \in Node, CallOK(n), claims \subseteq claims',
         DOMAIN tokens \subseteq DOMAIN tokens',
         frame'[n] = frame[n], ret'[n] = ret[n], cache'[n] = cache[n]
  PROVE  CallOK(n)'
<1>1. /\ Place(frame[n])'
      /\ frame'[n] # NoCall => ret'[n] = NoReturn
      /\ frame'[n].op = "setHomeNode" => <<n, frame'[n].path>> \in claims'
  BY DEF CallOK, Place
<1>2. MustHold(n, frame[n])'
  BY DEF CallOK, MustHold
<1>3. Plain(frame[n].path)' =>
        \A v \in frame'[n].got : Known(frame[n].path, v)'
  BY MoreClaims DEF CallOK
<1>4. Plain(ret[n].path)' => \A v \in ret'[n].got : Answer(ret[n].path, v)'
  BY MoreClaims DEF CallOK
<1> QED
  BY <1>1, <1>2, <1>3, <1>4 DEF CallOK

(* The disk stays in order if nobody touches it.                           *)
LEMMA DiskKept ==
  ASSUME DiskOK, claims \subseteq claims', tokens' = tokens, settled' = settled
  PROVE  DiskOK'
BY MoreClaims DEF DiskOK

-----------------------------------------------------------------------------
(* One node at a time.                                                     *)

(* What a step of node n leaves alone of the others.                       *)
Others(n) ==
  \A k \in Node \ {n} :
    /\ home'[k] = home[k] /\ writing'[k] = writing[k]
    /\ cache'[k] = cache[k] /\ frame'[k] = frame[k] /\ ret'[k] = ret[k]

(* A step of node n keeps the invariant if it keeps its own part and the   *)
(* disk, and sends nothing dishonest.                                      *)
LEMMA OneNode ==
  ASSUME HomeInv, NEW n \in Node, Types', DiskOK', Others(n),
         claims \subseteq claims', DOMAIN tokens \subseteq DOMAIN tokens',
         \A k \in Node : \A m \in inbox'[k] : m \in inbox[k] \/ Honest(m)',
         MapsOK(n)', CallOK(n)'
  PROVE  HomeInv'
<1>1. ASSUME NEW k \in Node PROVE InboxOK(k)'
  BY InboxKept DEF HomeInv
<1>2. ASSUME NEW k \in Node, k # n PROVE MapsOK(k)' /\ CallOK(k)'
  <2>1. /\ home'[k] = home[k] /\ writing'[k] = writing[k]
        /\ cache'[k] = cache[k] /\ frame'[k] = frame[k] /\ ret'[k] = ret[k]
    BY <1>2 DEF Others
  <2> QED
    BY <2>1, MapsKept, CallKept DEF HomeInv
<1> QED
  BY <1>1, <1>2 DEF HomeInv

(* A datagram reaches sockets and changes nothing else in them.            *)
LEMMA SendFact ==
  ASSUME NEW box \in [Node -> SUBSET Datagram], NEW m \in Datagram,
         _send_message(box, m)
  PROVE  /\ inbox' \in [Node -> SUBSET Datagram]
         /\ \A k \in Node : \A x \in inbox'[k] : x \in box[k] \/ x = m
BY DEF _send_message

(* Starting, joining, stopping and dying keep the invariant.               *)
LEMMA InstanceStep ==
  ASSUME HomeInv, NEW n \in Node,
         Start(n) \/ Join(n) \/ Stop(n) \/ Crash(n) \/ IdlePoll(n)
  PROVE  HomeInv'
<1>1. CASE Start(n) \/ Join(n) \/ Stop(n)
  <2>1. UNCHANGED <<home, writing, inbox, cache, tokens, frame, ret, claims,
                    settled>>
    BY <1>1 DEF Start, Join, Stop, listener, history
  <2>2. Types' /\ DiskOK' /\ Others(n)
    BY <2>1, DiskKept DEF HomeInv, Types, Others
  <2>3. MapsOK(n)' /\ CallOK(n)'
    BY <2>1, MapsKept, CallKept DEF HomeInv
  <2> QED
    BY <2>1, <2>2, <2>3, OneNode
<1>2. CASE Gone(n)
  <2>1. /\ home' = [home EXCEPT ![n] = [k \in Key |-> None]]
        /\ writing' = [writing EXCEPT ![n] = None]
        /\ inbox' = [inbox EXCEPT ![n] = {}]
        /\ cache' = [cache EXCEPT ![n] = [p \in Path |-> Uncached]]
        /\ frame' = [frame EXCEPT ![n] = NoCall]
        /\ ret' = [ret EXCEPT ![n] = NoReturn]
        /\ UNCHANGED <<tokens, claims, settled>>
    BY <1>2 DEF Gone, history
  <2>2. Types
    BY DEF HomeInv
  <2>3. Types'
    BY <2>1, <2>2, NoCallFact DEF Types, Name
  <2>4. Others(n) /\ \A k \in Node : inbox'[k] \subseteq inbox[k]
    BY <2>1, <2>2 DEF Others, Types
  <2>5. DiskOK'
    BY <2>1, DiskKept DEF HomeInv
  <2>6. MapsOK(n)'
    <3>1. /\ \A p \in Path : home'[n][p] = None /\ cache'[n][p] = Uncached
          /\ writing'[n] = None
      BY <2>1, <2>2 DEF Types, Key
    <3> QED
      BY <3>1 DEF MapsOK
  <2>7. CallOK(n)'
    <3>1. frame'[n] = NoCall /\ ret'[n] = NoReturn
      BY <2>1, <2>2 DEF Types
    <3> QED
      BY <3>1, NoCallFact DEF CallOK, MustHold, Place
  <2> QED
    BY <2>1, <2>3, <2>4, <2>5, <2>6, <2>7, OneNode
<1> QED
  BY <1>1, <1>2 DEF Crash, IdlePoll

-----------------------------------------------------------------------------
(* The listener.                                                           *)

(* An entry of the multicast map may become what is known of its path.     *)
LEMMA HomeWrite ==
  ASSUME HomeInv, NEW n \in Node, NEW k \in Key, NEW v \in Name,
         home' = [home EXCEPT ![n][k] = v], Plain(k) => Known(k, v),
         claims \subseteq claims', cache'[n] = cache[n],
         writing'[n] # None => writing'[n].cmd = "SET" /\ Honest(writing[n])'
  PROVE  /\ home' \in [Node -> [Key -> Name]]
         /\ \A m \in Node \ {n} : home'[m] = home[m]
         /\ MapsOK(n)'
<1>1. Types /\ MapsOK(n)
  BY DEF HomeInv
<1>2. /\ home' \in [Node -> [Key -> Name]]
      /\ home'[n] = [home[n] EXCEPT ![k] = v]
      /\ \A m \in Node \ {n} : home'[m] = home[m]
  BY <1>1 DEF Types
<1>3. \A p \in Path : home'[n][p] = IF p = k THEN v ELSE home[n][p]
  BY <1>1, <1>2 DEF Types, Key
<1>4. ASSUME NEW p \in Path, Plain(p)
      PROVE  home'[n][p] = None \/ Known(p, home[n][p])'
  <2>1. \A x : Known(p, x) => Known(p, x)'
    BY MoreClaims
  <2>2. home'[n][p] = None \/ Known(p, home'[n][p])
    BY <1>1, <1>3, <1>4 DEF MapsOK
  <2> QED
    BY <2>1, <2>2
<1>5. \A p \in Path : cache'[n][p] \in {None, Uncached}
                        \/ OnDisk(Token[p], cache[n][p])'
  BY <1>1, MoreClaims DEF MapsOK
<1> QED
  BY <1>2, <1>4, <1>5 DEF MapsOK

(* The listener finishes an assignment.                                    *)
LEMMA WrittenStep ==
  ASSUME HomeInv, NEW n \in Node, Written(n)
  PROVE  HomeInv'
<1> DEFINE w == writing[n]
           k == PathIn(w)
           v == HostIn(w)
<1>1. /\ w # None
      /\ home' = [home EXCEPT ![n][k] = v]
      /\ writing' = [writing EXCEPT ![n] = None]
      /\ UNCHANGED <<inbox, cache, tokens, frame, ret, claims, settled>>
  BY DEF Written, history
<1>2. Types /\ MapsOK(n) /\ CallOK(n) /\ DiskOK
  BY DEF HomeInv
<1>3. k \in Key /\ v \in Name /\ (Plain(k) => Known(k, v))
  BY <1>1, <1>2 DEF MapsOK, Honest, Known
<1> HIDE DEF k, v, w
<1>4. writing'[n] = None
  BY <1>1, <1>2 DEF Types
<1>5. /\ home' \in [Node -> [Key -> Name]] /\ MapsOK(n)'
      /\ \A m \in Node \ {n} : home'[m] = home[m]
  BY <1>1, <1>3, <1>4, HomeWrite
<1>6. Types' /\ Others(n)
  BY <1>1, <1>2, <1>5 DEF Types, Others
<1>7. CallOK(n)' /\ DiskOK'
  BY <1>1, <1>2, CallKept, DiskKept
<1> QED
  BY <1>1, <1>5, <1>6, <1>7, OneNode

(* The listener takes a datagram.                                          *)
LEMMA ReadsStep ==
  ASSUME HomeInv, NEW n \in Node, NEW m \in inbox[n], Reads(n, m)
  PROVE  HomeInv'
<1> DEFINE rest == [inbox EXCEPT ![n] = inbox[n] \ {m}]
           k == PathIn(m)
           v == HostIn(m)
           reply == [cmd |-> "SET", words |-> <<k, n>>]
<1>1. Types /\ MapsOK(n) /\ CallOK(n) /\ DiskOK /\ Honest(m) /\ m \in Datagram
  BY DEF HomeInv, InboxOK, Types
<1>2. /\ UNCHANGED <<cache, tokens, frame, ret, claims, settled>>
      /\ writing[n] = None
  BY DEF Reads, history
<1>3. \/ m.cmd = "SET" /\ Learns(n, m) /\ inbox' = rest
      \/ /\ m.cmd = "GET" /\ UNCHANGED <<home, writing>>
         /\ \/ home[n][k] = n /\ _send_message(rest, reply)
            \/ inbox' = rest
  BY DEF Reads
<1>4. CallOK(n)' /\ DiskOK'
  BY <1>1, <1>2, CallKept, DiskKept
<1>5. rest \in [Node -> SUBSET Datagram] /\ \A j \in Node : rest[j] \subseteq inbox[j]
  BY <1>1 DEF Types
<1>6. k \in Key /\ \A x : Honest(x) => Honest(x)'
  BY <1>1, <1>2, MoreClaims DEF Honest
<1>7. CASE m.cmd = "SET" /\ Learns(n, m) /\ inbox' = rest
  <2>1. v \in Name /\ (Plain(k) => v \in Claimed(k))
    BY <1>1, <1>7 DEF Honest
  <2>2. PICK u \in Name, w \in Datagram \cup {None} :
          /\ home' = [home EXCEPT ![n][k] = u]
          /\ writing' = [writing EXCEPT ![n] = w]
          /\ Plain(k) => Known(k, u)
          /\ w = None \/ w = m
    <3>1. CASE home[n][k] \in {None, v}
      <4>1. home' = [home EXCEPT ![n][k] = v] /\ writing' = writing
        BY <1>7, <3>1 DEF Learns
      <4>2. writing' = [writing EXCEPT ![n] = None]
        BY <1>1, <1>2, <4>1 DEF Types
      <4>3. Plain(k) => Known(k, v)
        BY <2>1 DEF Known
      <4> QED
        BY <2>1, <4>1, <4>2, <4>3
    <3>2. CASE home[n][k] \notin {None, v}
      <4>1. /\ home' = [home EXCEPT ![n][k] = Torn]
            /\ writing' = [writing EXCEPT ![n] = m]
        BY <1>7, <3>2 DEF Learns
      <4>2. Plain(k) => Known(k, Torn)
        <5>1. Plain(k) => Known(k, home[n][k])
          BY <1>1, <1>6, <3>2, PlainFact DEF MapsOK
        <5> QED
          BY <2>1, <3>2, <5>1 DEF Known, Contested
      <4> QED
        BY <1>1, <4>1, <4>2 DEF Name
    <3> QED
      BY <3>1, <3>2
  <2>3. /\ writing' \in [Node -> Datagram \cup {None}] /\ writing'[n] = w
        /\ \A j \in Node \ {n} : writing'[j] = writing[j]
    BY <1>1, <2>2 DEF Types
  <2>4. writing'[n] # None => writing'[n].cmd = "SET" /\ Honest(writing[n])'
    BY <1>1, <1>6, <1>7, <2>2, <2>3
  <2>5. /\ home' \in [Node -> [Key -> Name]] /\ MapsOK(n)'
        /\ \A j \in Node \ {n} : home'[j] = home[j]
    BY <1>2, <1>6, <2>2, <2>4, HomeWrite
  <2>6. Types' /\ Others(n)
    BY <1>1, <1>2, <1>5, <1>7, <2>3, <2>5 DEF Types, Others
  <2> QED
    BY <1>2, <1>4, <1>5, <1>7, <2>5, <2>6, OneNode
<1>8. CASE m.cmd = "GET" /\ UNCHANGED <<home, writing>>
  <2>1. MapsOK(n)' /\ Others(n)
    BY <1>1, <1>2, <1>8, MapsKept DEF Others
  <2>2. CASE inbox' = rest
    <3>1. Types'
      BY <1>1, <1>2, <1>5, <1>8, <2>2 DEF Types
    <3> QED
      BY <1>2, <1>4, <1>5, <2>1, <2>2, <3>1, OneNode
  <2>3. CASE home[n][k] = n /\ _send_message(rest, reply)
    <3>1. /\ reply \in Datagram /\ reply.cmd = "SET"
          /\ PathIn(reply) = k /\ HostIn(reply) = n /\ n \in Name
      BY <1>6, ReplyFact
    <3>2. Plain(k) => n \in Claimed(k)
      <4>1. Plain(k) => Known(k, n)
        <5>1. n # None
          BY HomeAssumption
        <5> QED
          BY <1>1, <1>6, <2>3, <5>1, PlainFact DEF MapsOK
      <4>2. n # Torn
        BY HomeAssumption
      <4> QED
        BY <4>1, <4>2 DEF Known
    <3>3. Honest(reply)
      BY <1>6, <3>1, <3>2 DEF Honest
    <3> HIDE DEF reply, rest
    <3>4. /\ inbox' \in [Node -> SUBSET Datagram]
          /\ \A j \in Node : \A x \in inbox'[j] : x \in rest[j] \/ x = reply
      BY <1>5, <2>3, <3>1, SendFact
    <3>5. Types'
      BY <1>1, <1>2, <1>8, <3>4 DEF Types
    <3>6. \A j \in Node : \A x \in inbox'[j] : x \in inbox[j] \/ Honest(x)'
      BY <1>5, <1>6, <3>3, <3>4
    <3> QED
      BY <1>2, <1>4, <2>1, <3>5, <3>6, OneNode
  <2> QED
    BY <1>3, <1>8, <2>2, <2>3
<1> QED
  BY <1>3, <1>7, <1>8

-----------------------------------------------------------------------------
(* The calls.                                                              *)

(* A user thread begins a call.                                            *)
LEMMA CallStart ==
  ASSUME HomeInv, NEW n \in Node, Call(n)
  PROVE  HomeInv'
<1>1. PICK op \in {"setHomeNode", "getHomeNode"}, p \in Path :
        /\ frame[n] = NoCall
        /\ frame' = [frame EXCEPT ![n] =
             [op |-> op, path |-> p, i |-> 1, at |-> First(op, Interfaces[1]),
              got |-> {}, must |-> /\ Token[p] \in settled
                                   /\ op = "setHomeNode" \/ cache[n][p] = Uncached]]
        /\ ret' = [ret EXCEPT ![n] = NoReturn]
        /\ claims' = IF op = "setHomeNode" THEN claims \cup {<<n, p>>} ELSE claims
        /\ UNCHANGED <<home, writing, inbox, cache, tokens, settled>>
  BY DEF Call, listener
<1> DEFINE must == Token[p] \in settled /\ (op = "setHomeNode" \/ cache[n][p] = Uncached)
           at == First(op, "mcast")
           f == [op |-> op, path |-> p, i |-> 1, at |-> at, got |-> {}, must |-> must]
<1>2. Types /\ MapsOK(n) /\ DiskOK
  BY DEF HomeInv
<1>3. at = IF op = "setHomeNode" THEN "send" ELSE "lookup"
  BY DEF First
<1>4. must \in BOOLEAN
  OBVIOUS
<1>5. frame' = [frame EXCEPT ![n] = f]
  BY <1>1, InterfacesFact
<1> HIDE DEF must, at
<1>6. /\ f \in Frame /\ f.op = op /\ f.path = p /\ f.i = 1 /\ f.at = at
      /\ f.got = {} /\ f.must = must
  BY <1>3, <1>4 DEF Frame, Places
<1> HIDE DEF f
<1>7. frame' \in [Node -> Frame] /\ frame'[n] = f /\ ret'[n] = NoReturn
  <2>1. frame' \in [Node -> Frame] /\ frame'[n] = f
    BY <1>2, <1>5, <1>6 DEF Types
  <2>2. ret'[n] = NoReturn
    BY <1>1, <1>2 DEF Types
  <2> QED
    BY <2>1, <2>2
<1>8. Types'
  BY <1>1, <1>2, <1>7, NoCallFact DEF Types
<1>9. Others(n) /\ claims \subseteq claims'
  BY <1>1, <1>2, <1>5 DEF Others, Types
<1>10. DiskOK' /\ MapsOK(n)'
  BY <1>1, <1>2, <1>9, DiskKept, MapsKept
<1>11. CallOK(n)'
  <2>1. Place(f)
    BY <1>3, <1>6 DEF Place
  <2>2. f.op = "setHomeNode" => <<n, f.path>> \in claims'
    BY <1>1, <1>6
  <2>3. must => Token[p] \in DOMAIN tokens'
    BY <1>1, <1>2 DEF must, DiskOK
  <2>4. must /\ op = "getHomeNode" => cache'[n][p] = Uncached
    BY <1>1 DEF must
  <2>5. MustHold(n, frame[n])'
    BY <1>3, <1>6, <1>7, <2>3, <2>4 DEF MustHold
  <2>6. Place(frame[n])'
    BY <1>7, <2>1 DEF Place
  <2> QED
    BY <1>6, <1>7, <2>2, <2>5, <2>6, NoCallFact DEF CallOK
<1> QED
  BY <1>1, <1>8, <1>9, <1>10, <1>11, OneNode

(* A call that is not over is in one of the backends.                      *)
LEMMA InCall ==
  ASSUME HomeInv, NEW n \in Node, frame[n].at # "idle"
  PROVE  /\ frame[n] # NoCall /\ frame[n] \in Frame /\ frame[n].path \in Path
         /\ frame[n].path \in Key
         /\ frame[n].at \in {"send", "add", "lookup", "ask", "again", "deref"} =>
              frame[n].i = 1
         /\ frame[n].at \in {"check", "create", "write", "token"} =>
              frame[n].i = 2 /\ Len(Interfaces) = 2
         /\ frame[n].at \in {"send", "add", "check", "create", "write"} =>
              frame[n].op = "setHomeNode" /\ <<n, frame[n].path>> \in claims
         /\ frame[n].at \in {"lookup", "ask", "again", "deref", "token"} =>
              frame[n].op = "getHomeNode"
         /\ ret[n] = NoReturn
<1>1. frame[n] \in Frame /\ CallOK(n)
  BY DEF HomeInv, Types
<1>2. NoCall.at = "idle"
  BY DEF NoCall
<1> QED
  BY <1>1, <1>2 DEF CallOK, Place, Key

(* A call goes on in the same backend.                                     *)
LEMMA GotoFact ==
  ASSUME HomeInv, NEW n \in Node, NEW l \in Places, Goto(n, l),
         frame[n].at # "idle", Place([frame[n] EXCEPT !.at = l]),
         frame[n].op = "setHomeNode" /\ frame[n].must => l \in {"add", "check"},
         cache'[n] = cache[n], DOMAIN tokens \subseteq DOMAIN tokens'
  PROVE  /\ frame' \in [Node -> Frame] /\ ret' = ret
         /\ \A k \in Node \ {n} : frame'[k] = frame[k]
         /\ claims' = claims /\ settled' = settled
         /\ CallOK(n)'
<1> DEFINE f == [frame[n] EXCEPT !.at = l]
<1>1. Types /\ CallOK(n)
  BY DEF HomeInv
<1>2. frame[n] \in Frame /\ frame[n] # NoCall /\ ret[n] = NoReturn
  BY InCall
<1>3. /\ frame' = [frame EXCEPT ![n] = f] /\ ret' = ret
      /\ claims' = claims /\ settled' = settled
  BY <1>1 DEF Goto, history, Types
<1>4. /\ f \in Frame /\ f.at = l /\ f.op = frame[n].op /\ f.path = frame[n].path
      /\ f.got = frame[n].got /\ f.must = frame[n].must
  BY <1>2 DEF Frame
<1>5. Place(f)
  OBVIOUS
<1> HIDE DEF f
<1>6. /\ frame' \in [Node -> Frame] /\ frame'[n] = f
      /\ \A k \in Node \ {n} : frame'[k] = frame[k]
  BY <1>1, <1>3, <1>4 DEF Types
<1>7. CallOK(n)'
  <2>1. MustHold(n, frame[n])'
    BY <1>1, <1>4, <1>6 DEF CallOK, MustHold
  <2>2. Plain(frame[n].path)' =>
          \A v \in frame'[n].got : Known(frame[n].path, v)'
    BY <1>1, <1>3, <1>4, <1>6, MoreClaims DEF CallOK
  <2>3. frame'[n].op = "setHomeNode" => <<n, frame'[n].path>> \in claims'
    BY <1>1, <1>3, <1>4, <1>6 DEF CallOK
  <2>4. Place(frame[n])'
    BY <1>5, <1>6 DEF Place
  <2> QED
    BY <1>2, <1>3, <2>1, <2>2, <2>3, <2>4, NoCallFact DEF CallOK
<1> QED
  BY <1>3, <1>6, <1>7

(* A call ends.                                                            *)
LEMMA ReturnFact ==
  ASSUME HomeInv, NEW n \in Node, NEW end \in {"none", "done", "answer", "throws"},
         NEW p \in Path \cup {NoPath}, NEW got \in SUBSET Name,
         Return(n, end, p, got), claims' = claims,
         Plain(p) => \A v \in got : Answer(p, v)
  PROVE  /\ Types => /\ frame' \in [Node -> Frame]
                     /\ ret' \in [Node -> [end : {"none", "done", "answer", "throws"},
                                           path : Path \cup {NoPath}, got : SUBSET Name]]
         /\ \A k \in Node \ {n} : frame'[k] = frame[k] /\ ret'[k] = ret[k]
         /\ frame'[n] = NoCall /\ ret'[n] = [end |-> end, path |-> p, got |-> got]
         /\ CallOK(n)'
<1> DEFINE r == [end |-> end, path |-> p, got |-> got]
<1>1. Types
  BY DEF HomeInv
<1>2. frame' = [frame EXCEPT ![n] = NoCall] /\ ret' = [ret EXCEPT ![n] = r]
  BY DEF Return
<1>3. /\ r \in [end : {"none", "done", "answer", "throws"},
                path : Path \cup {NoPath}, got : SUBSET Name]
      /\ r.path = p /\ r.got = got
  OBVIOUS
<1> HIDE DEF r
<1>4. frame'[n] = NoCall /\ ret'[n] = r
  BY <1>1, <1>2 DEF Types
<1>5. Plain(r.path) => \A v \in r.got : Answer(r.path, v)'
  BY <1>3, MoreClaims
<1>6. CallOK(n)'
  BY <1>4, <1>5, NoCallFact DEF CallOK, MustHold, Place
<1>7. /\ frame' \in [Node -> Frame]
      /\ ret' \in [Node -> [end : {"none", "done", "answer", "throws"},
                            path : Path \cup {NoPath}, got : SUBSET Name]]
      /\ \A k \in Node \ {n} : frame'[k] = frame[k] /\ ret'[k] = ret[k]
  BY <1>1, <1>2, <1>3, NoCallFact DEF Types
<1> QED
  BY <1>4, <1>6, <1>7 DEF r

(* What a step of node n's call does.                                      *)
CallMoves(n) ==
  /\ frame' \in [Node -> Frame]
  /\ ret' \in [Node -> [end : {"none", "done", "answer", "throws"},
                        path : Path \cup {NoPath}, got : SUBSET Name]]
  /\ \A k \in Node \ {n} : frame'[k] = frame[k] /\ ret'[k] = ret[k]
  /\ claims' = claims
  /\ settled' \subseteq settled \cup DOMAIN tokens'
  /\ CallOK(n)'

(* A call goes on to the next backend or comes back with what it has: what *)
(* the last backend says may come off the disk, what an earlier one says   *)
(* is known.                                                               *)
LEMMA NextBackendFact ==
  ASSUME HomeInv, NEW n \in Node, NEW v \in Name, NextBackend(n, v),
         frame[n].at # "idle",
         Plain(frame[n].path) =>
           \/ v = None \/ Known(frame[n].path, v)
           \/ frame[n].i = Len(Interfaces) /\ Answer(frame[n].path, v),
         cache'[n] = cache[n] \/ frame[n].i = Len(Interfaces),
         DOMAIN tokens \subseteq DOMAIN tokens'
  PROVE  CallMoves(n)
<1> DEFINE got == frame[n].got \cup ({v} \ {None})
           p == frame[n].path
<1>1. Types /\ CallOK(n)
  BY DEF HomeInv
<1>2. frame[n] \in Frame /\ p \in Path /\ ret[n] = NoReturn
  BY InCall
<1>3. got \in SUBSET Name
  BY <1>2 DEF Frame
<1>4. /\ frame[n].i < Len(Interfaces) =>
           frame[n].i = 1 /\ Len(Interfaces) = 2 /\ Interfaces[2] = "fs"
      /\ ~ (frame[n].i < Len(Interfaces)) => frame[n].i = Len(Interfaces)
  <2>1. frame[n].i = 1 \/ (frame[n].i = 2 /\ Len(Interfaces) = 2)
    BY <1>1, InCall DEF CallOK, Place
  <2> DEFINE len == Len(Interfaces)
             i == frame[n].i
  <2>2. len \in {1, 2} /\ (i = 1 \/ (i = 2 /\ len = 2))
    BY <2>1, InterfacesFact
  <2> HIDE DEF len, i
  <2>3. (i < len => i = 1 /\ len = 2) /\ (~ (i < len) => i = len)
    BY <2>2
  <2> QED
    BY <2>3, InterfacesFact DEF len, i
<1>5. CASE frame[n].i < Len(Interfaces)
  <2> DEFINE f == [frame[n] EXCEPT !.i = 2, !.got = got, !.at = First(frame[n].op, "fs")]
  <2>1. /\ frame' = [frame EXCEPT ![n] = f]
        /\ ret' = ret /\ claims' = claims /\ settled' = settled
    <3>1. frame[n].i + 1 = 2
      BY <1>4, <1>5
    <3> QED
      BY <1>4, <1>5, <3>1 DEF NextBackend, history
  <2>2. First(frame[n].op, "fs") = IF frame[n].op = "setHomeNode" THEN "check" ELSE "token"
    BY DEF First
  <2>3. frame[n].op \in {"setHomeNode", "getHomeNode"}
    BY <1>1, InCall DEF CallOK, Place
  <2> HIDE DEF got
  <2>4. /\ f \in Frame /\ f.i = 2 /\ f.got = got /\ f.path = p
        /\ f.op = frame[n].op /\ f.must = frame[n].must
        /\ f.at = IF f.op = "setHomeNode" THEN "check" ELSE "token"
    BY <1>2, <1>3, <2>2 DEF Frame, Places
  <2> HIDE DEF f
  <2>5. /\ frame' \in [Node -> Frame] /\ frame'[n] = f
        /\ \A k \in Node \ {n} : frame'[k] = frame[k]
    BY <1>1, <2>1, <2>4 DEF Types
  <2>6. Place(frame[n])'
    BY <1>2, <1>4, <1>5, <2>3, <2>4, <2>5 DEF Place
  <2>7. cache'[n] = cache[n]
    BY <1>5, InterfacesFact, <1>4
  <2>8. MustHold(n, frame[n])'
    BY <1>1, <2>4, <2>5, <2>7 DEF CallOK, MustHold
  <2>9. Plain(frame[n].path)' =>
          \A x \in frame'[n].got : Known(frame[n].path, x)'
    <3>1. frame[n].i # Len(Interfaces)
      BY <1>4, <1>5
    <3>2. Plain(p) => \A x \in got : Known(p, x)
      BY <1>1, <3>1 DEF CallOK, got
    <3>3. \A x : Known(p, x) => Known(p, x)'
      <4>1. \A q, x : Known(q, x) => Known(q, x)'
        BY <2>1, MoreClaims
      <4>2. p' = p
        BY <2>4, <2>5
      <4> QED
        BY <4>1, <4>2
    <3> QED
      BY <2>4, <2>5, <3>2, <3>3
  <2>10. frame'[n].op = "setHomeNode" => <<n, frame'[n].path>> \in claims'
    BY <1>1, <2>1, <2>4, <2>5 DEF CallOK
  <2>11. CallOK(n)'
    BY <1>2, <2>1, <2>6, <2>8, <2>9, <2>10, NoCallFact DEF CallOK
  <2> QED
    BY <1>1, <2>1, <2>5, <2>11 DEF Types, CallMoves
<1>6. CASE ~ (frame[n].i < Len(Interfaces)) /\ frame[n].op = "setHomeNode"
  <2>1. /\ Return(n, "done", NoPath, {}) /\ claims' = claims
        /\ settled' = IF Token[p] \in DOMAIN tokens'
                      THEN settled \cup {Token[p]} ELSE settled
    BY <1>6 DEF NextBackend, compute_capiocl_token_name
  <2>2. settled' \subseteq settled \cup DOMAIN tokens'
    BY <2>1
  <2> DEFINE none == {}
             done == "done"
  <2>3. /\ none \in SUBSET Name /\ done \in {"none", "done", "answer", "throws"}
        /\ NoPath \in Path \cup {NoPath} /\ \A x \in none : Answer(NoPath, x)
        /\ Return(n, done, NoPath, none)
    BY <2>1
  <2> HIDE DEF none, done
  <2> QED
    BY <1>1, <2>1, <2>2, <2>3, ReturnFact DEF CallMoves
<1>7. CASE ~ (frame[n].i < Len(Interfaces)) /\ frame[n].op # "setHomeNode"
  <2>1. Return(n, "answer", p, got) /\ claims' = claims /\ settled' = settled
    BY <1>7 DEF NextBackend, history
  <2>2. Plain(p) => \A x \in got : Answer(p, x)
    BY <1>1 DEF CallOK, Answer
  <2> HIDE DEF got
  <2> QED
    BY <1>1, <1>2, <1>3, <2>1, <2>2, ReturnFact DEF CallMoves
<1> QED
  BY <1>5, <1>6, <1>7

-----------------------------------------------------------------------------
(* The steps of a call.                                                    *)

(* The disk stays in order if at most another token is settled.            *)
LEMMA DiskSettles ==
  ASSUME DiskOK, claims' = claims, tokens' = tokens,
         settled' \subseteq settled \cup DOMAIN tokens'
  PROVE  DiskOK'
<1>1. \A t, v : OnDisk(t, v) => OnDisk(t, v)'
  BY MoreClaims
<1> QED
  BY <1>1 DEF DiskOK

(* MulticastMonitor::setHomeNode keeps the invariant.                      *)
LEMMA McastSetStep ==
  ASSUME HomeInv, NEW n \in Node, McastSet(n)
  PROVE  HomeInv'
<1> DEFINE p == frame[n].path
<1>1. Types /\ MapsOK(n) /\ CallOK(n) /\ DiskOK
  BY DEF HomeInv
<1>2. UNCHANGED <<writing, cache, tokens>>
  BY DEF McastSet
<1>3. CASE /\ frame[n].at = "send" /\ Goto(n, "add") /\ UNCHANGED home
           /\ _send_message(inbox, Announcement(p, n))
  <2> DEFINE a == Announcement(p, n)
  <2>1. /\ frame[n].at # "idle" /\ p \in Path /\ frame[n].i = 1
        /\ frame[n].op = "setHomeNode" /\ <<n, p>> \in claims /\ frame[n] \in Frame
    BY <1>3, InCall
  <2>2. a \in Datagram /\ Honest(a)
    <3>1. /\ a \in Datagram /\ a.cmd = "SET" /\ PathIn(a) \in Key /\ HostIn(a) \in Name
          /\ Plain(PathIn(a)) => PathIn(a) = p /\ HostIn(a) = n
      BY <2>1, DatagramFact
    <3> QED
      BY <2>1, <3>1 DEF Honest, Claimed
  <2> HIDE DEF a
  <2>3. /\ inbox' \in [Node -> SUBSET Datagram]
        /\ \A k \in Node : \A x \in inbox'[k] : x \in inbox[k] \/ x = a
    BY <1>1, <1>3, <2>2, SendFact DEF Types, a
  <2>4. Place([frame[n] EXCEPT !.at = "add"]) /\ "add" \in Places
    BY <2>1 DEF Place, Frame, Places
  <2>5. /\ frame' \in [Node -> Frame] /\ ret' = ret
        /\ \A k \in Node \ {n} : frame'[k] = frame[k]
        /\ claims' = claims /\ settled' = settled /\ CallOK(n)'
    BY <1>2, <1>3, <2>1, <2>4, GotoFact
  <2>6. \A k \in Node : \A x \in inbox'[k] : x \in inbox[k] \/ Honest(x)'
    <3>1. \A x : Honest(x) => Honest(x)'
      BY <2>5, MoreClaims
    <3> QED
      BY <2>2, <2>3, <3>1
  <2>7. Types' /\ Others(n) /\ DiskOK' /\ MapsOK(n)'
    BY <1>1, <1>2, <1>3, <2>3, <2>5, DiskKept, MapsKept DEF Types, Others
  <2> QED
    BY <1>2, <2>5, <2>6, <2>7, OneNode
<1>4. CASE /\ frame[n].at = "add" /\ NextBackend(n, None)
           /\ home' = [home EXCEPT ![n][p] = n] /\ UNCHANGED inbox
  <2>1. /\ frame[n].at # "idle" /\ p \in Path /\ p \in Key
        /\ <<n, p>> \in claims
    BY <1>4, InCall
  <2>2. n \in Name /\ None \in Name /\ Known(p, n)
    BY <2>1 DEF Name, Known, Claimed
  <2>3. CallMoves(n)
    BY <1>2, <1>4, <2>1, <2>2, NextBackendFact
  <2>4. writing'[n] # None => writing'[n].cmd = "SET" /\ Honest(writing[n])'
    BY <1>1, <1>2, <2>3, MoreClaims DEF MapsOK, CallMoves
  <2>5. /\ home' \in [Node -> [Key -> Name]] /\ MapsOK(n)'
        /\ \A k \in Node \ {n} : home'[k] = home[k]
    <3> HIDE DEF p
    <3> QED
      BY <1>2, <1>4, <2>1, <2>2, <2>3, <2>4, HomeWrite DEF CallMoves
  <2>6. Types' /\ Others(n) /\ DiskOK'
    BY <1>1, <1>2, <1>4, <2>3, <2>5, DiskSettles DEF Types, Others, CallMoves
  <2> QED
    BY <1>2, <1>4, <2>3, <2>5, <2>6, OneNode DEF CallMoves
<1> QED
  BY <1>3, <1>4 DEF McastSet

(* MulticastMonitor::getHomeNode keeps the invariant.                      *)
LEMMA McastGetStep ==
  ASSUME HomeInv, NEW n \in Node, McastGet(n)
  PROVE  HomeInv'
<1> DEFINE p == frame[n].path
<1>1. Types /\ MapsOK(n) /\ CallOK(n) /\ DiskOK
  BY DEF HomeInv
<1>2. UNCHANGED <<home, writing, cache, tokens>>
  BY DEF McastGet
<1>3. /\ frame[n].at \in {"lookup", "ask", "again", "deref"}
      /\ frame[n].at # "idle"
  BY DEF McastGet
<1>4. /\ p \in Path /\ p \in Key /\ frame[n].i = 1
      /\ frame[n].op = "getHomeNode" /\ frame[n] \in Frame
  BY <1>3, InCall
<1>5. \/ \E l \in {"ask", "again", "deref"} : Goto(n, l)
      \/ \E v \in Name : /\ NextBackend(n, v)
                         /\ Plain(p) => v = None \/ Known(p, v)
  <2>1. CASE frame[n].at = "lookup"
    BY <2>1 DEF McastGet
  <2>2. CASE frame[n].at = "ask"
    BY <2>2 DEF McastGet
  <2>3. CASE frame[n].at = "again"
    BY <2>3 DEF McastGet, Name
  <2>4. CASE frame[n].at = "deref"
    <3>1. NextBackend(n, home[n][p]) /\ home[n][p] \in Name
      BY <1>1, <1>4, <2>4 DEF McastGet, Types
    <3>2. Plain(p) => home[n][p] = None \/ Known(p, home[n][p])
      BY <1>1, <1>4 DEF MapsOK
    <3> QED
      BY <3>1, <3>2
  <2> QED
    BY <1>3, <2>1, <2>2, <2>3, <2>4
<1>6. CallMoves(n)
  <2>1. ASSUME NEW l \in {"ask", "again", "deref"}, Goto(n, l) PROVE CallMoves(n)
    <3>1. Place([frame[n] EXCEPT !.at = l]) /\ l \in Places
      BY <1>4 DEF Place, Frame, Places
    <3>2. /\ frame' \in [Node -> Frame] /\ ret' = ret
          /\ \A k \in Node \ {n} : frame'[k] = frame[k]
          /\ claims' = claims /\ settled' = settled /\ CallOK(n)'
      BY <1>2, <1>3, <1>4, <2>1, <3>1, GotoFact
    <3> QED
      BY <1>1, <3>2 DEF Types, CallMoves
  <2>2. ASSUME NEW v \in Name, NextBackend(n, v),
               Plain(p) => v = None \/ Known(p, v)
        PROVE  CallMoves(n)
    BY <1>2, <1>3, <2>2, NextBackendFact
  <2> QED
    BY <1>5, <2>1, <2>2
<1>7. /\ inbox' \in [Node -> SUBSET Datagram]
      /\ \A k \in Node : \A x \in inbox'[k] : x \in inbox[k] \/ Honest(x)'
  <2>1. CASE inbox' = inbox
    BY <1>1, <2>1 DEF Types
  <2>2. CASE _send_message(inbox, Question(p))
    <3>1. Question(p) \in Datagram /\ Honest(Question(p))
      BY <1>4, DatagramFact DEF Honest
    <3>2. /\ inbox' \in [Node -> SUBSET Datagram]
          /\ \A k \in Node : \A x \in inbox'[k] : x \in inbox[k] \/ x = Question(p)
      BY <1>1, <2>2, <3>1, SendFact DEF Types
    <3>3. \A x : Honest(x) => Honest(x)'
      BY <1>6, MoreClaims DEF CallMoves
    <3> QED
      BY <3>1, <3>2, <3>3
  <2> QED
    BY <2>1, <2>2 DEF McastGet
<1>8. Types' /\ Others(n) /\ DiskOK' /\ MapsOK(n)'
  BY <1>1, <1>2, <1>6, <1>7, DiskSettles, MapsKept DEF Types, Others, CallMoves
<1> QED
  BY <1>2, <1>6, <1>7, <1>8, OneNode DEF CallMoves

(* A token may be created, emptied or written by who claims its path.      *)
LEMMA DiskPuts ==
  ASSUME DiskOK, NEW n \in Node, NEW p \in Path, NEW v \in {Empty, n},
         <<n, p>> \in claims, Puts(Token[p], v), claims' = claims,
         settled' \subseteq settled \cup DOMAIN tokens', Len(Interfaces) = 2
  PROVE  DiskOK'
<1>1. /\ DOMAIN tokens' = DOMAIN tokens \cup {Token[p]}
      /\ \A t \in DOMAIN tokens' : tokens'[t] = IF t = Token[p] THEN v ELSE tokens[t]
  BY DEF Puts
<1>2. n \in ClaimedAs(Token[p])
  BY DEF ClaimedAs, Claimed
<1>3. OnDisk(Token[p], v)
  BY <1>2 DEF OnDisk
<1>4. \A t, x : OnDisk(t, x) => OnDisk(t, x)'
  BY MoreClaims
<1>5. \A t \in DOMAIN tokens' : OnDisk(t, tokens[t])'
  BY <1>1, <1>3, <1>4 DEF DiskOK
<1>6. settled' \subseteq DOMAIN tokens'
  BY <1>1 DEF DiskOK
<1> QED
  BY <1>5, <1>6 DEF DiskOK

(* generate_home_node_token keeps the invariant.                           *)
LEMMA FsSetStep ==
  ASSUME HomeInv, NEW n \in Node, FsSet(n)
  PROVE  HomeInv'
<1> DEFINE p == frame[n].path
<1>1. Types /\ MapsOK(n) /\ CallOK(n) /\ DiskOK
  BY DEF HomeInv
<1>2. UNCHANGED <<home, writing, inbox, cache>>
  BY DEF FsSet, listener
<1>3. frame[n].at \in {"check", "create", "write"} /\ frame[n].at # "idle"
  BY DEF FsSet
<1>4. /\ p \in Path /\ frame[n].i = 2 /\ Len(Interfaces) = 2
      /\ frame[n].op = "setHomeNode" /\ <<n, p>> \in claims /\ frame[n] \in Frame
  BY <1>3, InCall
<1>5. /\ tokens' = tokens \/ \E v \in {Empty, n} : Puts(Token[p], v)
      /\ \/ NextBackend(n, None)
         \/ \E l \in {"create", "write"} : ~ frame[n].must /\ Goto(n, l)
  <2>1. MustHold(n, frame[n])
    BY <1>1 DEF CallOK
  <2>2. CASE frame[n].at = "check"
    <3>1. /\ UNCHANGED tokens
          /\ \/ NextBackend(n, None)
             \/ Token[p] \notin DOMAIN tokens /\ Goto(n, "create")
      BY <2>2 DEF FsSet, compute_capiocl_token_name
    <3>2. Token[p] \notin DOMAIN tokens => ~ frame[n].must
      BY <2>1 DEF MustHold
    <3> QED
      BY <3>1, <3>2
  <2>3. CASE frame[n].at = "create"
    <3>1. ~ frame[n].must
      BY <1>4, <2>1, <2>3 DEF MustHold
    <3>2. \/ Puts(Token[p], Empty) /\ Goto(n, "write")
          \/ UNCHANGED tokens /\ NextBackend(n, None)
      BY <2>3 DEF FsSet, compute_capiocl_token_name
    <3> QED
      BY <3>1, <3>2
  <2>4. CASE frame[n].at = "write"
    <3>1. /\ Puts(Token[p], n) \/ UNCHANGED tokens
          /\ NextBackend(n, None)
      BY <2>4 DEF FsSet, compute_capiocl_token_name
    <3> QED
      BY <3>1
  <2> QED
    BY <1>3, <2>2, <2>3, <2>4
<1>6. DOMAIN tokens \subseteq DOMAIN tokens'
  BY <1>5 DEF Puts
<1>7. CallMoves(n)
  <2>1. CASE NextBackend(n, None)
    <3>1. None \in Name
      BY DEF Name
    <3> QED
      BY <1>2, <1>3, <1>6, <2>1, <3>1, NextBackendFact
  <2>2. ASSUME NEW l \in {"create", "write"}, ~ frame[n].must, Goto(n, l)
        PROVE  CallMoves(n)
    <3>1. Place([frame[n] EXCEPT !.at = l]) /\ l \in Places
      BY <1>4 DEF Place, Frame, Places
    <3>2. /\ frame' \in [Node -> Frame] /\ ret' = ret
          /\ \A k \in Node \ {n} : frame'[k] = frame[k]
          /\ claims' = claims /\ settled' = settled /\ CallOK(n)'
      BY <1>2, <1>3, <1>6, <2>2, <3>1, GotoFact
    <3> QED
      BY <1>1, <3>2 DEF Types, CallMoves
  <2> QED
    BY <1>5, <2>1, <2>2
<1>8. DiskOK'
  <2>1. claims' = claims /\ settled' \subseteq settled \cup DOMAIN tokens'
    BY <1>7 DEF CallMoves
  <2>2. ASSUME NEW v \in {Empty, n}, Puts(Token[p], v) PROVE DiskOK'
    BY <1>1, <1>4, <2>1, <2>2, DiskPuts
  <2> QED
    BY <1>1, <1>5, <2>1, <2>2, DiskSettles
<1>9. Types' /\ Others(n) /\ MapsOK(n)'
  BY <1>1, <1>2, <1>7, MapsKept DEF Types, Others, CallMoves
<1> QED
  BY <1>2, <1>6, <1>7, <1>8, <1>9, OneNode DEF CallMoves

(* What a getHomeNode reads of a token file, or finds in the cache.        *)
TokenSays(p, v) ==
  /\ v \in Name /\ v # Uncached
  /\ v = None \/ OnDisk(Token[p], v)

(* FileSystemMonitor::getHomeNode keeps the invariant.                     *)
LEMMA FsGetStep ==
  ASSUME HomeInv, NEW n \in Node, FsGet(n)
  PROVE  HomeInv'
<1> DEFINE p == frame[n].path
<1>1. Types /\ MapsOK(n) /\ CallOK(n) /\ DiskOK
  BY DEF HomeInv
<1>2. UNCHANGED <<home, writing, inbox, tokens>> /\ frame[n].at = "token"
  BY DEF FsGet, listener
<1>3. p \in Path /\ frame[n].i = 2 /\ Len(Interfaces) = 2 /\ frame[n].at # "idle"
  BY <1>2, InCall
<1>4. \E v : /\ NextBackend(n, v) /\ TokenSays(p, v)
             /\ cache' = cache \/ cache' = [cache EXCEPT ![n][p] = v]
  <2>1. CASE cache[n][p] # Uncached /\ cache' = cache /\ NextBackend(n, cache[n][p])
    <3>1. TokenSays(p, cache[n][p])
      BY <1>1, <1>3, <2>1 DEF MapsOK, Types, TokenSays
    <3> QED
      BY <2>1, <3>1
  <2>2. ASSUME NEW v \in IF Token[p] \notin DOMAIN tokens THEN {None}
                         ELSE {tokens[Token[p]]} \cup IF DiskFails THEN {Empty} ELSE {},
               cache' = [cache EXCEPT ![n][p] = v], NextBackend(n, v)
        PROVE  <1>4
    <3>1. v = None \/ (Token[p] \in DOMAIN tokens /\ v \in {tokens[Token[p]], Empty})
      BY <2>2
    <3>2. v = None \/ OnDisk(Token[p], v)
      BY <1>1, <3>1 DEF DiskOK, OnDisk
    <3>3. v \in Name /\ v # Uncached
      BY <3>2, HomeAssumption DEF OnDisk, ClaimedAs, Claimed, Name
    <3> QED
      BY <2>2, <3>2, <3>3 DEF TokenSays
  <2> QED
    BY <2>1, <2>2 DEF FsGet, compute_capiocl_token_name
<1>5. PICK v : /\ NextBackend(n, v) /\ TokenSays(p, v)
               /\ cache' = cache \/ cache' = [cache EXCEPT ![n][p] = v]
  BY <1>4
<1>6. CallMoves(n)
  <2>1. v \in Name /\ (v = None \/ Answer(p, v))
    BY <1>5 DEF TokenSays, Answer
  <2> QED
    BY <1>2, <1>3, <1>5, <2>1, NextBackendFact
<1>7. /\ cache' \in [Node -> [Path -> Name]]
      /\ \A k \in Node \ {n} : cache'[k] = cache[k]
      /\ \A q \in Path : cache'[n][q] = cache[n][q] \/ (q = p /\ cache'[n][q] = v)
  <2>1. CASE cache' = cache
    BY <1>1, <2>1 DEF Types
  <2>2. CASE cache' = [cache EXCEPT ![n][p] = v]
    <3> HIDE DEF p
    <3>1. v \in Name /\ p \in Path /\ cache \in [Node -> [Path -> Name]]
      BY <1>1, <1>3, <1>5 DEF TokenSays, Types
    <3> QED
      BY <2>2, <3>1
  <2> QED
    BY <1>5, <2>1, <2>2
<1>8. MapsOK(n)'
  <2>1. claims' = claims /\ \A t, x : OnDisk(t, x) => OnDisk(t, x)'
    BY <1>6, MoreClaims DEF CallMoves
  <2>2. \A q \in Path : cache'[n][q] \in {None, Uncached}
                          \/ OnDisk(Token[q], cache[n][q])'
    BY <1>1, <1>5, <1>7, <2>1 DEF MapsOK, TokenSays
  <2>3. \A q, x : Known(q, x) => Known(q, x)'
    BY <2>1, MoreClaims
  <2>4. \A x : Honest(x) => Honest(x)'
    BY <2>1, MoreClaims
  <2> QED
    BY <1>1, <1>2, <2>2, <2>3, <2>4 DEF MapsOK
<1>9. Types' /\ Others(n) /\ DiskOK'
  BY <1>1, <1>2, <1>6, <1>7, DiskSettles DEF Types, Others, CallMoves
<1> QED
  BY <1>2, <1>6, <1>8, <1>9, OneNode DEF CallMoves

(* A call that throws keeps the invariant.                                 *)
LEMMA ThrowsStep ==
  ASSUME HomeInv, NEW n \in Node, Throws(n)
  PROVE  HomeInv'
<1> DEFINE none == {}
           end == "throws"
<1>1. Types /\ MapsOK(n) /\ DiskOK
  BY DEF HomeInv
<1>2. /\ UNCHANGED <<home, writing, inbox, cache, tokens, claims, settled>>
      /\ Return(n, end, NoPath, none)
  BY DEF Throws, listener, history
<1>3. /\ none \in SUBSET Name /\ end \in {"none", "done", "answer", "throws"}
      /\ NoPath \in Path \cup {NoPath} /\ \A x \in none : Answer(NoPath, x)
  OBVIOUS
<1> HIDE DEF none, end
<1>4. CallMoves(n)
  BY <1>1, <1>2, <1>3, ReturnFact DEF CallMoves
<1>5. Types' /\ Others(n) /\ DiskOK' /\ MapsOK(n)'
  BY <1>1, <1>2, <1>4, DiskKept, MapsKept DEF Types, Others, CallMoves
<1> QED
  BY <1>2, <1>4, <1>5, OneNode DEF CallMoves

-----------------------------------------------------------------------------
(* The theorems.                                                           *)

(* Nothing is known and nothing is on the disk at the beginning.           *)
LEMMA InitInv ==
  ASSUME Init
  PROVE  HomeInv
<1>1. Types
  BY NoCallFact DEF Init, Types, Name
<1>2. DiskOK
  BY DEF Init, DiskOK
<1>3. ASSUME NEW n \in Node PROVE MapsOK(n) /\ InboxOK(n) /\ CallOK(n)
  <2>1. MapsOK(n) /\ InboxOK(n)
    BY DEF Init, MapsOK, InboxOK, Key
  <2>2. frame[n] = NoCall /\ ret[n] = NoReturn
    BY DEF Init
  <2> QED
    BY <2>1, <2>2, NoCallFact DEF CallOK, MustHold
<1> QED
  BY <1>1, <1>2, <1>3 DEF HomeInv

(* Every step keeps the invariant.                                         *)
LEMMA InvStep ==
  ASSUME HomeInv, [Next]_vars
  PROVE  HomeInv'
<1>1. CASE Next
  <2>1. PICK n \in Node :
          \/ Start(n) \/ Join(n) \/ Stop(n) \/ Crash(n) \/ IdlePoll(n)
          \/ home_node_listener(n) \/ Call(n) \/ CallStep(n)
    BY <1>1 DEF Next
  <2>2. CASE home_node_listener(n)
    BY <2>2, WrittenStep, ReadsStep DEF home_node_listener
  <2>3. CASE CallStep(n)
    BY <2>3, McastSetStep, McastGetStep, FsSetStep, FsGetStep, ThrowsStep DEF CallStep
  <2> QED
    BY <2>1, <2>2, <2>3, InstanceStep, CallStart
<1>2. CASE UNCHANGED vars
  <2>1. UNCHANGED <<home, writing, inbox, cache, tokens, frame, ret, claims, settled>>
    BY <1>2 DEF vars
  <2>2. Types' /\ DiskOK'
    BY <2>1, DiskKept DEF HomeInv, Types
  <2>3. ASSUME NEW n \in Node PROVE MapsOK(n)' /\ InboxOK(n)' /\ CallOK(n)'
    BY <2>1, MapsKept, InboxKept, CallKept DEF HomeInv
  <2> QED
    BY <2>2, <2>3 DEF HomeInv
<1> QED
  BY <1>1, <1>2

(* HomeInv is an invariant.                                                *)
LEMMA HomeInvariant == Spec => []HomeInv
<1>1. Init => HomeInv
  BY InitInv
<1>2. HomeInv /\ [Next]_vars => HomeInv'
  BY InvStep
<1> QED
  BY <1>1, <1>2, PTL DEF Spec

(* Nobody is named as a home node who did not ask to be.                   *)
THEOREM NobodyIsInvented == Spec => []NoInventedHome
<1>1. HomeInv => NoInventedHome
  BY DEF HomeInv, DiskOK, MapsOK, InboxOK, CallOK, Honest, NoInventedHome
<1> QED
  BY <1>1, HomeInvariant, PTL

(* Whose call moves, and how.                                              *)
LEMMA FrameStep ==
  ASSUME HomeInv, [Next]_vars, NEW n \in Node, frame'[n] # frame[n],
         frame[n].op \in {"setHomeNode", "getHomeNode"}
  PROVE  \/ CallStep(n)
         \/ UNCHANGED tokens /\ ret'[n] = NoReturn
<1>1. Types
  BY DEF HomeInv
<1>2. Next
  BY DEF vars
<1>3. PICK k \in Node :
        \/ Start(k) \/ Join(k) \/ Stop(k) \/ Crash(k) \/ IdlePoll(k)
        \/ home_node_listener(k) \/ Call(k) \/ CallStep(k)
  BY <1>2 DEF Next
<1>4. ~ (Start(k) \/ Join(k) \/ Stop(k) \/ home_node_listener(k))
  BY DEF Start, Join, Stop, home_node_listener, Written, Reads
<1>5. CASE Gone(k)
  <2>1. /\ frame' = [frame EXCEPT ![k] = NoCall] /\ UNCHANGED tokens
        /\ ret' = [ret EXCEPT ![k] = NoReturn]
    BY <1>5 DEF Gone
  <2> QED
    BY <1>1, <2>1 DEF Types
<1>6. CASE Call(k)
  <2>1. frame[k] = NoCall /\ \A j \in Node \ {k} : frame'[j] = frame[j]
    BY <1>1, <1>6 DEF Call, Types
  <2> QED
    BY <2>1, NoCallFact
<1>7. CASE CallStep(k)
  <2>1. \A j \in Node \ {k} : frame'[j] = frame[j]
    BY <1>1, <1>7 DEF CallStep, McastSet, McastGet, FsSet, FsGet, Throws, Goto,
       NextBackend, Return, Types
  <2> QED
    BY <1>7, <2>1
<1> QED
  BY <1>3, <1>4, <1>5, <1>6, <1>7 DEF Crash, IdlePoll

(* A setHomeNode that begins after the token was settled does not touch it:*)
(* it ends at its check, which finds the file there.                       *)
THEOREM TheFirstClaimStays == Spec => FirstClaimStays
<1>1. ASSUME HomeInv, [Next]_vars, NEW n \in Node,
             frame[n].op = "setHomeNode", frame[n].must, frame[n] # frame'[n]
      PROVE  tokens' = tokens
  <2>1. MustHold(n, frame[n])
    BY <1>1 DEF HomeInv, CallOK
  <2>2. frame[n].at \in {"send", "add", "check"}
    BY <1>1, <2>1 DEF MustHold
  <2>3. CallStep(n) \/ UNCHANGED tokens
    BY <1>1, FrameStep
  <2>4. ASSUME FsSet(n) PROVE tokens' = tokens
    BY <2>2, <2>4 DEF FsSet
  <2> QED
    BY <2>3, <2>4 DEF CallStep, McastSet, McastGet, FsGet, Throws
<1>2. HomeInv /\ [Next]_vars =>
        [\A n \in Node :
           frame[n].op = "setHomeNode" /\ frame[n].must /\ frame[n] # frame'[n]
           => tokens' = tokens]_vars
  BY <1>1
<1> QED
  BY <1>2, HomeInvariant, PTL DEF Spec, FirstClaimStays

(* A getHomeNode that begins after the token was settled, and has nothing  *)
(* older in its cache, comes back with an answer.                          *)
THEOREM TheHomeIsFound == Spec => HomeIsFound
<1>1. ASSUME HomeInv, [Next]_vars, NEW n \in Node,
             frame[n].op = "getHomeNode", frame[n].must, frame[n] # frame'[n],
             ret'[n].end = "answer"
      PROVE  ret'[n].got # {}
  <2> DEFINE p == frame[n].path
  <2>1. Types /\ CallOK(n) /\ DiskOK /\ MustHold(n, frame[n])
    BY <1>1 DEF HomeInv, CallOK
  <2>2. NoReturn.end = "none" /\ NoCall.op = "none" /\ NoCall.at = "idle"
    BY DEF NoReturn, NoCall
  <2>3. CallStep(n)
    BY <1>1, <2>2, FrameStep
  <2>4. /\ frame[n].at \in {"lookup", "ask", "again", "deref", "token"}
        /\ frame[n].at # "idle"
    BY <1>1, <2>1, <2>2 DEF CallOK, Place
  <2>5. frame[n] # NoCall /\ ret[n] = NoReturn
    BY <2>4, InCall, <1>1
  <2>6. Len(Interfaces) = 2
    BY <1>1, <2>1, InterfacesFact DEF DiskOK, MustHold
  <2>7. ret'[n] # ret[n]
    BY <1>1, <2>2, <2>5
  <2>8. frame[n].at = "token"
    <3>1. ASSUME frame[n].at \in {"lookup", "ask", "again", "deref"} PROVE FALSE
      <4>1. frame[n].i = 1
        BY <1>1, <3>1, InCall
      <4>2. ~ Throws(n)
        <5>1. ASSUME Throws(n) PROVE FALSE
          <6>1. ret' = [ret EXCEPT ![n] = [end |-> "throws", path |-> NoPath, got |-> {}]]
            BY <5>1 DEF Throws, Return
          <6>2. ret'[n].end = "throws"
            BY <2>1, <6>1 DEF Types
          <6> QED
            BY <1>1, <6>2
        <5> QED
          BY <5>1
      <4>3. McastGet(n)
        BY <2>3, <3>1, <4>2 DEF CallStep, McastSet, FsSet, FsGet
      <4>4. ret' = ret
        BY <2>6, <4>1, <4>3 DEF McastGet, Goto, NextBackend
      <4> QED
        BY <2>7, <4>4
    <3> QED
      BY <2>4, <3>1
  <2>9. CASE Throws(n)
    <3>1. ret' = [ret EXCEPT ![n] = [end |-> "throws", path |-> NoPath, got |-> {}]]
      BY <2>9 DEF Throws, Return
    <3>2. ret'[n].end = "throws"
      BY <2>1, <3>1 DEF Types
    <3> QED
      BY <1>1, <3>2
  <2>10. CASE FsGet(n)
    <3>1. Token[p] \in DOMAIN tokens /\ cache[n][p] = Uncached
      BY <1>1, <2>1 DEF MustHold
    <3>2. PICK v : v \in {tokens[Token[p]], Empty} /\ NextBackend(n, v)
      BY <2>10, <3>1 DEF FsGet, compute_capiocl_token_name
    <3>3. v # None
      <4>1. OnDisk(Token[p], tokens[Token[p]])
        BY <2>1, <3>1 DEF DiskOK
      <4>2. v \in ClaimedAs(Token[p]) \cup {Empty}
        BY <3>2, <4>1 DEF OnDisk
      <4>3. v \in Node \cup {Empty}
        BY <4>2 DEF ClaimedAs, Claimed
      <4> QED
        BY <4>3, HomeAssumption
    <3>4. frame[n].i = 2
      BY <1>1, <2>8, InCall
    <3>5. Return(n, "answer", p, frame[n].got \cup ({v} \ {None}))
      <4>1. ~ (frame[n].i < Len(Interfaces)) /\ frame[n].op # "setHomeNode"
        BY <1>1, <2>6, <3>4
      <4> QED
        BY <3>2, <4>1 DEF NextBackend
    <3>6. ret'[n].got = frame[n].got \cup ({v} \ {None})
      BY <2>1, <3>5 DEF Return, Types
    <3> QED
      BY <3>3, <3>6
  <2> QED
    BY <2>3, <2>8, <2>9, <2>10 DEF CallStep, McastSet, McastGet, FsSet
<1>2. HomeInv /\ [Next]_vars =>
        [\A n \in Node :
           /\ frame[n].op = "getHomeNode" /\ frame[n].must
           /\ frame[n] # frame'[n] /\ ret'[n].end = "answer"
           => ret'[n].got # {}]_vars
  BY <1>1
<1> QED
  BY <1>2, HomeInvariant, PTL DEF Spec, HomeIsFound

=============================================================================
