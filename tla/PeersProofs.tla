---------------------------- MODULE PeersProofs -----------------------------
(***************************************************************************)
(* What holds of the peer lists for any number of nodes, handler threads   *)
(* and announcements: types, that the own addresses stay in front, and     *)
(* that none of them is listed as the address of a peer.                   *)
(***************************************************************************)
EXTENDS Peers, TLAPS

\* A list that n may hold: its own addresses first, and never as peers
Listing(n, list) ==
    /\ list \in Seq(NetNode)
    /\ Len(list) >= Len(own[n])
    /\ \A i \in DOMAIN own[n] : list[i] = [ip_port |-> own[n][i], is_self |-> TRUE]
    /\ \A i \in DOMAIN list : \A a \in OwnAddresses(n) : list[i] # peer(a)

\* The locals of a handler thread of n: the copy is a listing, the address is
\* not n's.
Sound(n, local) ==
    /\ local.at = "store" => Listing(n, local.seen)
    /\ local.at # "idle" => local.ip_port \notin OwnAddresses(n)

\* The list and every copy of it that a push_back works on are listings, and
\* what is about to be pushed is not an own address.
MainInv(n) ==
    /\ Listing(n, node_list[n])
    /\ pc[n] = "store" => Listing(n, seen[n])
    /\ pc[n] \in {"load", "store"} =>
           answer[n] # <<>> /\ Head(answer[n]) \notin OwnAddresses(n)

HandlerInv(n) == \A t \in Threads : Sound(n, thread[n][t])

IInv == TypeOK /\ \A n \in Nodes : MainInv(n) /\ HandlerInv(n)

-----------------------------------------------------------------------------
(* Listings *)

LEMMA PeerType == ASSUME NEW a \in Addresses PROVE peer(a) \in NetNode
BY DEF peer, NetNode

\* Appending somebody else's address to a listing gives a listing.
LEMMA ListingGrows ==
    ASSUME NEW n \in Nodes, NEW list, Listing(n, list),
           NEW a \in Addresses, a \notin OwnAddresses(n)
    PROVE  Listing(n, Append(list, peer(a)))
<1> DEFINE new == Append(list, peer(a))
<1>1. /\ list \in Seq(NetNode) /\ peer(a) \in NetNode
      /\ new \in Seq(NetNode) /\ Len(new) = Len(list) + 1
      /\ own[n] \in Seq(OwnAddresses(n))
  BY PeerType, PeersAssumption DEF Listing
<1>2. Len(own[n]) \in Nat /\ DOMAIN own[n] = 1 .. Len(own[n])
  BY <1>1
<1>3. \A i \in 1 .. Len(list) : new[i] = list[i]
  BY <1>1
<1>4. new[Len(list) + 1] = peer(a)
  BY <1>1
<1>5. \A b \in OwnAddresses(n) : peer(a) # peer(b)
  BY DEF peer
<1>6. \A i \in DOMAIN own[n] : new[i] = [ip_port |-> own[n][i], is_self |-> TRUE]
  BY <1>1, <1>2, <1>3 DEF Listing
<1>7. \A i \in DOMAIN new : \A b \in OwnAddresses(n) : new[i] # peer(b)
  <2> SUFFICES ASSUME NEW i \in 1 .. Len(list) + 1, NEW b \in OwnAddresses(n)
               PROVE  new[i] # peer(b)
    BY <1>1
  <2>1. CASE i = Len(list) + 1
    BY <2>1, <1>4, <1>5
  <2>2. CASE i # Len(list) + 1
    BY <2>2, <1>1, <1>3 DEF Listing
  <2> QED BY <2>1, <2>2
<1>8. Len(new) >= Len(own[n])
  BY <1>1, <1>2 DEF Listing
<1> QED
  BY <1>1, <1>6, <1>7, <1>8 DEF Listing

\* The search finds the own addresses: what it does not find is another's.
LEMMA OwnFound ==
    ASSUME NEW n \in Nodes, NEW list, Listing(n, list),
           NEW a, ~found(list, a)
    PROVE  a \notin OwnAddresses(n)
<1> SUFFICES ASSUME NEW i \in DOMAIN own[n], a = own[n][i] PROVE FALSE
  BY DEF OwnAddresses
<1>1. i \in DOMAIN list
  <2>1. own[n] \in Seq(OwnAddresses(n)) /\ list \in Seq(NetNode)
    BY PeersAssumption DEF Listing
  <2> QED BY <2>1 DEF Listing
<1>2. list[i] = [ip_port |-> own[n][i], is_self |-> TRUE]
  BY Zenon DEF Listing
<1>3. list[i].ip_port = a
  BY <1>2
<1> QED
  BY <1>1, <1>3 DEF found

\* The first address of a listing
LEMMA FirstAddress ==
    ASSUME NEW n \in Nodes, NEW list, Listing(n, list)
    PROVE  list[1].ip_port \in Addresses
<1>1. list \in Seq(NetNode) /\ own[n] \in Seq(OwnAddresses(n)) /\ own[n] # <<>>
  BY PeersAssumption DEF Listing
<1>2. Len(list) >= 1
  BY <1>1 DEF Listing
<1>3. list[1] \in NetNode
  BY <1>1, <1>2
<1> QED
  BY <1>3 DEF NetNode

-----------------------------------------------------------------------------
(* The initial lists *)

LEMMA InitInv == Init => IInv
<1> SUFFICES ASSUME Init PROVE IInv
  OBVIOUS
<1>seed. seed_ip_port \in Addresses
  BY DEF Addresses
<1>idle. /\ Idle.at = "idle" /\ Idle.client = Nobody
      /\ Idle.seen = <<>> /\ Idle.ip_port = seed_ip_port
  BY DEF Idle
<1>1. \A n \in Nodes : Listing(n, node_list[n])
  <2> TAKE n \in Nodes
  <2> DEFINE self == [i \in DOMAIN own[n] |-> [ip_port |-> own[n][i], is_self |-> TRUE]]
  <2>1. own[n] \in Seq(OwnAddresses(n)) /\ OwnAddresses(n) \subseteq Addresses
    BY PeersAssumption DEF AllOwn, Addresses
  <2>2. self \in Seq(NetNode) /\ Len(self) = Len(own[n])
    <3>1. DOMAIN own[n] = 1 .. Len(own[n]) /\ Len(own[n]) \in Nat
      BY <2>1
    <3>2. \A i \in 1 .. Len(own[n]) : own[n][i] \in Addresses
      BY <2>1
    <3>3. \A i \in 1 .. Len(own[n]) : self[i] \in NetNode
      BY <3>1, <3>2 DEF NetNode
    <3>4. self = [i \in 1 .. Len(own[n]) |-> self[i]]
      BY <3>1
    <3> HIDE DEF self
    <3>5. self \in [1 .. Len(own[n]) -> NetNode]
      BY <3>3, <3>4
    <3> QED BY <3>1, <3>5
  <2>3. \A i \in DOMAIN self : \A a \in OwnAddresses(n) : self[i] # peer(a)
    BY <2>1 DEF peer
  <2>4. Listing(n, self)
    BY <2>1, <2>2, <2>3 DEF Listing
  <2>5. CASE seed_ip_port \in OwnAddresses(n)
    <3>1. node_list[n] = self \o <<>>
      BY <2>5 DEF Init
    <3>2. self \o <<>> = self
      BY <2>2
    <3> HIDE DEF self
    <3> QED BY <2>4, <3>1, <3>2
  <2>6. CASE seed_ip_port \notin OwnAddresses(n)
    <3>1. node_list[n] = self \o <<peer(seed_ip_port)>>
      BY <2>6 DEF Init
    <3>2. peer(seed_ip_port) \in NetNode
      BY <1>seed, PeerType
    <3> HIDE DEF self
    <3>3. self \o <<peer(seed_ip_port)>> = Append(self, peer(seed_ip_port))
      BY <2>2, <3>2
    <3> QED BY <1>seed, <2>4, <2>6, <3>1, <3>3, ListingGrows
  <2> QED BY <2>5, <2>6
<1>2. node_list \in [Nodes -> Seq(NetNode)]
  <2>1. node_list = [n \in Nodes |-> node_list[n]]
    BY DEF Init
  <2> QED BY <1>1, <2>1 DEF Listing
<1>3. TypeOK
  BY <1>seed, <1>2 DEF Init, TypeOK, Idle, Locals
<1>4. \A n \in Nodes : MainInv(n) /\ HandlerInv(n)
  BY <1>idle, <1>1 DEF Init, MainInv, HandlerInv, Sound
<1> QED
  BY <1>3, <1>4 DEF IInv

-----------------------------------------------------------------------------
(* What a step leaves alone keeps its part of the invariant. *)

LEMMA MainKept ==
    ASSUME NEW k \in Nodes, MainInv(k), node_list'[k] = node_list[k],
           seen'[k] = seen[k], answer'[k] = answer[k],
           pc'[k] = pc[k] \/ pc'[k] \notin {"load", "store"}
    PROVE  MainInv(k)'
BY DEF MainInv, Listing

LEMMA HandlerKept ==
    ASSUME NEW k \in Nodes, HandlerInv(k),
           \A t \in Threads : \/ thread'[k][t].at = "idle"
                             \/ /\ thread'[k][t].at = thread[k][t].at
                                /\ thread'[k][t].seen = thread[k][t].seen
                                /\ thread'[k][t].ip_port = thread[k][t].ip_port
    PROVE  HandlerInv(k)'
<1> SUFFICES ASSUME NEW t \in Threads PROVE Sound(k, thread'[k][t])
  BY DEF HandlerInv, Sound, Listing
<1>1. Sound(k, thread[k][t])
  BY DEF HandlerInv
<1> QED
  BY <1>1 DEF Sound

\* A step that sets the locals of one thread keeps the threads' invariants if
\* the new locals are sound.
LEMMA ThreadSet ==
    ASSUME IInv, NEW m \in Nodes, NEW t \in Threads, NEW local \in Locals,
           Sound(m, local), thread' = [thread EXCEPT ![m][t] = local]
    PROVE  /\ thread' \in [Nodes -> [Threads -> Locals]]
           /\ \A k \in Nodes : HandlerInv(k)'
<1>1. thread \in [Nodes -> [Threads -> Locals]]
  BY DEF IInv, TypeOK
<1>2. thread' \in [Nodes -> [Threads -> Locals]]
  BY <1>1
<1>3. ASSUME NEW k \in Nodes PROVE HandlerInv(k)'
  <2> SUFFICES ASSUME NEW s \in Threads PROVE Sound(k, thread'[k][s])
    BY DEF HandlerInv, Sound, Listing
  <2>1. CASE k = m /\ s = t
    BY <1>1, <2>1
  <2>2. CASE k # m \/ s # t
    <3>1. thread'[k][s] = thread[k][s]
      BY <1>1, <2>2
    <3> QED BY <3>1 DEF IInv, HandlerInv
  <2> QED BY <2>1, <2>2
<1> QED
  BY <1>2, <1>3

-----------------------------------------------------------------------------
(* The steps of the main thread of n *)

\* A tick picks a peer from the list.
LEMMA NetTickInv ==
    ASSUME IInv, NEW n \in Nodes, NetTick(n) PROVE IInv'
<1> DEFINE next == (ask_offset[n] + 1) % Len(node_list[n])
<1>1. /\ node_list[n] \in Seq(NetNode) /\ Len(node_list[n]) \in Nat \ {0}
      /\ ask_offset[n] \in Nat
  <2>1. Len(own[n]) > 0
    BY PeersAssumption
  <2> QED BY <2>1 DEF IInv, MainInv, Listing, TypeOK
<1>2. next \in Nat
  BY <1>1
<1>3. \A i \in turn(n, next) : node_list[n][i].ip_port \in Addresses
  <2>1. \A i \in turn(n, next) : node_list[n][i] \in NetNode
    BY <1>1 DEF turn
  <2> QED BY <2>1 DEF NetNode
<1> HIDE DEF next
<1>4. /\ UNCHANGED <<node_list, answer, seen, thread>>
      /\ ask_offset' = [ask_offset EXCEPT ![n] = next]
      /\ \/ pc' = [pc EXCEPT ![n] = "handshake"]
         \/ pc' = pc
      /\ \/ \E i \in turn(n, next) :
                asked' = [asked EXCEPT ![n] = <<node_list[n][i].ip_port>>]
         \/ asked' = asked
  BY DEF NetTick, next
<1>5. TypeOK'
  BY <1>2, <1>3, <1>4 DEF IInv, TypeOK
<1>6. ASSUME NEW k \in Nodes PROVE MainInv(k)'
  BY <1>4, MainKept DEF IInv, TypeOK
<1>7. ASSUME NEW k \in Nodes PROVE HandlerInv(k)'
  BY <1>4, HandlerKept DEF IInv
<1> QED
  BY <1>5, <1>6, <1>7 DEF IInv

\* A handshake hands the caller's first address to a thread of m, unless m
\* has it.
LEMMA HandshakeInv ==
    ASSUME IInv, NEW n \in Nodes, NEW m \in Nodes, NEW t \in Threads,
           Handshake(n, m, t)
    PROVE  IInv'
<1> DEFINE rev_ip_port == node_list[n][1].ip_port
           taken == [thread[m][t] EXCEPT !.at = "load", !.ip_port = rev_ip_port,
                                         !.client = n]
<1>1. rev_ip_port \in Addresses
  BY FirstAddress DEF IInv, MainInv
<1>2. found(node_list[m], rev_ip_port) \/ rev_ip_port \notin OwnAddresses(m)
  BY OwnFound DEF IInv, MainInv
<1>3. /\ UNCHANGED <<node_list, ask_offset, asked, answer, seen>>
      /\ \/ pc' = [pc EXCEPT ![n] = "list"] /\ thread' = thread
         \/ /\ pc' = [pc EXCEPT ![n] = "await"]
            /\ ~found(node_list[m], rev_ip_port)
            /\ thread' = [thread EXCEPT ![m][t] = taken]
  BY DEF Handshake
<1>4. thread[m][t] \in Locals
  BY DEF IInv, TypeOK
<1>5. /\ taken \in Locals
      /\ taken.at = "load" /\ taken.ip_port = rev_ip_port
  BY <1>1, <1>4 DEF Locals
<1> HIDE DEF taken, rev_ip_port
<1>6. /\ thread' \in [Nodes -> [Threads -> Locals]]
      /\ \A k \in Nodes : HandlerInv(k)'
  <2>1. CASE thread' = thread
    BY <2>1, HandlerKept DEF IInv, TypeOK
  <2>2. CASE thread' # thread
    <3>1. Sound(m, taken)
      BY <1>2, <1>3, <1>5, <2>2 DEF Sound
    <3> QED BY <1>3, <1>5, <2>2, <3>1, ThreadSet
  <2> QED BY <2>1, <2>2
<1>7. TypeOK'
  BY <1>3, <1>6 DEF IInv, TypeOK
<1>8. ASSUME NEW k \in Nodes PROVE MainInv(k)'
  <2>1. pc'[k] = pc[k] \/ pc'[k] \notin {"load", "store"}
    BY <1>3 DEF IInv, TypeOK
  <2> QED BY <1>3, <2>1, MainKept DEF IInv
<1> QED
  BY <1>6, <1>7, <1>8 DEF IInv

LEMMA CallFailsInv ==
    ASSUME IInv, NEW n \in Nodes, CallFails(n) PROVE IInv'
<1>1. ASSUME NEW k \in Nodes, NEW s \in Threads
      PROVE  /\ thread'[k][s] \in Locals
             /\ thread'[k][s].at = thread[k][s].at
             /\ thread'[k][s].seen = thread[k][s].seen
             /\ thread'[k][s].ip_port = thread[k][s].ip_port
  <2>1. thread[k][s] \in Locals
    BY DEF IInv, TypeOK
  <2>2. \/ thread'[k][s] = [thread[k][s] EXCEPT !.client = Nobody]
        \/ thread'[k][s] = thread[k][s]
    BY DEF CallFails
  <2> QED BY <2>1, <2>2 DEF Locals
<1>2. thread' \in [Nodes -> [Threads -> Locals]]
  BY <1>1 DEF CallFails
<1>3. TypeOK'
  BY <1>2 DEF IInv, TypeOK, CallFails
<1>4. ASSUME NEW k \in Nodes PROVE MainInv(k)'
  BY MainKept DEF IInv, TypeOK, CallFails
<1>5. ASSUME NEW k \in Nodes PROVE HandlerInv(k)'
  BY <1>1, HandlerKept DEF IInv
<1> QED
  BY <1>3, <1>4, <1>5 DEF IInv

LEMMA GetNodeListInv ==
    ASSUME IInv, NEW n \in Nodes, NEW m \in Nodes, GetNodeList(n, m) PROVE IInv'
<1> DEFINE list == [i \in DOMAIN node_list[m] |-> node_list[m][i].ip_port]
<1>1. node_list[m] \in Seq(NetNode)
  BY DEF IInv, TypeOK
<1>2. list \in Seq(Addresses)
  <2>1. \A i \in 1 .. Len(node_list[m]) : node_list[m][i] \in NetNode
    BY <1>1
  <2>2. \A i \in 1 .. Len(node_list[m]) : node_list[m][i].ip_port \in Addresses
    BY <2>1 DEF NetNode
  <2>3. Len(node_list[m]) \in Nat /\ DOMAIN node_list[m] = 1 .. Len(node_list[m])
    BY <1>1
  <2> QED BY <2>2, <2>3
<1> HIDE DEF list
<1>3. /\ UNCHANGED <<node_list, ask_offset, asked, seen, thread>>
      /\ answer' = [answer EXCEPT ![n] = list]
      /\ pc' = [pc EXCEPT ![n] = "learn"] /\ pc[n] = "list"
  BY DEF GetNodeList, goto, list
<1>4. TypeOK'
  BY <1>2, <1>3 DEF IInv, TypeOK
<1>5. ASSUME NEW k \in Nodes PROVE MainInv(k)'
  <2>1. CASE k = n
    BY <1>3, <2>1 DEF IInv, TypeOK, MainInv, Listing
  <2>2. CASE k # n
    BY <1>3, <2>2, MainKept DEF IInv, TypeOK
  <2> QED BY <2>1, <2>2
<1>6. ASSUME NEW k \in Nodes PROVE HandlerInv(k)'
  BY <1>3, HandlerKept DEF IInv
<1> QED
  BY <1>4, <1>5, <1>6 DEF IInv

\* What the search of the main thread lets through is another's address.
LEMMA LearnInv ==
    ASSUME IInv, NEW n \in Nodes, Learn(n) PROVE IInv'
<1>1. answer[n] \in Seq(Addresses)
  BY DEF IInv, TypeOK
<1>2. answer[n] # <<>> => Tail(answer[n]) \in Seq(Addresses)
  BY <1>1
<1>3. TypeOK'
  BY <1>2 DEF IInv, TypeOK, Learn
<1>4. ~found(node_list[n], Head(answer[n])) => Head(answer[n]) \notin OwnAddresses(n)
  BY OwnFound DEF IInv, MainInv
<1>5. ASSUME NEW k \in Nodes PROVE MainInv(k)'
  <2>1. CASE k = n
    <3>1. Listing(n, node_list[n])'
      BY DEF IInv, MainInv, Listing, Learn
    <3> QED BY <2>1, <3>1, <1>4 DEF IInv, TypeOK, Learn, MainInv
  <2>2. CASE k # n
    <3>1. /\ node_list'[k] = node_list[k] /\ seen'[k] = seen[k]
          /\ answer'[k] = answer[k] /\ pc'[k] = pc[k]
      BY <2>2 DEF IInv, TypeOK, Learn
    <3> QED BY <3>1, MainKept DEF IInv
  <2> QED BY <2>1, <2>2
<1>6. ASSUME NEW k \in Nodes PROVE HandlerInv(k)'
  BY HandlerKept DEF IInv, Learn
<1> QED
  BY <1>3, <1>5, <1>6 DEF IInv

LEMMA LearnLoadInv ==
    ASSUME IInv, NEW n \in Nodes, LearnLoad(n) PROVE IInv'
<1>1. TypeOK'
  BY DEF IInv, TypeOK, LearnLoad, goto
<1>2. ASSUME NEW k \in Nodes PROVE MainInv(k)'
  <2>1. CASE k = n
    <3>1. /\ node_list'[n] = node_list[n] /\ seen'[n] = node_list[n]
          /\ answer'[n] = answer[n] /\ pc[n] = "load"
      BY DEF IInv, TypeOK, LearnLoad, goto
    <3>2. MainInv(n)
      BY DEF IInv
    <3>3. /\ Listing(n, node_list'[n]) /\ Listing(n, seen'[n])
          /\ answer'[n] # <<>> /\ Head(answer'[n]) \notin OwnAddresses(n)
      BY <3>1, <3>2 DEF MainInv
    <3>4. MainInv(n)'
      BY <3>3 DEF MainInv, Listing
    <3> QED BY <2>1, <3>4
  <2>2. CASE k # n
    BY <2>2, MainKept DEF IInv, TypeOK, LearnLoad, goto
  <2> QED BY <2>1, <2>2
<1>3. ASSUME NEW k \in Nodes PROVE HandlerInv(k)'
  BY HandlerKept DEF IInv, LearnLoad
<1> QED
  BY <1>1, <1>2, <1>3 DEF IInv

LEMMA LearnStoreInv ==
    ASSUME IInv, NEW n \in Nodes, LearnStore(n) PROVE IInv'
<1> DEFINE new == Append(seen[n], peer(Head(answer[n])))
<1>1. /\ answer[n] \in Seq(Addresses) /\ answer[n] # <<>>
      /\ Head(answer[n]) \in Addresses /\ Tail(answer[n]) \in Seq(Addresses)
  BY DEF IInv, TypeOK, MainInv, LearnStore, goto
<1>2. Listing(n, new)
  BY <1>1, ListingGrows DEF IInv, MainInv, LearnStore, goto
<1> HIDE DEF new
<1>3. new \in Seq(NetNode)
  BY <1>2 DEF Listing
<1>4. /\ node_list' = [node_list EXCEPT ![n] = new]
      /\ answer' = [answer EXCEPT ![n] = Tail(@)]
      /\ seen' = [seen EXCEPT ![n] = <<>>]
      /\ pc' = [pc EXCEPT ![n] = "learn"]
      /\ UNCHANGED <<ask_offset, asked, thread>>
  BY DEF LearnStore, goto, new
<1>5. TypeOK'
  BY <1>1, <1>3, <1>4 DEF IInv, TypeOK
<1>6. ASSUME NEW k \in Nodes PROVE Listing(k, node_list'[k])
  BY <1>2, <1>4 DEF IInv, TypeOK, MainInv
<1>7. ASSUME NEW k \in Nodes PROVE MainInv(k)'
  <2>1. CASE k = n
    <3>1. pc'[n] = "learn"
      BY <1>4 DEF IInv, TypeOK
    <3> QED BY <1>6, <2>1, <3>1 DEF MainInv, Listing
  <2>2. CASE k # n
    BY <1>4, <2>2, MainKept DEF IInv, TypeOK
  <2> QED BY <2>1, <2>2
<1>8. ASSUME NEW k \in Nodes PROVE HandlerInv(k)'
  BY <1>4 DEF IInv, HandlerInv, Listing
<1> QED
  BY <1>5, <1>7, <1>8 DEF IInv

-----------------------------------------------------------------------------
(* The steps of the handler threads of m *)

LEMMA OutsiderInv ==
    ASSUME IInv, NEW m \in Nodes, NEW t \in Threads, Outsider(m, t) PROVE IInv'
<1>1. PICK a \in Announced :
          /\ ~found(node_list[m], a)
          /\ thread' = [thread EXCEPT ![m][t] =
                           [thread[m][t] EXCEPT !.at = "load", !.ip_port = a]]
  BY DEF Outsider
<1> DEFINE local == [thread[m][t] EXCEPT !.at = "load", !.ip_port = a]
<1>2. a \in Addresses /\ a \notin OwnAddresses(m)
  BY <1>1, OwnFound DEF Addresses, IInv, MainInv
<1>3. thread[m][t] \in Locals
  BY DEF IInv, TypeOK
<1>4. /\ local \in Locals
      /\ local.at = "load" /\ local.ip_port = a
  BY <1>2, <1>3 DEF Locals
<1>5. thread' = [thread EXCEPT ![m][t] = local]
  BY <1>1
<1> HIDE DEF local
<1>6. /\ thread' \in [Nodes -> [Threads -> Locals]]
      /\ \A k \in Nodes : HandlerInv(k)'
  <2>1. Sound(m, local)
    BY <1>2, <1>4 DEF Sound
  <2> QED BY <1>4, <1>5, <2>1, ThreadSet
<1>7. UNCHANGED <<node_list, ask_offset, pc, asked, answer, seen>>
  BY DEF Outsider
<1>8. TypeOK'
  BY <1>6, <1>7 DEF IInv, TypeOK
<1>9. ASSUME NEW k \in Nodes PROVE MainInv(k)'
  BY <1>7, MainKept DEF IInv
<1> QED
  BY <1>6, <1>8, <1>9 DEF IInv

LEMMA HandlerLoadInv ==
    ASSUME IInv, NEW m \in Nodes, NEW t \in Threads, HandlerLoad(m, t) PROVE IInv'
<1> DEFINE local == [thread[m][t] EXCEPT !.at = "store", !.seen = node_list[m]]
<1>1. thread[m][t] \in Locals
  BY DEF IInv, TypeOK
<1>2. /\ local \in Locals
      /\ local.seen = node_list[m] /\ local.ip_port = thread[m][t].ip_port
  BY <1>1 DEF IInv, TypeOK, Locals
<1>3. Listing(m, node_list[m]) /\ thread[m][t].ip_port \notin OwnAddresses(m)
  BY DEF IInv, MainInv, HandlerInv, Sound, HandlerLoad
<1>4. /\ thread' = [thread EXCEPT ![m][t] = local]
      /\ UNCHANGED <<node_list, ask_offset, pc, asked, answer, seen>>
  BY DEF HandlerLoad
<1> HIDE DEF local
<1>5. /\ thread' \in [Nodes -> [Threads -> Locals]]
      /\ \A k \in Nodes : HandlerInv(k)'
  <2>1. Sound(m, local)
    BY <1>2, <1>3 DEF Sound
  <2> QED BY <1>2, <1>4, <2>1, ThreadSet
<1>6. TypeOK'
  BY <1>4, <1>5 DEF IInv, TypeOK
<1>7. ASSUME NEW k \in Nodes PROVE MainInv(k)'
  BY <1>4, MainKept DEF IInv
<1> QED
  BY <1>5, <1>6, <1>7 DEF IInv

LEMMA HandlerStoreInv ==
    ASSUME IInv, NEW m \in Nodes, NEW t \in Threads, HandlerStore(m, t) PROVE IInv'
<1> DEFINE new == Append(thread[m][t].seen, peer(thread[m][t].ip_port))
<1>1. thread[m][t] \in Locals
  BY DEF IInv, TypeOK
<1>2. /\ Listing(m, thread[m][t].seen) /\ thread[m][t].ip_port \notin OwnAddresses(m)
      /\ thread[m][t].ip_port \in Addresses /\ Idle.ip_port \in Addresses
  BY <1>1 DEF IInv, HandlerInv, Sound, HandlerStore, Idle, Addresses, Locals
<1>3. Listing(m, new)
  BY <1>2, ListingGrows
<1> HIDE DEF new
<1>4. /\ Idle \in Locals
      /\ Idle.at = "idle"
  BY <1>2 DEF Idle, Locals
<1>5. /\ thread' = [thread EXCEPT ![m][t] = Idle]
      /\ node_list' = [node_list EXCEPT ![m] = new]
      /\ pc' = [n \in Nodes |-> IF n = thread[m][t].client THEN "list" ELSE pc[n]]
      /\ UNCHANGED <<ask_offset, asked, answer, seen>>
  BY DEF HandlerStore, new
<1>6. /\ thread' \in [Nodes -> [Threads -> Locals]]
      /\ \A k \in Nodes : HandlerInv(k)'
  <2>1. Sound(m, Idle)
    BY <1>4 DEF Sound
  <2> QED BY <1>4, <1>5, <2>1, ThreadSet
<1>7. TypeOK'
  <2>1. new \in Seq(NetNode)
    BY <1>3 DEF Listing
  <2>2. node_list' \in [Nodes -> Seq(NetNode)]
    BY <1>5, <2>1 DEF IInv, TypeOK
  <2>3. pc' \in [Nodes -> {"tick", "handshake", "await", "list", "learn", "load",
                           "store"}]
    BY <1>5 DEF IInv, TypeOK
  <2> QED BY <1>5, <1>6, <2>2, <2>3 DEF IInv, TypeOK
<1>8. ASSUME NEW k \in Nodes PROVE MainInv(k)'
  <2>1. Listing(k, node_list'[k])
    BY <1>3, <1>5 DEF IInv, TypeOK, MainInv
  <2>2. pc'[k] = "list" \/ pc'[k] = pc[k]
    BY <1>5
  <2> QED BY <1>5, <2>1, <2>2 DEF IInv, MainInv, Listing
<1> QED
  BY <1>6, <1>7, <1>8 DEF IInv

-----------------------------------------------------------------------------
(* The theorems *)

LEMMA NextInv == IInv /\ [Next]_vars => IInv'
<1> SUFFICES ASSUME IInv, [Next]_vars PROVE IInv'
  OBVIOUS
<1>1. CASE UNCHANGED vars
  <2>1. TypeOK'
    BY <1>1 DEF vars, IInv, TypeOK
  <2>2. ASSUME NEW k \in Nodes PROVE MainInv(k)' /\ HandlerInv(k)'
    BY <1>1, MainKept, HandlerKept DEF vars, IInv
  <2> QED BY <2>1, <2>2 DEF IInv
<1>2. ASSUME NEW n \in Nodes, MainThread(n) PROVE IInv'
  BY <1>2, NetTickInv, CallFailsInv, LearnInv, LearnLoadInv, LearnStoreInv,
     GetNodeListInv, HandshakeInv DEF MainThread
<1>3. ASSUME NEW m \in Nodes, NEW t \in Threads, Handler(m, t) \/ Outsider(m, t)
      PROVE  IInv'
  BY <1>3, HandlerLoadInv, HandlerStoreInv, OutsiderInv DEF Handler
<1> QED
  BY <1>1, <1>2, <1>3 DEF Next

LEMMA Inductive == Spec => []IInv
BY InitInv, NextInv, PTL DEF Spec

\* The lists, the offsets and what every thread holds in between are of their
\* types, for any number of nodes, addresses and handler threads.
THEOREM PeersTypeCorrect == Spec => []TypeOK
<1>1. IInv => TypeOK
  BY DEF IInv
<1> QED
  BY <1>1, Inductive, PTL

\* However handshakes, lists and lost pushes interleave, and whatever addresses
\* are announced, no own address of a node is ever listed as a peer's: both
\* searches find it, because no push that works on an old copy of the list can
\* drop the own entries.  Other names of the node are outside of the claim.
THEOREM NoOwnAddressTwice == Spec => []OwnAddressesOnce
<1>1. IInv => OwnAddressesOnce
  BY DEF IInv, MainInv, Listing, OwnAddressesOnce, knows
<1> QED
  BY <1>1, Inductive, PTL

\* The own addresses keep their place at the head of the list, so that
\* node_list[0] in a handshake is always an address of the caller.
THEOREM OwnFirst == Spec => []StartsWithSelf
<1>1. IInv => StartsWithSelf
  BY DEF IInv, MainInv, Listing, StartsWithSelf
<1> QED
  BY <1>1, Inductive, PTL

=============================================================================
