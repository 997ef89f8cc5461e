-------------------------------- MODULE Peers --------------------------------
(***************************************************************************)
(* How nodes come to know each other: gns.node_list of every process, the  *)
(* round robin of net_tick over it, and the first half of net_ask_con,     *)
(* which introduces the caller to the peer (handshake) and takes over what *)
(* the peer knows (get_node_list).                                         *)
(*                                                                         *)
(* node_list is a vector that the main thread and the handler threads      *)
(* search and grow without a lock: a search and the push_back after it are *)
(* separate steps, and so are the read and the write of a push_back.       *)
(*                                                                         *)
(* Left out: the flag and the block a NetNode carries (nothing reads       *)
(* them), and block_broadcast, whose call reaches no method of any server. *)
(***************************************************************************)
EXTENDS Integers, Sequences, FiniteSets

CONSTANTS
    Nodes,          \* the processes
    own,            \* the addresses of each, in the order of its interfaces
    seed_ip_port,   \* the address every node is started with
    Announced,      \* what outsiders may say in a handshake: any addresses
    Behind(_, _),   \* Behind(a, n): the processes that n reaches under a when
                    \* a is not one of the addresses above: none, itself (a
                    \* loopback address), or one that has another name too
    Threads,        \* the handler threads of each process
    Nobody          \* no caller waits for the answer

OwnAddresses(n) == {own[n][i] : i \in DOMAIN own[n]}
AllOwn == UNION {OwnAddresses(n) : n \in Nodes}
Addresses == AllOwn \cup {seed_ip_port} \cup Announced
NetNode == [ip_port : Addresses, is_self : BOOLEAN]

ASSUME PeersAssumption ==
    /\ Nobody \notin Nodes
    /\ \A n \in Nodes : own[n] \in Seq(OwnAddresses(n)) /\ own[n] # <<>>
    /\ \A m, n \in Nodes : m # n => OwnAddresses(m) \cap OwnAddresses(n) = {}

VARIABLES
    node_list, ask_offset,    \* gns, per process
    pc,                       \* where the main thread is
    asked,                    \* whom net_ask_con talks to: <<address>>, or <<>>
    answer,                   \* what is left of the peer's list
    seen,                     \* node_list as its push_back read it
    thread                    \* the handler threads

vars == <<node_list, ask_offset, pc, asked, answer, seen, thread>>

Idle == [at |-> "idle", ip_port |-> seed_ip_port, client |-> Nobody, seen |-> <<>>]

Locals == [at : {"idle", "load", "store"}, ip_port : Addresses,
           client : Nodes \cup {Nobody}, seen : Seq(NetNode)]

peer(a) == [ip_port |-> a, is_self |-> FALSE]

\* The searches: it->ip_port == ip_port for some it
found(list, a) == \E i \in DOMAIN list : list[i].ip_port = a

\* net_tick counts the peers and skips the own entries: the peer it comes to
\* with that many before it.
turn(n, before) ==
    {i \in DOMAIN node_list[n] :
        /\ ~node_list[n][i].is_self
        /\ Cardinality({j \in 1 .. i - 1 : ~node_list[n][j].is_self}) = before}

Init ==
    /\ node_list = [n \in Nodes |->
           [i \in DOMAIN own[n] |-> [ip_port |-> own[n][i], is_self |-> TRUE]]
               \o IF seed_ip_port \in OwnAddresses(n)
                  THEN <<>> ELSE <<peer(seed_ip_port)>>]
    /\ ask_offset = [n \in Nodes |-> 0]
    /\ pc = [n \in Nodes |-> "tick"]
    /\ asked = [n \in Nodes |-> <<>>]
    /\ answer = [n \in Nodes |-> <<>>] /\ seen = [n \in Nodes |-> <<>>]
    /\ thread = [n \in Nodes |-> [t \in Threads |-> Idle]]

\* The address asked is one of m's, or another name of m.
reaches(n, m) ==
    \E a \in Addresses :
        /\ asked[n] = <<a>>
        /\ a \in OwnAddresses(m) \/ (a \notin AllOwn /\ m \in Behind(a, n))

goto(n, from, to) == pc[n] = from /\ pc' = [pc EXCEPT ![n] = to]

-----------------------------------------------------------------------------
(* The main thread of n *)

\* Mutant: the count begins with the offset at one
NetTick_short(n) ==
    /\ pc[n] = "tick"
    /\ LET next == (ask_offset[n] + 1) % Len(node_list[n])
       IN  /\ ask_offset' = [ask_offset EXCEPT ![n] = next]
           /\ \/ \E i \in turn(n, next + 1) :
                    /\ asked' = [asked EXCEPT ![n] = <<node_list[n][i].ip_port>>]
                    /\ pc' = [pc EXCEPT ![n] = "handshake"]
              \/ turn(n, next + 1) = {} /\ UNCHANGED <<asked, pc>>
    /\ UNCHANGED <<node_list, answer, seen, thread>>

\* net_tick: the offset runs over the whole list, the peers are counted
\* without the own entries, so that a tick now and then asks nobody.
NetTick(n) ==
    /\ pc[n] = "tick"
    /\ LET next == (ask_offset[n] + 1) % Len(node_list[n])
       IN  /\ ask_offset' = [ask_offset EXCEPT ![n] = next]
           /\ \/ \E i \in turn(n, next) :
                    /\ asked' = [asked EXCEPT ![n] = <<node_list[n][i].ip_port>>]
                    /\ pc' = [pc EXCEPT ![n] = "handshake"]
              \/ turn(n, next) = {} /\ UNCHANGED <<asked, pc>>
    /\ UNCHANGED <<node_list, answer, seen, thread>>

\* The handshake reaches thread t of m: handshakeI looks for the caller's
\* first address and, when it finds it, answers.
Handshake(n, m, t) ==
    /\ pc[n] = "handshake" /\ reaches(n, m)
    /\ thread[m][t].at = "idle"
    /\ LET rev_ip_port == node_list[n][1].ip_port
       IN  IF found(node_list[m], rev_ip_port)
           THEN pc' = [pc EXCEPT ![n] = "list"] /\ UNCHANGED thread
           ELSE /\ pc' = [pc EXCEPT ![n] = "await"]
                /\ thread' = [thread EXCEPT ![m][t] =
                      [@ EXCEPT !.at = "load", !.ip_port = rev_ip_port,
                                !.client = n]]
    /\ UNCHANGED <<node_list, ask_offset, asked, answer, seen>>

\* A call throws: nobody is there, or the answer is late or lost.  catch (...)
\* ends net_ask_con; what the peer has begun goes on.
CallFails(n) ==
    /\ pc[n] \in {"handshake", "await", "list"}
    /\ pc' = [pc EXCEPT ![n] = "tick"]
    /\ thread' = [m \in Nodes |-> [t \in Threads |->
           IF thread[m][t].client = n
           THEN [thread[m][t] EXCEPT !.client = Nobody] ELSE thread[m][t]]]
    /\ asked' = [asked EXCEPT ![n] = <<>>]
    /\ UNCHANGED <<node_list, ask_offset, answer, seen>>

\* Mutant: takes over the entries of the peer as they are
GetNodeList_entries(n, m) ==
    /\ goto(n, "list", "learn") /\ reaches(n, m)
    /\ answer' = [answer EXCEPT ![n] = node_list[m]]
    /\ UNCHANGED <<node_list, ask_offset, asked, seen, thread>>

\* get_node_list
GetNodeList(n, m) ==
    /\ goto(n, "list", "learn") /\ reaches(n, m)
    /\ answer' = [answer EXCEPT ![n] =
           [i \in DOMAIN node_list[m] |-> node_list[m][i].ip_port]]
    /\ UNCHANGED <<node_list, ask_offset, asked, seen, thread>>

\* Mutant: takes over addresses without looking for them
Learn_unchecked(n) ==
    /\ pc[n] = "learn"
    /\ IF answer[n] = <<>>
       THEN /\ pc' = [pc EXCEPT ![n] = "tick"]
            /\ asked' = [asked EXCEPT ![n] = <<>>]
       ELSE pc' = [pc EXCEPT ![n] = "load"] /\ UNCHANGED asked
    /\ UNCHANGED <<node_list, ask_offset, answer, seen, thread>>

\* The loop over the answer: skip a known address.  When it is over, what is
\* left of net_ask_con leaves node_list alone.
Learn(n) ==
    /\ pc[n] = "learn"
    /\ \/ /\ answer[n] = <<>>
          /\ pc' = [pc EXCEPT ![n] = "tick"]
          /\ asked' = [asked EXCEPT ![n] = <<>>]
          /\ UNCHANGED answer
       \/ /\ answer[n] # <<>> /\ found(node_list[n], Head(answer[n]))
          /\ answer' = [answer EXCEPT ![n] = Tail(@)]
          /\ UNCHANGED <<pc, asked>>
       \/ /\ answer[n] # <<>> /\ ~found(node_list[n], Head(answer[n]))
          /\ pc' = [pc EXCEPT ![n] = "load"]
          /\ UNCHANGED <<answer, asked>>
    /\ UNCHANGED <<node_list, ask_offset, seen, thread>>

\* gns.node_list.push_back(node)
LearnLoad(n) ==
    /\ goto(n, "load", "store")
    /\ seen' = [seen EXCEPT ![n] = node_list[n]]
    /\ UNCHANGED <<node_list, ask_offset, asked, answer, thread>>

LearnStore(n) ==
    /\ goto(n, "store", "learn")
    /\ node_list' = [node_list EXCEPT ![n] =
                         Append(seen[n], peer(Head(answer[n])))]
    /\ answer' = [answer EXCEPT ![n] = Tail(@)]
    /\ seen' = [seen EXCEPT ![n] = <<>>]
    /\ UNCHANGED <<ask_offset, asked, thread>>

-----------------------------------------------------------------------------
(* The handler threads of m *)

\* Somebody else announces an address, which nobody checks or normalizes.
Outsider(m, t) ==
    /\ thread[m][t].at = "idle"
    /\ \E a \in Announced :
         /\ ~found(node_list[m], a)
         /\ thread' = [thread EXCEPT ![m][t] =
                           [@ EXCEPT !.at = "load", !.ip_port = a]]
    /\ UNCHANGED <<node_list, ask_offset, pc, asked, answer, seen>>

HandlerLoad(m, t) ==
    /\ thread[m][t].at = "load"
    /\ thread' = [thread EXCEPT ![m][t] =
                      [@ EXCEPT !.at = "store", !.seen = node_list[m]]]
    /\ UNCHANGED <<node_list, ask_offset, pc, asked, answer, seen>>

\* Mutant: the caller is not added
HandlerStore_lost(m, t) ==
    /\ thread[m][t].at = "store"
    /\ thread' = [thread EXCEPT ![m][t] = Idle]
    /\ pc' = [n \in Nodes |-> IF n = thread[m][t].client THEN "list" ELSE pc[n]]
    /\ UNCHANGED <<node_list, ask_offset, asked, answer, seen>>

\* Mutant: a new peer comes first
HandlerStore_front(m, t) ==
    /\ thread[m][t].at = "store"
    /\ node_list' = [node_list EXCEPT ![m] =
                         <<peer(thread[m][t].ip_port)>> \o thread[m][t].seen]
    /\ thread' = [thread EXCEPT ![m][t] = Idle]
    /\ pc' = [n \in Nodes |-> IF n = thread[m][t].client THEN "list" ELSE pc[n]]
    /\ UNCHANGED <<ask_offset, asked, answer, seen>>

\* The end of push_back and the answer, for who still waits for it
HandlerStore(m, t) ==
    /\ thread[m][t].at = "store"
    /\ node_list' = [node_list EXCEPT ![m] =
                         Append(thread[m][t].seen, peer(thread[m][t].ip_port))]
    /\ thread' = [thread EXCEPT ![m][t] = Idle]
    /\ pc' = [n \in Nodes |-> IF n = thread[m][t].client THEN "list" ELSE pc[n]]
    /\ UNCHANGED <<ask_offset, asked, answer, seen>>

-----------------------------------------------------------------------------
MainThread(n) ==
    \/ NetTick(n) \/ CallFails(n) \/ Learn(n) \/ LearnLoad(n) \/ LearnStore(n)
    \/ \E m \in Nodes : GetNodeList(n, m) \/ \E t \in Threads : Handshake(n, m, t)

Handler(m, t) == HandlerLoad(m, t) \/ HandlerStore(m, t)

Next == \/ \E n \in Nodes : MainThread(n)
        \/ \E m \in Nodes, t \in Threads : Handler(m, t) \/ Outsider(m, t)

Spec == Init /\ [][Next]_vars

\* The node that the others are told of at the start
Seed == CHOOSE n \in Nodes : seed_ip_port \in OwnAddresses(n)

\* Every thread is scheduled, and a call to the seed that is tried again and
\* again gets through at last.  Other calls may all fail, and nobody owes an
\* announcement.
FairSpec ==
    /\ Spec
    /\ \A n \in Nodes :
         WF_vars(MainThread(n)) /\ \A t \in Threads : WF_vars(Handler(n, t))
    /\ \A n \in Nodes \ {Seed} :
         /\ SF_vars(GetNodeList(n, Seed))
         /\ SF_vars(\E t \in Threads : Handshake(n, Seed, t))

-----------------------------------------------------------------------------
(* Properties *)

TypeOK ==
    /\ node_list \in [Nodes -> Seq(NetNode)]
    /\ ask_offset \in [Nodes -> Nat]
    /\ pc \in [Nodes -> {"tick", "handshake", "await", "list", "learn", "load",
                         "store"}]
    /\ asked \in [Nodes -> {<<>>} \cup {<<a>> : a \in Addresses}]
    /\ answer \in [Nodes -> Seq(Addresses)]
    /\ seen \in [Nodes -> Seq(NetNode)]
    /\ thread \in [Nodes -> [Threads -> Locals]]

knows(n, a) == \E i \in DOMAIN node_list[n] : node_list[n][i] = peer(a)

\* An address of an interface of the node never comes onto its list as that of a
\* peer, whatever handshakes, lists and pushes on old copies bring.  That does not
\* keep the node from asking itself: main.cpp leaves 127.0.0.1 out of the own
\* addresses and handshakeI does not normalize, so a loopback address or another
\* name of the node is a peer like any other (Behind).
OwnAddressesOnce == \A n \in Nodes : \A a \in OwnAddresses(n) : ~knows(n, a)

\* Whatever races the pushes lose, the list begins with the addresses of its
\* node: node_list[0], which a handshake sends, is one under which the node
\* can be reached.
StartsWithSelf ==
    \A n \in Nodes : /\ Len(node_list[n]) >= Len(own[n])
                     /\ \A i \in DOMAIN own[n] :
                          node_list[n][i] = [ip_port |-> own[n][i], is_self |-> TRUE]

\* Every peer on the list has its turn, although the offset is taken modulo
\* another number than the number of peers, which grows meanwhile; dead peers
\* do not keep the others from theirs.
EveryPeerAsked ==
    \A n \in Nodes : \A a \in Addresses :
        knows(n, a) ~> \/ asked[n] = <<a>>
                       \/ ~knows(n, a)

\* In the end everybody knows everybody, although each node was told of the
\* seed only, and races between pushes lose addresses.
Acquainted ==
    \A m, n \in Nodes : m # n => <>[](knows(n, own[m][1]))

==============================================================================
