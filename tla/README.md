# chain_golf_hot_potatoes: specifications, model checking, proofs

A small account-based block chain node in C++ (`src/src/*.cpp`, about 1500
lines of its own code, on top of a vendored ed25519). This directory holds
TLA+ modules translated from that code, TLC configurations that check them on
small instances, and TLAPS proofs of what can be proved for every instance.

Paths below are relative to the repository; line numbers refer to the commit
in `src/`.

## 1. Inventory

The process is one `main()` (main.cpp) with three kinds of threads: the main
thread, the threads of the private HTTP server (port 10002, `LocalServer`) and
those of the public one (port 10001, `GlobalServer`). All of them use the
globals `gms` (db.hpp:18), `gns` (net.hpp:11) and `my_*` (db.hpp:41), and no
lock exists anywhere. Nothing but the two key files is stored on disk.

| component | files | state | operations |
|---|---|---|---|
| ledger rules | block.hpp, block.cpp | none (reads and writes `gms`) | `tx_sign`, `tx_validate`, `tx_apply`, `merkle_tree_calc`, `block_sign`, `block_validate`, `block_apply`, JSON both ways |
| block production | db.hpp, db.cpp | `gms`: ready, chain, tx_list, proposal, done_tx_hash, a2pk, balance | `gms_init`, `gms_account_new`, `block_propose`, `proposed_block_replace` |
| main loop | main.cpp:211-243 | `work`, `last_bc` | net_tick, propose, five subticks, commit |
| chain download | net.cpp:5-83 | locals of `net_ask_con`, `gms.target_bc_height` | height, blocks, proposal of one peer |
| peer list | net.hpp, net.cpp:10-29, 85-138, rpc_server_global.cpp:89-120 | `gns.node_list`, ask_offset, broadcast_offset | handshake, get_node_list, choice of the next peer, broadcast |
| handlers that write | rpc_server_local.cpp, rpc_server_global.cpp, rpc_util.cpp:29-71 | `gms.tx_list`, the proposal, `my_*`, `work` | transfer, address_transfer, tx_push, proposed_block_push, debug_set_key, shutdown |
| handlers that read | rpc_server_local.cpp, rpc_util.cpp:1-27 | none | bc_height, get_node_list, get_block_number, get_proposed_block, balance, my addresses |
| start-up and keys | main.cpp:12-198, fs.cpp, db.hpp:57-63 | pub.key, prv.key | options, own addresses, load, generate and save keys |
| text formats | block.hpp:10-48, block.cpp:16-86, 163-181, 243-269, address.cpp | none | hex of byte arrays, headers and blocks as JSON, the bytes that are signed; decimal addresses |
| curve and signatures | fe.c, ge.c, sc.c, precomp_data.h, keypair.c, sign.c, verify.c | the table `base`, its `active_row` | field and scalar arithmetic on limbs, points, the table computed at start-up (main.cpp:57), key pairs, signatures |
| library calls without a caller | add_scalar.c, key_exchange.c | none | `ed25519_add_scalar`, `ed25519_key_exchange`: main.cpp includes the second file only and calls neither |
| hash | sha512.c | a context: length, state, buffer | init, update, final |
| seeds | seed.c | none | 32 bytes of /dev/urandom |
| pristine copies | `originals/ed25519`, 1_precomp_data.h | | the library before it was edited; nothing includes it |
| weights | block.cpp:5-13, 60-86, db.hpp:13-16, 36-38 | caches nothing reads | `hash2weight`, `*_weight_calc` |
| the rest | rpc_client.cpp, build.coffee, main.cpp in the root, scripts | | unused client, minifier and its output, builds, curl tests |

How they interact. The main thread alone appends blocks and moves balances.
It calls `net_ask_con`, which is a client of another process's public server,
and through `block_apply` and `proposed_block_replace` it changes what the
handlers read at the same moment. The handlers write three things the main
thread reads: the queue `tx_list`, the proposal slot, and the node's keys. A
node learns of other nodes from their peer lists and by their handshakes.

What makes it hard. Every access of a vector by two threads at once; a
proposal slot made of a flag and a block that are written separately, by the
main thread and by anybody on the network; a queue that is copied, then
cleared, while others append; validation of a transaction long before its
application; u32 arithmetic on balances; three separate writes that change
identity; peers that answer anything, late or never.

What makes each component correct:

- ledger: coins are conserved modulo 2^32 except for the penalty; no committed
  transaction is committed again; no transfer overdraws; only the owner spends;
- block production: what is committed is what was proposed and validated, with
  the id of its place in the chain and a good header;
- main loop: there is a proposal when one is committed; the chain only grows,
  one block at a time; accounts are the ones the chain issued; the process stops
  when told to; queued transactions reach a committed block;
- download: the copy is in order, starts with the genesis block and creates its
  account, and comes to an end;
- peer list: every known peer is asked again and again; nodes come to know each
  other;
- start-up: a node does not lose or mix up its keys over a crash;
- text formats: a header that was signed arrives as it was signed;
- curve and signatures: the table is the one it replaces, no limb overflows on
  the way, sign and verify and the key derivations agree with the textbook;
- hash: the digest depends on the bytes only, not on the parts they came in.

## 2. Plan

In this order, the most important behaviour first:

1. `Ledger`, the rules as pure operators. **Done.**
2. `Node`, the main loop with the handlers interleaved at every access of a
   global; `BlockLog`, the abstract log it implements; `NodeAudit`, the
   properties that need a history variable; `MCNode`. **Done.**
3. `NodeProofs`: types, the assertion before the commit, the accounts, the
   refinement; then coins, replays, proposals, headers and ids of a node
   without peers; `LedgerProofs`, `Recursion`: the lemmas they rest on. **Done.**
4. `Peers`: the peer lists of several nodes, handshake, node list exchange,
   the round robin of `net_tick`, with liveness; `PeersProofs`. **Done.**
5. `Network`: several nodes at the level of the remote calls, with restarts,
   served by each other's chains; `NetworkProofs`: types, equal ledgers of equal
   chains, the prefix that a joining node holds. **Done.**
6. `KeyStore`: key files, failing writes, crashes, power loss;
   `KeyStoreProofs`. **Done.**
7. `Field`, `FieldValues`, `Curve`, `Group`, `GroupMult`, `Scalar`,
   `Ed25519`, `Ed25519Audit`: the edited ed25519 against the textbook;
   `Ed25519Proofs`: types and limbs for a field of any size. **Done.** To be
   proved: the limbs of `Scalar` at the code's sizes, on which the hypothesis of
   these proofs rests; the scalar multiplication of `verify`.
8. `Sha512`, `Sha512Block`, `HashSpec`, `HashRounds`: the hash as a refinement
   of "pad, then cut into blocks"; `Wire`: a block on its way from its author
   to another node; `WireProofs`: both, for any sizes. **Done.**

## 3. The modules

### Ledger

Pure operators named after the functions of block.cpp. Transactions and blocks
are records with the fields the code uses; left out are `nonce` (not hashed by
`SL2`, never read), `version`, `prev_hash` (written, never compared), and the
`weight` caches. A key pair is one value. A signature is the key under which it
verifies (or `NoKey`) and a form, for one key has several signatures of one
message: verify.c:54 looks at the top three bits only, so that S and S plus the
group order both pass, and whoever has the key may draw another R; `tx_push`
takes any of them. A transaction hash is the tuple of the fields `SL2` feeds to
sha512; a block hash is its first byte, since `operator>` (block.hpp:9) has a
misplaced parenthesis that makes it compare one byte for being different. `U32`
is the modulus: 2^32 in the code, 2^24 in the runs, because TLC's integers have
32 bits and `amount + fee` has to fit.

Behaviours of the code the operators keep: `block_validate` ignores the answer
of `block_header_validate` and validates all transactions against the same
state; the debit precedes the credit and both wrap; JSON drops hash and
signature of a transaction (`tx_over_json`). `done_tx_hash` is keyed by a C
string that begins at the hash (block.cpp:143). `done_key` is what that string
is: the hash cut at its zero byte (`NulAt` says where it has one); else the hash
and the signature, cut at a zero byte of the latter (`UpToNul`); else also what
lies behind the signature (`tail`): four bytes of padding, which nobody
initialises (`Garbage`), and, if these have no zero byte, the weight, which
`block_weight_calc` sets (`Weighed`).

### Node

One node, its main thread cut at every access of shared memory:

| `pc` | code |
|---|---|
| loop, branch, tick, assert, reset, done | main.cpp:211-241 |
| ask, download, genesis_key, genesis_balance, ask_proposal | `net_ask_con` |
| propose, copy, clear, seal | `block_propose` |
| test, set_flag, set_block | `proposed_block_replace` |
| apply_tx, apply_penalty, issue_key, issue_balance, append | `block_apply`, `gms_account_new` |
| crashed | an uncaught exception, or memory the code does not own |

`caller` is the call stack: the same functions are called from the loop, from
the proposal, from a subtick and from the commit. `block_apply` takes its
block by reference, so during a commit `applied` is whatever is in
`proposed_block` at that moment. A handler thread has a place (`at`) and the
locals it carries between its accesses. `push_back` is two steps (read the
end, write it), as two threads without a lock make it; reads and writes of
one flag or one key are one step.

What the other nodes send is chosen freely from the sets of the constants, in
the form it has after the trip through JSON; a call that fails or a peer that
does not answer is `AskNobody` or an early end. The broadcast after a
replacement calls `block_push`, which no server binds, so it has no effect on
anybody's state and is not an action. `transferI` reads owner, balance and keys
without a lock, signs, and validates what it has signed; that is one step
(`Transfer`), since only the result goes on and `Seal` validates it again.
`debug_set_key` does not look whether the private key belongs to the public one:
what two such halves sign is nobody's signature, and the run node_live has a
request of that kind.

`TypeOK`, `CommitHasProposal` and `AccountsMatchChain` are its invariants;
`ImplementsLog` is the refinement of `BlockLog`.

### BlockLog

What a node promises: an append-only log of blocks and one slot for a
proposal. A block is appended either out of the slot, which empties it, or as
an import. `log` is the chain, `slot` is the proposal while
`is_proposal_valid` holds; the commit is the step that appends the block, one
step before the flag is reset (`standing` in Node).

### NodeAudit, MCNode

NodeAudit adds a history variable with the coins that the penalty burned (the
genesis block's penalty included), and states the ledger's properties:
conservation, replays, what a proposal looks like when it is committed, ids, the
claim "overflow protection", which does not hold, and two liveness properties.
`ReplayFree` says when a committed transaction can be committed again in a later
block: only when its hash has no zero byte and the string behind it differs, by
a second signature or by other padding; both happen. Copies within one block are
outside of it, as the code does not refuse them. `QueueCommits` follows a
transfer that is queued when a round begins: the block which that round commits
has it, or the process dies on the way. A proposal by somebody else that takes
the place of the own one loses it, which is why node_live has none. The sum over
the balances is a recursive function, which the provers can unfold; so is the
loop over the transactions of a block in Network (`tx_list_apply`). MCNode
defines the request and block sets of the runs.

### Peers, MCPeers, PeersProofs

The `node_list` of every process. The main thread of each node picks a peer
(`NetTick`, lines 126-137 of net.cpp: the offset runs modulo the length of the
whole list, the peers are counted without the own entries), hands over its
first address (`Handshake`) and takes over the peer's list (`GetNodeList`,
`Learn`). A handler thread that does not find the caller's address appends it
(`HandlerLoad`, `HandlerStore`). A search, the read of the vector by a
`push_back` and its write are separate steps, in the main thread as in the
handlers, so a push may drop what another one has added meanwhile. A call may
fail at any point; what the peer has begun goes on without the caller.
`Outsider` is a handshake by somebody who announces any address of `Announced`,
which may be an own one of the node. What a node reaches under an address that is
nobody's own is given by `Behind`: nobody, or the caller itself. The latter is the
case of the runs: main.cpp:121 leaves 127.0.0.1 out of the own addresses and
handshakeI does not normalize what it is given (the TODO of
rpc_server_global.cpp:103), so a node that is told of a loopback address, or of
another name of its own, becomes its own peer and asks itself in its turn.
`OwnAddressesOnce` claims no more than the code does: the addresses of its
interfaces, as main found them, never come onto its list as peers.

### Network, MCNetwork

Several nodes that are each other's peers. `gms[n]` is the `MemState` of node
n, `main[n]` the place of its main thread with the locals of `net_ask_con`.
The steps are the remote calls (`AskHeight`, `Download`, `AskProposal`: one
`CallMethod` each, with what the caller does with the answer) and what happens
between them (`Propose`, `Commit`). Within a step the node is alone: module
Node is about what its own handlers can do in between. `block_apply` is one
function here, built from the same operators of Ledger that Node uses one by
one. `Restart` replaces a process by a new one, which has its keys but no
chain; a restarted seed makes a new genesis block. `proposed_block_push` has no
caller among the nodes and is left to Node. A node that asks itself under another
name (see Peers) finds its own height and becomes ready whatever the others have;
nodes ask only others here, and Node, whose peers may have any height, has that
answer. `HeldUp` is a node whose next block has a transaction: the transaction
comes without hash and signature, the block does not validate, and the node asks
for it forever. `Joins` therefore promises that a node becomes ready or is held
up in front of such a block, with all blocks before it.

### KeyStore, MCKeyStore, KeyStoreProofs

The two key files from start to start. `file_save` is two steps: the `fopen`,
which truncates, and the `fclose`, which writes, since a key is smaller than
stdio's buffer. A write that fails at the `fclose` goes unnoticed or not
(`ferror` of a closed file is undefined). `Exit` is the end of the process at
any point, `PowerLoss` also takes what the system has not written back
(`dirty`; the code never syncs). `DropPub`
and `DropPrv` are the two `remove` calls, each of which may fail unnoticed
(main.cpp:101): drop_keys can leave one file, and the start then ends in `Refuse`,
or both, and the old pair is loaded. That a removed file might come back after a
power loss is left out.

### Field, FieldValues, Curve

`Field` is fe.c limb by limb: ten signed limbs of alternating size, sums without
carries, products as double sums with the factors 2 and 19, the twelve carries
after a product and the ten after loading in the code's order, packing with the
estimated quotient. The two sizes of a limb are constants. `FieldValues` is the
same interface one level up: an element is its value and a bound on its limbs in
hundredths of 2^25, as the comments of fe.c state preconditions and results. A
product of factors beyond their bound is `TooLarge` for every operation after
it, and what `fe_tobytes` makes of such an element is `Torn`, a number that is
no encoding whatever the size of the prime. The other modules use FieldValues,
which is cheap, and carry the bounds along; `LimbsAgree` checks Field against
it, on all values that occur. `Curve` is the textbook: affine points, the
addition law, multiples, encodings.

### Group, GroupMult, Scalar

ge.c in its coordinates (`ge_p2`, `ge_p3`, `ge_p1p1`, cached, precomputed),
with unpacking of a point and its two refusals; `GroupMult` has the rows of
the table, the constant-time `select`, the signed digits of
`ge_scalarmult_base`, the sliding windows of `slide` and the product with two
scalars. `Scalar` is sc.c: twenty-four limbs, folded by the order, with the
rounding and flooring carries in the code's order; packing ORs the limbs
together, as the code does, and is meaningful only if they are disjoint.

### Ed25519, Ed25519Audit, MCEd25519

State machine of the library in this program: `ComputeRow` is a turn of the loop
of `compute_lookup_table` (one row of the table; nothing else runs before it
ends, main.cpp:57), then `Generate` (`key_gen` and `ed25519_create_keypair`),
`AddScalar` and `Sign` in any order. The program never calls
`ed25519_add_scalar` or `ed25519_key_exchange`, and main.cpp does not even
include add_scalar.c: `AddScalar`, `DerivationsAgree` and `SecretsAgree` are
about the library that lies beside it, as its users would call it. `Verify`,
`AddToPublic` and the ladder of `ed25519_key_exchange` change nothing and are
operators that the properties use. The audit compares everything with `Curve`
and integers.

### Sha512, Sha512Block, HashSpec, HashRounds

`Sha512` has the context `md` and a call in progress (`in`, `calls`): each turn
of the loop of `sha512_update` is an action (`DirectBlock` past the buffer,
`FillBuffer` through it), `Final` is `sha512_final` with its padding. `fed` is
a history variable. `Sha512Block` is `sha512_compress` with the code's moving
register names and its shorter choice and majority. `HashSpec` is FIPS 180-4,
which pads the whole message first; what a block does to the state is a
parameter of it. `ImplementsHash` is the refinement with `text <- fed` and the
code's own compression: the digest depends on the bytes alone. `HashRounds` has
the rounds of the standard, which moves the registers on; `ImplementsStandard`
(MCWire) is the refinement with these.

### Wire, MCWire

One block at a time: the author folds signatures into the tree
(`HashTx`, `StoreRoot`), hashes and signs the packed header (`HashHeader`,
`StoreHash`), answers `get_block_number` (`Serve`); the peer reads the JSON or
drops it (`Receive`, `Refuse`), hashes the header again (`CheckHeader`) and
then the tree (`Compare`). All of it uses the context of `Sha512`, between
other users of the hash. A signature is a function of the bytes and the key;
Ed25519 is about what it is made of. `str2` takes `0`-`9`, `a`-`f` and, of the
capital letters, only `A` (block.hpp:19). `Headers` has the widths of block.hpp
as constants. `MerkleRoot` is the definition that the tree is compared with,
and `NoCollision` what `Delivered` takes for granted of it.

### The modules of proofs

`NodeProofs` (with what `NodeAudit` claims), `NetworkProofs`, `PeersProofs`,
`KeyStoreProofs`, `Ed25519Proofs` and `WireProofs` (Sha512 and Wire) extend the
module they are about.
`LedgerProofs` has what the operators of Ledger keep (types, lengths) and the
arithmetic modulo U32; `Recursion` has induction over the natural numbers and
the existence of functions defined step by step. See section 6.

## 4. The runs

| run | instance | shows |
|---|---|---|
| node_lone | a seed without peers, one handler thread, a transfer of 400000 (of a balance of 10^6) under two signatures and two paddings, an address transfer and a transaction of another owner; three blocks | types; coins conserved even across a wrap; a transaction comes again in a later block only under another signature or with other padding; the proposal still validates when it is committed, its header too; ids are positions |
| node_peers | a joining node, peers of height 0, 1, 2 with good, stale and empty blocks, two threads pushing proposals | the assertion of main.cpp:232 holds, accounts match the chain, the log is implemented, although pushed blocks are not validated and one may overwrite another in the middle of a commit |
| node_live | fair threads, a seed with peers ahead of it, `debug_set_key`, shutdown | shutdown ends the process; a transfer in the queue when a round begins is in the block that round commits, or the process dies |
| peers_lists | a seed, a node with two addresses, a loopback address that outsiders announce to both, one handler thread each | no address of an own interface is listed as a peer, the own addresses stay in front, every peer, the node itself under its other name included, is asked again and again |
| peers_meet | a seed and two nodes that know only the seed | everybody knows everybody in the end, although calls fail and pushes get lost |
| net_ledgers | a seed and two joining nodes, one restart of any of them, a transfer, failing calls | nodes with equal chains have equal ledgers; types (balances stay in u32) |
| net_join | a seed that goes on and a node that joins, one block per call, one restart in the middle | a node that is not ready holds a prefix of the seed's chain; it becomes ready, or is held up for good by the first block with a transaction |
| crypto | a curve over 2^15 - 19, three seeds, two pairs, two signatures, one added scalar | the table, all encodings, key pairs, derived pairs, signatures, verification of right and altered signatures and shared secrets are the textbook's; limbs stay within their bounds and compute the values |
| wire | one-byte words; four blocks, nine other messages, two contents of an unused buffer | digests depend on the bytes alone and are the standard's; no byte is lost at a boundary; a header arrives intact, its transactions do not |
| keys_restart | three key pairs to draw, crashes, failing writes and removes, power loss | whole keys belong together, a pair on disk is kept but for drop_keys |

Two more runs refute what a comment of the repository says; each is a finding
in PROJECT.json.

| run | claim | counterexample |
|---|---|---|
| node_overdraft | "overflow protection" (block.cpp:127) | two transfers of 600000 in one block, both validated against the balance before it |
| net_agree | "all who wanted must have come to an agreement already" (main.cpp:232, in Russian) | two ready nodes commit their own blocks at one height although no call fails: a ready node never asks for a proposal |

More behaviours that may surprise are in the models and have no run of their
own:

- `block_propose` can throw "block validation failed for our own block"
  (db.cpp:64) for a block it has just built: a transfer accepted before a commit
  stays queued and is no longer covered after it. Nothing catches the exception
  (`pc = "crashed"` in Node).
- A block with a transaction does not validate at the node that downloads it,
  since `tx_to_json` writes neither hash nor signature; pub_spec.json:41 lists
  both. `Delivered` states it, and Network has it in every download: after one
  committed transaction a new node never becomes ready (`HeldUp` in `Joins`).
- From block 2^31 on a block cannot be downloaded: `asInt` throws (`Refuse`,
  `Delivered`).
- `ge_add` adds sums to sums, where the comment on `fe_add` (fe.c:75) asks for
  elements fresh from a product; `NoOverflow` shows that the products still have
  room. The comment on `fe_isnonzero` (fe.c:471) has its result the wrong way
  round.
- `transferI` takes a transaction identical to one that still waits in
  `gms.tx_list`, or that is in the proposal: only committed ones are in
  `done_tx_hash`. Two copies in one block are both applied; a copy that comes
  after the first one was copied into the proposal ends the process in the next
  round, by the exception above. curl_test_prv.sh:20 repeats a transfer and
  expects it to fail. A committed transaction is refused, but not under another
  signature of its owner or, if its signature has no zero byte, with other bytes
  of padding behind it (`ReplayFree`).
- `drop_keys` does not notice that a file could not be removed (`DropPub`).
- A node can be its own peer (`Behind`).
- A transfer queued by the former owner of an address is applied after an
  address transfer of the same block (`tx_apply` does not look at signatures).
- A node killed between the `fopen` and the `fclose` of prv.key loads a zero
  private key at its next start and runs with it (`file_load` ignores how much
  `fread` has read).

The bounds of `crypto`. TLC has 32-bit integers, so the field is 2^15 - 19: two
bytes where the code has thirty-two, and as there a prime with remainder 5
modulo 8, one bit left over in the top byte. The curve has d = 29553, not a
square, so the addition law is complete; the base point has the prime order 4111
= 2^12 + 15, and the order's small part is what the folds of sc.c need, as 2^252
+ 277...493 there. Scalars have 24 limbs of one bit, fields ten of two and one,
in the order and with the factors of the code. The bounds of limbs in
FieldValues are those of the real sizes, so `NoOverflow` speaks of the real
code; `LimbsAgree` checks the small limbs. What stays unchecked is that the
code's constants (order, d, roots, 21-bit limbs and their masks) are the right
numbers at full size.

The bounds of `wire`. With one-byte words a block has 16 bytes and a hash 8, so
a root and a signature fill one block exactly and a header takes one and a half,
as at full size. Messages have 0, 5, 13 to 16 and 31 bytes: the last length that
fits in one block, the first that does not, a full block and both sides of it.
24 rounds use every word of the schedule's recurrence; the constants and
rotations are others than the standard's, of the same form. The length field
holds less than 256 bits, and 2^64 in the code. `MCWireAssumption` says that the
roots of the signatures here and of as many zeros differ (`NoCollision`).

The bounds of the other runs. `MaxHeight` stops the loop from starting another
round (3 or 4 blocks: genesis, a block that applies what the first round took,
and one that could apply it again; every property relates at most two blocks).
`MaxQueue` stops requests when that many transactions wait (2 where two must
meet in one block). One subtick instead of five: a second one starts from the
same states, and the assertion's proof holds for any number. node_peers and
node_overdraft have two handler threads, so that two handlers race with each
other and with the main thread. node_lone has one, whose pushes race with the
main thread, in exchange for all kinds of signatures and padding; the proofs of
its six properties hold for any number of threads. In `Peers` one handler thread
per node is enough for a push to race with the push of the main thread; an
announced loopback address and a second own one make the lists longer than the
number of peers, the case the round robin has to survive. In `Network`, two
blocks after the genesis are one that is committed and one that is proposed
while the other node downloads; `DownloadLimit` is 1 or 2 so that a download
needs several calls. Two hash bytes let a proposal win or lose. Three key pairs
allow a pair to be dropped, drawn anew and dropped again. All runs but `wire`
say `CHECK_DEADLOCK FALSE`: the process really stops (shutdown, an exception)
and the bounds on the height and on the number of keys and signatures stop it
too. Handler threads are alike, so the safety runs use symmetry.

## 5. Fairness

`FairSpec` has weak fairness of the main thread and of every handler that has
begun a request: the operating system schedules runnable threads, and neither
waits for a lock. There is none on requests, on the shutdown call or on what
peers answer. A `CallMethod` to a peer that never answers ends by the HTTP
client's timeout, which the model has as the early end of `net_ask_con`.

`Peers` has weak fairness of the main thread and of the handler threads, and
strong fairness of the two calls to the seed: calls may fail, but one that is
repeated forever gets through at last. Without that nobody could meet anybody.
Calls between other nodes may all fail, and nobody has to announce anything.
`Network` likewise: weak fairness of the main threads, strong fairness of
`bc_height` and `get_block_number`. `Joins` also rests on `MaxHeight`, which
stops the seed: against a chain that grows as fast as it is read a node may
stay behind forever. It excepts a seed whose process has died, which answers no
call any more, and a node that is held up.

## 6. The proofs

`NodeProofs` proves, from `LedgerAssumption` and `NodeAssumption` (the types
of the constants, nothing on their sizes), for any set of handlers, requests,
peers and any bounds:

- `TypeCorrect`: `Spec => []TypeOK`;
- `AssertionHolds`: `Spec => []CommitHasProposal`;
- `AccountsInStep`: `Spec => []AccountsMatchChain`;
- `NodeImplementsLog`: `Spec => Log!Spec`.

The inductive invariant is `IInv`, the conjunction of `TypeOK`, `CallerInv`
(which `pc` values each caller can be in: without it a download inside a subtick
could not be told from the one in the loop), `ProposalInv` (the flag is up from
the replacement test of the own proposal to the end of the commit, in all the
subticks between: the assertion alone is not inductive, as the steps before it
do not mention the flag), `ChainInv` (the chain is not empty from the proposal
on), `HeightInv` (a download's local height `bh` is the length of the chain
until the block is appended, so `bh == 0` means that the chain is empty and the
genesis account is created once) and `AccountsMatchChain`. The lemmas go action
by action: `MainType`, `MainControl`, `MainAccounts` for the main thread,
`HandlerType` and `HandlerFlag` for the handlers, which can raise the flag but
never lower it. The refinement maps `AppendBlock` to `Commit` or `Import`, the
writes of the slot to `Propose`, all else to stuttering.

The second half of `NodeProofs` proves what a node guarantees when it is alone
(`Lone`: a seed, with no peer that answers and nothing pushed to it): any number
of handler threads, requests of transfers and of address transfers, switches of
the keys, any interleaving, any length of the chain. With peers or pushes these
properties are false, as the code validates neither what is pushed nor the
header of what it downloads; that is why `Lone` is assumed, and the run
node_lone is the same case.

- `SupplyKept`: `Spec => []Supply`, where `Spec` here is `AuditSpec`;
- `NoReplay`: `[]ReplayFree`;
- `ProposalStaysValid`: `[]ProposalStillValid`;
- `HeaderStaysValid`: `[]HeaderValidAtCommit`, if the keys stay too
  (`KeysStay`: no `debug_set_key`, no address transfer of address 0 to
  another key: the owner of address 0 can really change between proposal and
  commit);
- `IdsFollow`: `[]ChainIds`, if `MaxHeight <= U32` (ids are u32 and wrap).

`LoneInv` is inductive relative to `IInv`. `AloneInv` says that the main thread
is never in a download; `FlagInv` that in the subticks the proposal is the own
one; `SealedInv` that from the seal of the own block to its application the
block still validates against the ledger, which nothing else moves; `KeysInv`
that `done_tx_hash` has the keys of the chain's transactions and of those
already applied of the block in work, and that no two blocks share a key, since
a transaction whose key is known does not validate. `ReplayFree` follows
(`KeysDiffer`): two transactions with one hash and different keys have a hash
without zero byte and differ in the signature or, behind one that has no zero
byte, in what follows it; this holds for whatever `SignForms`, `NulAt`,
`UpToNul` and `Tails` are. For the coins, `SupplyInv` gives the sum at every
`pc` inside `block_apply`: fees leave the accounts one transaction at a time and
come back to the issuer with the penalty step, and between the two the sum lacks
`tx_fee` for each applied transaction. A sum modulo U32 is the residue class
(`Cong`) of the plain sum, so that a wrap of one balance disappears from it.
`NumberInv` ties the id of the block being made to the length of the chain,
`OwnerInv` keeps address 0 with `MyKey`, `IssuedByMe` says whose block it is.
All of these were checked by TLC on the instance of node_lone before they were
proved.

`NetworkProofs` proves from `NetworkAssumption`, for any number of nodes, of
restarts and of transfers, any failing calls:

- `NetworkTypes`: `Spec => []TypeOK`;
- `LedgersAgree`: `Spec => []SameChainSameLedger`;
- `JoinerFollowsSeed`: `Spec => []PrefixUntilReady`, if there is one node
  besides the seed and the seed is not restarted (`Pair`). Among more nodes
  a ready one with a chain of its own may be the peer (net_agree has such
  chains), and a restarted seed has another genesis block.

`SameChainSameLedger` compares two nodes that never need have met, so it is not
inductive. The invariant speaks of one node: `Traced` says that its ledger is
the last member of a history of its chain, which begins with the genesis
account of the first block's issuer and goes on block by block. A chain has
one history (`OneHistory`, by induction along it). It rests on `PlaceInv`:
the height a download counts is the length of the chain, so the genesis account
is created before the first block and never again. For the prefix, a block that
validates after the trip through JSON has no transactions and is therefore the
peer's block itself (`JsonBlock`); `StepFollows` says of every step but a
restart that a chain grows by at most one block, and by which.

Induction over data goes by the smallest counterexample: the library's theorem
on well-founded relations needs no operator as a parameter (`Recursion`,
`SetInduction`); that a function defined by recursion has the values its
equation gives comes from `StepsExist`, which builds it step by step.

`PeersProofs` proves from `PeersAssumption` (every node has an address, no two
share one), for any number of nodes, addresses and handler threads, any
announced addresses, own ones included, and whatever lies behind them:
`PeersTypeCorrect`, `NoOwnAddressTwice` (`Spec => []OwnAddressesOnce`), `OwnFirst`
(`Spec => []StartsWithSelf`). The
invariant calls a list of node n a `Listing` when the own addresses come first
and never as peers, and says that the list, and every copy of it that a
push_back is working on, is one; and that what is about to be pushed is
somebody else's address. That holds of the copies since pushes only append:
the search finds the own addresses however old or new the list is.

`KeyStoreProofs` proves from `KeyStoreAssumption`, for any number of pairs:
`KeyTypes`, `PairsNotMixed`, `PairsKept`. `SaveInv` says what the files hold
between the steps of the saves, `DropInv` that only a start with drop_keys removes
them.

`Ed25519Proofs` proves from the assumptions of FieldValues, Group and Ed25519
(the prime is 19 below a power of two and 5 modulo 8, the powers of the two
chains add up, numbers in the source have the limbs they have), for any size of
the field, any hash, seeds, messages and scalars:

- `LimbsFit`: `Spec => []NoOverflow` (limbs within their bounds, no `Torn`
  encoding);
- `Types`: `Spec => []TypeOK`;
- `DigitsType`: the digits of `ge_scalarmult_base` are between -8 and 8, so
  `select` reads no column that is not there (the comments at ge.c:399-411).

The first two assume `ScalarsFit`: a digest is two numbers of Half bits, and
`sc_reduce` and `sc_muladd` leave the top bit clear, as their comments promise
(results modulo an order of 253 bits). Only the highest digit needs it: with the
top bit set it could be 16. `ScalarsExact` checks it on samples
(`SamplesFit`), and the limbs behind it on every state of the run `crypto`.

The argument gives a name to each degree of looseness: `Product` is what a
multiplication leaves, `Factor` what it takes, `Loose` a point whose coordinates
are sums of at most three products. The additions and doublings of ge.c take
tight points to loose ones, the conversions take these back; that is where the
room for three products in a factor is used up. The loops (squaring, the power
chain, the row of eight multiples, the sums over rows) keep what one turn
keeps: `TailKeeps`, `CourseExists` and `StepsExist` of `Recursion`. The invariant
`IInv` says that the table is tight in all rows (in those not yet filled too),
so is the point the next row starts from, and that scalars and encodings that
exist have their ranges. The theorems reach what `Next` calls; `ed25519_verify`,
`AddToPublic` and `ed25519_key_exchange`, which change no state, are with TLC.

`WireProofs` proves from `Sha512Assumption` (a word has a byte at least, what
is hashed are bytes), for every word size, every compression, all parts and
whatever a buffer held:

- `NothingLost`: `HashSpecification => []Conserved`;
- `HashImplements`: `HashSpecification => ImplementsHash`.

`HashInv` ties the context to the bytes taken so far. `Chained` says that
`md.state` is the last of a chain of states, one for each whole block of `fed`;
`Conserved`, that the buffer is what follows them. A turn of the loop either
moves a block past an empty buffer or appends to it; the lemma `Taken` says what
that does to the bytes, `ChainKept` and `ChainExtends` what it does to the
chain. `PaddedShape` reads the padded message of the standard byte by byte;
`FinalKeeps` finds in it what `sha512_final` writes into the buffer, with one
block more or with two, and `ChainIs` that the recursion in HashSpec gives the
state that was built step by step.

With `WireAssumption` (what is proposed is a block), for every set of proposals,
width of integers and keys, and whatever else is hashed in between:

- `WireTypes`: `WireSpec => []TypeOK`;
- `HeadersArrive`: `WireSpec => []Delivered`;
- `WireHashes`: `WireSpec => []Conserved /\ ImplementsHash`.

They assume `WordsKept` (there is a set of eight-word states that holds the
initial one and that no block leaves: all u64s in the code) and
`SignTyped` (a signature of bytes with a key has 64 bytes in the code);
`HeadersArrive` also `NoCollision`. None of these can come from a model that
leaves compression and signature open.

`Delivered` speaks of the end of a way of five hashes, of which any other user
may have taken the context before. `WireInv` says at each stage what the pending
hash is a hash of (`Hashes`: the bytes taken, those of the current call and
those of the calls to come, joined), how far the folding has come (`Folding`),
and what author and peer hold (`Signed`, `Arrived`). `FoldIs` connects the roots
that were folded one by one with the recursion of `MerkleRoot`; `HexKept`,
`HeaderKept` and `BlockArrives` say that hex and JSON lose nothing but the
signatures of the transactions; `PackedSame`, that hash and signature are not
among what they sign. TLC checked the invariant on the instance of `wire` before
it was proved.

Left to TLC: that the curve's results are the textbook's (what a recursive
multiple computes would need induction over data and the group law), the limbs
themselves in `Field` and `Scalar` (the products of their sizes are beyond the
solver's arithmetic); that `sha512_compress` computes the rounds of the standard
(`ImplementsStandard`: bitwise operators are beyond the provers); and the
liveness properties, which the provers cannot do.

## 7. Not modelled

- In the ledger signatures are ideal; Ed25519 says that what `sign` returns
  `verify` accepts, not that nobody can forge it.
- The sizes and constants of the real field, order and hash (see the bounds);
  timing; seed.c (a short read of /dev/urandom goes unnoticed).
- The decimal addresses of address.cpp (its error text is a pointer into a
  string that is gone), options of the command line. A transaction's own text
  form but for what it loses. `SL2` writes 24 bytes into a buffer of 20
  (block.cpp:88-108), so the nonce is not hashed: Ledger leaves it out, the
  damage to the stack is not modelled.
- Heights, blocks and lists are what peers that run this code send in `Peers`
  and `Network`; in `Node` the environment sends anything of the right form.
- The weights (block.cpp:5-13, 60-86, `w_weak_list`, `aw_sort_list`,
  `tx_mining_mode`): computed or declared, never read.
- rpc_client.cpp (its include is commented out), build.coffee and the minified
  main.cpp in the root, shell scripts, Dockerfile.
- Data races below the level of one vector operation: a `push_back` that
  reallocates while another thread iterates is modelled by its outcomes on the
  sequence, not as a corrupted heap.
