------------------------------- MODULE Sha512 -------------------------------
(***************************************************************************)
(* The hashing context of src/sha512.c: bytes arrive in parts of any       *)
(* length, whole blocks are compressed straight from the input while the   *)
(* buffer is empty, everything else goes through the buffer.  Each turn of *)
(* the loop of sha512_update is an action.  A word has WordBytes bytes (8  *)
(* in the code), a block 16 words, the state 8; the compression of a block *)
(* and the initial state are constants.  The length is not reduced modulo  *)
(* 2^64: the code assumes that nobody hashes that much.                    *)
(***************************************************************************)
EXTENDS Integers, Sequences

CONSTANTS
  WordBytes,      \* bytes of a word
  IV,             \* the initial state
  Compress(_, _), \* the state after a block
  Jobs,           \* sequences of parts that are hashed together
  Garbage,        \* what a buffer may hold before its first use
  NoDigest

BlockLen == 16 * WordBytes

\* Where the length of the message is stored; above LengthAt - WordBytes a
\* second block is needed.
LengthAt == BlockLen - WordBytes

Byte == 0 .. 255

Index == 0 .. BlockLen - 1

ASSUME Sha512Assumption ==
  /\ WordBytes \in Nat \ {0}
  /\ Jobs \subseteq Seq(Seq(Byte))
  /\ Garbage \subseteq [Index -> Byte]

VARIABLES
  md,     \* the context: curlen, length, state, buf
  in,     \* the bytes that the current call of sha512_update has left
  calls,  \* the parts of the calls to come
  open,   \* between sha512_init and sha512_final
  digest, \* what sha512_final returned, or NoDigest
  fed     \* history: the bytes that the context took

hash_vars == <<md, in, calls, open, digest, fed>>

-----------------------------------------------------------------------------

\* sha512_context.
Context(curlen, length, state, buf) ==
  [curlen |-> curlen, length |-> length, state |-> state, buf |-> buf]

HashInit ==
  /\ \E buf \in Garbage : md = Context(0, 0, IV, buf)
  /\ in = <<>> /\ calls = <<>> /\ fed = <<>>
  /\ open = FALSE /\ digest = NoDigest

\* sha512_init, for the calls in parts: the buffer keeps what it held.
Begin(parts) ==
  /\ ~open
  /\ open' = TRUE
  /\ md' = Context(0, 0, IV, md.buf)
  /\ calls' = parts
  /\ in' = <<>> /\ fed' = <<>> /\ digest' = NoDigest

\* A call of sha512_update; one without bytes does nothing.
Update ==
  /\ open /\ in = <<>> /\ calls # <<>>
  /\ in' = Head(calls)
  /\ calls' = Tail(calls)
  /\ UNCHANGED <<md, open, digest, fed>>

\* The first n bytes that are left go into the context, which becomes m.
Take(n, m) ==
  /\ in' = SubSeq(in, n + 1, Len(in))
  /\ fed' = fed \o SubSeq(in, 1, n)
  /\ md' = m
  /\ UNCHANGED <<calls, open, digest>>

InBlock == [i \in Index |-> in[i + 1]]

WholeBlock == md.curlen = 0 /\ Len(in) >= BlockLen

\* Mutant of DirectBlock: the block is not counted.
DirectBlock_uncounted ==
  /\ open /\ in # <<>> /\ WholeBlock
  /\ Take(BlockLen, Context(0, md.length, Compress(md.state, InBlock), md.buf))

DirectBlock ==
  /\ open /\ in # <<>> /\ WholeBlock
  /\ Take(BlockLen, Context(0, md.length + 8 * BlockLen, Compress(md.state, InBlock), md.buf))

\* The buffer after n more bytes.
Buffered(n) ==
  [i \in Index |-> IF i \in md.curlen .. md.curlen + n - 1 THEN in[i - md.curlen + 1]
                   ELSE md.buf[i]]

\* Mutant of FillBuffer: all bytes that are left, even if there are more than fit.
FillBuffer_all ==
  /\ open /\ in # <<>> /\ ~WholeBlock
  /\ Take(Len(in), Context(md.curlen + Len(in), md.length, md.state, Buffered(Len(in))))

FillBuffer ==
  /\ open /\ in # <<>> /\ ~WholeBlock
  /\ LET room == BlockLen - md.curlen
         n == IF Len(in) < room THEN Len(in) ELSE room
     IN Take(n, IF n < room
                THEN Context(md.curlen + n, md.length, md.state, Buffered(n))
                ELSE Context(0, md.length + 8 * BlockLen, Compress(md.state, Buffered(n)),
                             Buffered(n)))

-----------------------------------------------------------------------------
(* sha512_final: a bit 1, zeros up to the length, the length. *)

\* The bytes of n, highest first, as the macro STORE64H stores them.
BigEndian(n) == [i \in 1 .. WordBytes |-> (n \div 256^(WordBytes - i)) % 256]

Marked(m) == [m EXCEPT !.length = @ + 8 * m.curlen, !.buf[m.curlen] = 128, !.curlen = @ + 1]

\* Zeros up to index last.
Zeroed(m, last) ==
  [m EXCEPT !.curlen = last,
            !.buf = [i \in Index |-> IF i \in m.curlen .. last - 1 THEN 0 ELSE m.buf[i]]]

\* Mutant of Emptied: room for the low word of the length is enough.
Emptied_late(m) ==
  IF m.curlen <= LengthAt THEN m
  ELSE LET full == Zeroed(m, BlockLen)
       IN [full EXCEPT !.state = Compress(@, full.buf), !.curlen = 0]

\* A block is compressed first if the two words of the length do not fit.
Emptied(m) ==
  IF m.curlen <= LengthAt - WordBytes THEN m
  ELSE LET full == Zeroed(m, BlockLen)
       IN [full EXCEPT !.state = Compress(@, full.buf), !.curlen = 0]

\* The last block: the high word of the length is among the zeros.
LastBlock(m) ==
  [i \in Index |-> IF i < LengthAt THEN m.buf[i] ELSE BigEndian(m.length)[i - LengthAt + 1]]

Stored(state) ==
  [i \in 1 .. 8 * WordBytes |-> BigEndian(state[(i - 1) \div WordBytes])[((i - 1) % WordBytes) + 1]]

\* The guard on curlen is the code's; it returns 1 otherwise.
Final ==
  /\ open /\ in = <<>> /\ calls = <<>>
  /\ md.curlen < BlockLen
  /\ LET m == Zeroed(Emptied(Marked(md)), LengthAt)
         state == Compress(m.state, LastBlock(m))
     IN /\ md' = [m EXCEPT !.state = state, !.buf = LastBlock(m)]
        /\ digest' = Stored(state)
  /\ open' = FALSE
  /\ UNCHANGED <<in, calls, fed>>

-----------------------------------------------------------------------------

HashNext ==
  \/ \E parts \in Jobs : Begin(parts)
  \/ Update \/ DirectBlock \/ FillBuffer \/ Final

HashSpecification == HashInit /\ [][HashNext]_hash_vars

\* No byte is lost or counted twice at the boundary of two blocks: the length
\* and the buffer account for all bytes that went in, and the buffer has room
\* for the mark of the end (sha512_update).
Conserved ==
  open => LET n == Len(fed) - md.curlen
          IN /\ md.curlen < BlockLen
             /\ md.length = 8 * n
             /\ \A i \in 0 .. md.curlen - 1 : md.buf[i] = fed[n + i + 1]

\* Every digest is the one of all the bytes together, padded and cut into
\* blocks, whatever the lengths of the parts were and the buffer held before
\* (sha512.c).
Hash == INSTANCE HashSpec WITH text <- fed, Through <- Compress

ImplementsHash == Hash!Spec

=============================================================================
