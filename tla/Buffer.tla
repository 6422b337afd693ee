------------------------------- MODULE Buffer -------------------------------
(***************************************************************************)
(* The elastic byte buffers of libinsomniac_buffer: a list of blocks of    *)
(* BLOCK_SIZE bytes and the number of bytes in use.                        *)
(*                                                                         *)
(* A call runs as the loop it is: one step per memcpy into a block.        *)
(* buffer_append and buffer_load call buffer_write, so a call is a record  *)
(* of what is left of the outer loop and of the write it has made.         *)
(* "text" is what the calls that returned have put into each buffer.       *)
(***************************************************************************)
EXTENDS Naturals, Sequences, SequencesExt

CONSTANTS
  Buf,        \* buffers
  Byte,       \* byte values that callers write
  BLOCK_SIZE,
  MaxWrite,   \* bound on the length of one write or file
  MaxUsed,    \* bound on the bytes in a buffer
  Zero        \* the byte in memory nothing was written to

ASSUME BufferAssumption ==
  /\ BLOCK_SIZE \in Nat \ {0}
  /\ MaxWrite \in Nat
  /\ MaxUsed \in Nat
  /\ Zero \notin Byte

VARIABLES
  blocks, \* the list from head to tail
  used,
  text,
  call    \* the call in progress: <<>> or <<record>>

vars == <<blocks, used, text, call>>

Fresh == [i \in 1..BLOCK_SIZE |-> Zero]

Texts(n) == UNION {[1..l -> Byte] : l \in 0..n}

Min2(a, b) == IF a < b THEN a ELSE b

\* The bytes of a list of blocks, one block after the other, used or not.
Bytes(list) ==
  [i \in 1..(Len(list) * BLOCK_SIZE) |->
     list[((i - 1) \div BLOCK_SIZE) + 1][((i - 1) % BLOCK_SIZE) + 1]]

Memory(b) == Bytes(blocks[b])

buffer_size(b) == used[b]

\* buffer_read: what is copied to the destination.  No more blocks are walked
\* than there are.
buffer_read(b, length) == SubSeq(Memory(b), 1, Min2(length, Len(Memory(b))))

-----------------------------------------------------------------------------
\* buffer_create: a first block is there from the start.
Init ==
  /\ blocks = [b \in Buf |-> <<Fresh>>]
  /\ used = [b \in Buf |-> 0]
  /\ text = [b \in Buf |-> <<>>]
  /\ call = <<>>

\* Mutant: the head of the list stays where it was.
buffer_reset_head(b) ==
  /\ call = <<>>
  /\ used' = [used EXCEPT ![b] = 0]
  /\ text' = [text EXCEPT ![b] = <<>>]
  /\ UNCHANGED <<blocks, call>>

\* The tail block becomes the only one; its bytes stay in it.
buffer_reset(b) ==
  /\ call = <<>>
  /\ blocks' = [blocks EXCEPT ![b] = <<Last(@)>>]
  /\ used' = [used EXCEPT ![b] = 0]
  /\ text' = [text EXCEPT ![b] = <<>>]
  /\ UNCHANGED call

\* Mutant: writing starts over at the head of the tail block.
Writing_start(b, bytes) ==
  [to |-> b, left |-> bytes, at |-> 0, chunk |-> Min2(Len(bytes), BLOCK_SIZE)]

\* Entry into buffer_write: the first chunk fills up the tail block at most.
\* ("at" is write_offset, "chunk" block_remaining; the push of a block when
\* none remains cannot happen: used % BLOCK_SIZE is less than BLOCK_SIZE.)
Writing(b, bytes) ==
  [to |-> b, left |-> bytes, at |-> used[b] % BLOCK_SIZE,
   chunk |-> Min2(Len(bytes), BLOCK_SIZE - (used[b] % BLOCK_SIZE))]

\* A direct call, an append of n bytes of s, or a load of the bytes of a file;
\* kind "overrun" is a load that ran out of its array and does not come back.
Call(w, kind, s, n, source) == <<[write |-> w, kind |-> kind, src |-> s, left |-> n, source |-> source]>>

Room(b, n) == call = <<>> /\ used[b] + n <= MaxUsed

buffer_write(b, bytes) ==
  /\ Room(b, Len(bytes))
  /\ call' = Call(Writing(b, bytes), "write", b, 0, bytes)
  /\ UNCHANGED <<blocks, used, text>>

\* length is a number of bytes, or -1 in the code for all of the source.
buffer_append(b, s) ==
  /\ Room(b, used[s])
  /\ LET n == Min2(used[s], BLOCK_SIZE)
     IN  call' = Call(Writing(b, SubSeq(Memory(s), 1, n)), "append", s, used[s] - n,
                      SubSeq(Memory(s), 1, used[s]))
  /\ UNCHANGED <<blocks, used, text>>

\* open() fails, -1 is returned and nothing has changed; or the loop of read()
\* is entered.
buffer_load(b, file) ==
  /\ Room(b, Len(file))
  /\ \/ UNCHANGED call
     \/ call' = Call(Writing(b, <<>>), "load", b, Len(file), file)
  /\ UNCHANGED <<blocks, used, text>>

Current == call[1]
Write   == Current.write

\* The bytes of block k after a memcpy of bytes to offset at.
Patched(block, at, bytes) ==
  [i \in 1..BLOCK_SIZE |-> IF i - at \in 1..Len(bytes) THEN bytes[i - at] ELSE block[i]]

\* One turn of the loop of buffer_write; "full" tells whether the block just
\* written needs a successor, "amount" what the next turn copies.
CopyWith(full(_), amount(_)) ==
  /\ call # <<>> /\ Write.left # <<>>
  /\ LET w     == Write
         b     == w.to
         now   == SubSeq(w.left, 1, w.chunk)
         rest  == SubSeq(w.left, w.chunk + 1, Len(w.left))
         grown == full(used[b] + w.chunk)
         last  == Patched(Last(blocks[b]), w.at, now)
     IN
     /\ used' = [used EXCEPT ![b] = @ + w.chunk]
     /\ blocks' = [blocks EXCEPT ![b] = Front(@) \o IF grown THEN <<last, Fresh>> ELSE <<last>>]
     /\ call' = <<[Current EXCEPT !.write =
                     [w EXCEPT !.left = rest,
                               !.at = IF grown THEN 0 ELSE w.at,
                               !.chunk = amount(Len(rest))]]>>
  /\ UNCHANGED text

\* Mutant: the next block is made only when more bytes are to come.
CopyChunk_lazy ==
  CopyWith(LAMBDA n : n % BLOCK_SIZE = 0 /\ Len(Write.left) > Write.chunk,
           LAMBDA n : Min2(n, BLOCK_SIZE))

\* Mutant: less than a block is left, and nothing more is copied or pushed.
CopyChunk_whole ==
  CopyWith(LAMBDA n : n % BLOCK_SIZE = 0 /\ Write.chunk > 0,
           LAMBDA n : IF n >= BLOCK_SIZE THEN BLOCK_SIZE ELSE 0)

CopyChunk == CopyWith(LAMBDA n : n % BLOCK_SIZE = 0, LAMBDA n : Min2(n, BLOCK_SIZE))

\* The bytes of a source buffer or file that an outer loop has not passed on.
Pending(c) == SubSeq(c.source, Len(c.source) - c.left + 1, Len(c.source))

\* The next turn of the loop of buffer_append: the next block of the source.
NextBlock ==
  /\ call # <<>> /\ Write.left = <<>> /\ Current.kind = "append" /\ Current.left > 0
  /\ LET c    == Current
         n    == Min2(c.left, BLOCK_SIZE)
         done == Len(c.source) - c.left
     IN  call' = Call(Writing(Write.to, SubSeq(Memory(c.src), done + 1, done + n)),
                      c.kind, c.src, c.left - n, c.source)
  /\ UNCHANGED <<blocks, used, text>>

\* A turn of the loop of buffer_load: read() returns any part of what is left of
\* the file, of at most one block.
NextRead ==
  /\ call # <<>> /\ Write.left = <<>> /\ Current.kind = "load" /\ Current.left > 0
  /\ \E n \in 1..Min2(Current.left, BLOCK_SIZE) :
       call' = Call(Writing(Write.to, SubSeq(Pending(Current), 1, n)),
                    Current.kind, Current.src, Current.left - n, Current.source)
  /\ UNCHANGED <<blocks, used, text>>

\* read() fails. Its -1 is a length of 2^w - 1 bytes for buffer_write, which
\* copies from the array of buffer_load, then from the memory behind it, until
\* that ends the process: nothing the run does afterwards is the code's.
ReadFails ==
  /\ call # <<>> /\ Write.left = <<>> /\ Current.kind = "load"
  /\ call' = <<[Current EXCEPT !.kind = "overrun"]>>
  /\ UNCHANGED <<blocks, used, text>>

Overrun == call # <<>> /\ Current.kind = "overrun"

\* No step of the code follows.
Lost == Overrun /\ UNCHANGED vars

\* For a load: read() has returned 0.
Return ==
  /\ call # <<>> /\ Write.left = <<>> /\ Current.left = 0 /\ ~ Overrun
  /\ text' = [text EXCEPT ![Write.to] = @ \o Current.source]
  /\ call' = <<>>
  /\ UNCHANGED <<blocks, used>>

Running == CopyChunk \/ NextBlock \/ NextRead \/ ReadFails \/ Return

Next ==
  \/ \E b \in Buf : buffer_reset(b)
  \/ \E b \in Buf, bytes \in Texts(MaxWrite) : buffer_write(b, bytes)
  \/ \E b \in Buf, file \in Texts(MaxWrite) : buffer_load(b, file)
  \/ \E b, s \in Buf : buffer_append(b, s)
  \/ Running
  \/ Lost

Spec == Init /\ [][Next]_vars /\ WF_vars(Running)

-----------------------------------------------------------------------------
Block == [1..BLOCK_SIZE -> Byte \cup {Zero}]

WriteRecord == [to : Buf, left : Seq(Byte), at : Nat, chunk : Nat]

Kind == {"write", "append", "load", "overrun"}

CallRecord == [write : WriteRecord, kind : Kind, src : Buf, left : Nat,
               source : Seq(Byte)]

TypeOK ==
  /\ DOMAIN blocks = Buf /\ \A b \in Buf : blocks[b] \in Seq(Block)
  /\ used \in [Buf -> Nat]
  /\ DOMAIN text = Buf /\ \A b \in Buf : text[b] \in Seq(Byte)
  /\ call = <<>> \/ (call = <<Current>> /\ Current \in CallRecord)

\* Between calls a buffer reads back exactly what was written to it, whatever
\* the lengths of the writes and however a file came in.
ReadsBack ==
  call = <<>> =>
    \A b \in Buf : buffer_size(b) = Len(text[b]) /\ buffer_read(b, buffer_size(b)) = text[b]

\* The tail block always has room for a byte: the list is one block longer than
\* the full blocks, and no memcpy runs past the end of a block.
TailHasRoom ==
  /\ \A b \in Buf : Len(blocks[b]) = used[b] \div BLOCK_SIZE + 1
  /\ call # <<>> => Write.at + Write.chunk <= BLOCK_SIZE

\* No step of any call, an append of a buffer to itself included, alters a byte
\* that a buffer already holds: until buffer_reset, buffers only grow.
OnlyAppends ==
  [][\A b \in Buf :
       used'[b] # 0 => SubSeq(Bytes(blocks'[b]), 1, used[b]) = SubSeq(Memory(b), 1, used[b])]_vars

(***************************************************************************)
(* What makes these inductive.                                             *)
(***************************************************************************)

\* The bytes of its source that the call in progress has copied into b.
Passed(b) ==
  IF call # <<>> /\ b = Write.to THEN Len(Current.source) - Current.left - Len(Write.left) ELSE 0

\* In use are the bytes of the calls that returned, then those the call in
\* progress has copied.
Written ==
  \A b \in Buf :
    /\ used[b] = Len(text[b]) + Passed(b)
    /\ \A i \in 1..used[b] :
         Memory(b)[i] = IF i <= Len(text[b]) THEN text[b][i] ELSE Current.source[i - Len(text[b])]

\* The write in progress has the next bytes of the source, and goes on at the
\* end of the bytes in use.
WriteInv ==
  call # <<>> =>
    /\ Passed(Write.to) \in Nat
    /\ \A i \in 1..Len(Write.left) : Write.left[i] = Current.source[Passed(Write.to) + i]
    /\ Write.left # <<>> =>
         /\ Write.at = used[Write.to] % BLOCK_SIZE
         /\ Write.chunk = Min2(Len(Write.left), BLOCK_SIZE - Write.at)

\* What an append has still to read stands where it stood when it was called,
\* though the list it stands in may have grown.
SourceKept ==
  call # <<>> /\ Current.kind = "append" =>
    /\ Len(Current.source) <= used[Current.src]
    /\ \A i \in 1..Len(Current.source) : Memory(Current.src)[i] = Current.source[i]

BufferInv == TypeOK /\ TailHasRoom /\ Written /\ WriteInv /\ SourceKept

\* Every call returns, an append of a buffer to itself included, but for a load
\* one of whose read()s fails: that one never does.
CallsReturn == (call # <<>>) ~> (call = <<>> \/ Overrun)
=============================================================================
