-------------------------- MODULE FdLinkRecvProofs --------------------------
(***************************************************************************)
(* What mtc_fd_link_receive makes of the stream of any peer: it returns    *)
(* what was sent and nothing else, it loses and repeats nothing between    *)
(* two reads, and it breaks the link only for a reason.  The size of a     *)
(* block, the number of blocks, of frames and of reads is any.             *)
(*                                                                         *)
(* The argument: in each phase the receiver holds a beginning of what a    *)
(* header and its payload would be (Phases); that with the rest of the     *)
(* socket is a beginning of the frames it has not returned yet (InStream). *)
(* Where a message is complete the two meet: a header fixes the frame it   *)
(* belongs to, and the number of units held fixes where the frame ends.    *)
(***************************************************************************)
EXTENDS FdLinkRecvPeer, VectorLemmas

-----------------------------------------------------------------------------
(* The link has not been given up: the receiver may still read.            *)
Alive == in_status \in {"open", "stopped"}

Total(lens) == Through(lens)[Len(lens)]

(* The sizes a block of a message may have.                                *)
BlockSizes == 1..(WordLimit - 1)

(* The second unit of a header.                                            *)
CountWord(size, stop) == IF stop THEN WithStopBit(size) ELSE size

(* What the receiver holds of an unfinished message, in each phase.        *)
InHeader ==
  /\ mem = "none" /\ msg = <<>>
  /\ reader.len > 0 /\ Len(reader.buf) + reader.len = mtc_header_min_size
InSimple ==
  /\ mem = "none" /\ msg = <<header_data.data_1>>
  /\ header_data.size = 1 /\ header_data.data_1 \in BlockSizes
  /\ reader.len > 0 /\ Len(reader.buf) + reader.len = header_data.data_1
InIndex ==
  /\ mem = "index" /\ msg = <<>>
  /\ header_data.size \in 2..(StopBit - 1) /\ header_data.data_1 \in BlockSizes
  /\ reader.len > 0 /\ Len(reader.buf) + reader.len = header_data.size - 1
InData ==
  /\ mem = "iovec" /\ msg \in Seq(BlockSizes)
  /\ header_data.size \in 2..(StopBit - 1) /\ Len(msg) = header_data.size
  /\ reader_v.lens \in Seq(Nat \ {0}) /\ reader_v.lens # <<>>
  /\ Len(reader_v.buf) + Total(reader_v.lens) = Total(msg)
  /\ Len(reader_v.lens) <= Len(msg)
  /\ IovMax > 0 => Len(msg) <= IovMax \/ Len(reader_v.lens) = Len(msg)

Phases ==
  Alive =>
    CASE read_status = "INIT_READ" -> mem = "none" /\ msg = <<>>
      [] read_status = "HDR"       -> InHeader
      [] read_status = "SIMPLE"    -> InSimple
      [] read_status = "IDX"       -> InIndex
      [] read_status = "DATA"      -> InData

(* The units of the frames behind the n-th.                                *)
Frames(fs, n) == [k \in 1..(Len(fs) - n) |-> Frame(fs[n + k], n + k)]
Due(fs, n) == FlattenSeq(Frames(fs, n))

(* s is a beginning of t, and all of it if whole.                          *)
Begins(s, t, whole) ==
  /\ Len(s) <= Len(t) /\ \A i \in 1..Len(s) : s[i] = t[i]
  /\ whole => s = t

(* What is held and what the socket has are the rest of the stream.        *)
Rest == Partial \o sock.buf
InStream == Alive => Begins(Rest, Due(supplied, Len(got)), ~sock.eof)

Messages == [sizes : Seq(Nat), data : Seq(PeerUnit), stop : BOOLEAN]

(* The inductive invariant of the receiver.                                *)
RecvInv ==
  /\ TypeOK /\ got \in Seq(Messages)
  /\ in_status = "freed" => mem = "none" /\ msg = <<>>
  /\ sock.eof => fault
  /\ Phases
  /\ InStream
  /\ ReceivedIsSent
  /\ BreaksForAReason

-----------------------------------------------------------------------------
(* Units, headers and frames.                                              *)

(* A sequence is over whatever its elements are in.                        *)
LEMMA Narrow ==
  ASSUME NEW S, NEW s \in Seq(S), NEW T, \A i \in 1..Len(s) : s[i] \in T
  PROVE  s \in Seq(T)
  OBVIOUS

(* A function on 1..n is a sequence.                                       *)
LEMMA FunctionIsSeq ==
  ASSUME NEW S, NEW n \in Nat, NEW s, s = [i \in 1..n |-> s[i]],
         \A i \in 1..n : s[i] \in S
  PROVE  s \in Seq(S) /\ Len(s) = n
  <1>1. s \in [1..n -> S]
    OBVIOUS
  <1> QED  BY <1>1

(* A field of a header that is not 0 was written as a word.                *)
LEMMA UnitValue ==
  ASSUME NEW u \in PeerUnit
  PROVE  /\ ValueOf(u) \in 0..(WordLimit - 1)
         /\ ValueOf(u) # 0 => u = Word(ValueOf(u))
  <1>1. WordLimit \in Nat \ {0}
    BY StopBitAssumption DEF WordLimit
  <1>2. CASE u = Magic
    <2>1. u[1] = "MTC"
      BY <1>2 DEF Magic
    <2> QED  BY <1>1, <2>1 DEF ValueOf
  <1>3. CASE u = <<"not MTC">>
    <2>1. u[1] = "not MTC" /\ "not MTC" # "word"
      BY <1>3
    <2>2. ValueOf(u) = 0
      BY <2>1 DEF ValueOf
    <2> QED  BY <1>1, <2>2
  <1>4. ASSUME NEW n \in 0..(WordLimit - 1), u = Word(n)
        PROVE  ValueOf(u) = n
    BY <1>4 DEF ValueOf, Word
  <1>5. CASE u \in {"byte"} \X Nat \X Nat \X Nat
    <2>1. u[1] = "byte"
      BY <1>5
    <2> QED  BY <1>1, <2>1 DEF ValueOf
  <1> QED  BY <1>2, <1>3, <1>4, <1>5 DEF PeerUnit

(* A word is a unit, and no two words are the same unit.                   *)
LEMMA WordUnit ==
  /\ \A n \in 0..(WordLimit - 1) : Word(n) \in PeerUnit
  /\ \A m, n : Word(m) = Word(n) => m = n
  /\ Magic \in PeerUnit /\ \A n : Word(n) # Magic
  BY DEF PeerUnit, Word, Magic

(* The word of a count of blocks.                                          *)
LEMMA CountWords ==
  ASSUME NEW size \in 0..(StopBit - 1), NEW stop \in BOOLEAN
  PROVE  LET w == CountWord(size, stop)
         IN  /\ w \in 0..(WordLimit - 1)
             /\ w % StopBit = size /\ (w \div StopBit = 1 <=> stop)
  <1>1. StopBit \in Nat \ {0} /\ size \in Nat /\ size < StopBit
    BY StopBitAssumption
  <1>2. CASE stop
    <2>1. CountWord(size, stop) = size + StopBit
      BY <1>1, <1>2 DEF CountWord, WithStopBit
    <2>2. (size + StopBit) % StopBit = size /\ (size + StopBit) \div StopBit = 1
      BY <1>1, DivMod
    <2>3. size + StopBit \in 0..(WordLimit - 1)
      BY <1>1 DEF WordLimit
    <2> QED  BY <1>2, <2>1, <2>2, <2>3
  <1>3. CASE ~stop
    <2>1. CountWord(size, stop) = size
      BY <1>3 DEF CountWord
    <2>2. size % StopBit = size /\ size \div StopBit = 0
      BY <1>1, DivMod
    <2>3. size \in 0..(WordLimit - 1)
      BY <1>1 DEF WordLimit
    <2> QED  BY <1>3, <2>1, <2>2, <2>3
  <1> QED  BY <1>2, <1>3

(* A word is that of the count and the stop signal that are read from it.  *)
LEMMA WordCounts ==
  ASSUME NEW w \in 0..(WordLimit - 1)
  PROVE  /\ w % StopBit \in 0..(StopBit - 1)
         /\ w = CountWord(w % StopBit, w \div StopBit = 1)
  <1>1. StopBit \in Nat \ {0} /\ w \in Nat /\ w < 2 * StopBit
    BY StopBitAssumption DEF WordLimit
  <1>2. CASE w < StopBit
    <2>1. w % StopBit = w /\ w \div StopBit = 0
      BY <1>1, <1>2, DivMod
    <2> QED  BY <1>1, <1>2, <2>1 DEF CountWord
  <1>3. CASE ~(w < StopBit)
    <2>1. w - StopBit \in 0..(StopBit - 1)
      BY <1>1, <1>3
    <2>2. ((w - StopBit) + StopBit) % StopBit = w - StopBit
          /\ ((w - StopBit) + StopBit) \div StopBit = 1
      BY <1>1, <2>1, DivMod
    <2>3. (w - StopBit) + StopBit = w
      BY <1>1
    <2> QED  BY <1>1, <2>1, <2>2, <2>3 DEF CountWord, WithStopBit
  <1> QED  BY <1>2, <1>3

(* A header of a message whose counts and sizes have room in it.           *)
LEMMA WrittenHeader ==
  ASSUME NEW sizes \in Seq(0..(WordLimit - 1)), Len(sizes) < StopBit,
         NEW stop \in BOOLEAN
  PROVE  LET header == mtc_header_write(sizes, stop)
         IN  /\ header \in Seq(PeerUnit) /\ Len(header) = Len(sizes) + 2
             /\ header[1] = Magic /\ header[2] = Word(CountWord(Len(sizes), stop))
             /\ \A b \in 1..Len(sizes) : header[b + 2] = Word(sizes[b])
  <1> DEFINE count == CountWord(Len(sizes), stop)
             front == <<Magic, Word(count)>>
             index == [i \in 1..Len(sizes) |-> Word(sizes[i] % WordLimit)]
             header == mtc_header_write(sizes, stop)
  <1>1. /\ WordLimit \in Nat \ {0} /\ Len(sizes) \in Nat
        /\ Len(sizes) \in 0..(StopBit - 1)
    BY StopBitAssumption DEF WordLimit
  <1>2. header = front \o index
    BY DEF mtc_header_write, CountWord
  <1>3. count \in 0..(WordLimit - 1)
    BY <1>1, CountWords
  <1>4. \A i \in 1..Len(sizes) :
          sizes[i] \in 0..(WordLimit - 1) /\ sizes[i] % WordLimit = sizes[i]
    <2> TAKE i \in 1..Len(sizes)
    <2>1. sizes[i] \in 0..(WordLimit - 1)
      BY ElementOfSeq
    <2> QED  BY <1>1, <2>1, DivMod
  <1>5. front \in Seq(PeerUnit) /\ Len(front) = 2 /\ front[1] = Magic /\ front[2] = Word(count)
    <2>1. Magic \in PeerUnit /\ Word(count) \in PeerUnit
      BY <1>3, WordUnit
    <2> HIDE DEF count
    <2> QED  BY <2>1
  <1>6. /\ index \in Seq(PeerUnit) /\ Len(index) = Len(sizes)
        /\ \A i \in 1..Len(sizes) : index[i] = Word(sizes[i])
    <2>1. \A i \in 1..Len(sizes) : Word(sizes[i] % WordLimit) \in PeerUnit
      BY <1>4, WordUnit
    <2> QED  BY <1>1, <1>4, <2>1
  <1> HIDE DEF front, index, count, header
  <1>7. /\ header \in Seq(PeerUnit) /\ Len(header) = 2 + Len(sizes)
        /\ \A i \in 1..(2 + Len(sizes)) :
             header[i] = IF i <= 2 THEN front[i] ELSE index[i - 2]
    <2>1. /\ front \o index \in Seq(PeerUnit)
          /\ Len(front \o index) = Len(front) + Len(index)
          /\ \A i \in 1..(Len(front) + Len(index)) : (front \o index)[i] =
               IF i <= Len(front) THEN front[i] ELSE index[i - Len(front)]
      BY <1>5, <1>6, ConcatProperties, ZenonT(30)
    <2>2. Len(front) = 2 /\ Len(index) = Len(sizes)
      BY <1>5, <1>6
    <2> QED  BY <1>2, <2>1, <2>2
  <1>8. \A b \in 1..Len(sizes) : header[b + 2] = Word(sizes[b])
    <2> TAKE b \in 1..Len(sizes)
    <2>1. b + 2 \in 1..(2 + Len(sizes)) /\ ~(b + 2 <= 2) /\ (b + 2) - 2 = b
      BY <1>1
    <2>2. header[b + 2] = index[b]
      BY <1>7, <2>1
    <2> QED  BY <1>6, <2>2
  <1>9. header[1] = Magic /\ header[2] = Word(count)
    BY <1>1, <1>5, <1>7
  <1> QED  BY <1>1, <1>7, <1>8, <1>9 DEF header, count

(* The blocks of a frame are as long as its sizes say.                     *)
LEMMA PayloadFacts ==
  ASSUME NEW sizes \in Seq(Nat), NEW k \in Nat
  PROVE  /\ PayloadOf(sizes, k) \in Seq(PeerUnit)
         /\ Len(PayloadOf(sizes, k)) = Total(sizes)
  <1> DEFINE blocks == [b \in 1..Len(sizes) |-> [i \in 1..sizes[b] |-> <<"byte", k, b, i>>]]
  <1>1. ASSUME NEW b \in 1..Len(sizes)
        PROVE  blocks[b] \in Seq(PeerUnit) /\ Len(blocks[b]) = sizes[b]
    <2>1. sizes[b] \in Nat /\ b \in Nat
      BY ElementOfSeq
    <2>2. \A i \in 1..sizes[b] : <<"byte", k, b, i>> \in PeerUnit
      BY <2>1 DEF PeerUnit
    <2> DEFINE n == sizes[b]
               block == [i \in 1..n |-> <<"byte", k, b, i>>]
    <2>3. blocks[b] = block /\ block = [i \in 1..n |-> block[i]]
      OBVIOUS
    <2>4. \A i \in 1..n : block[i] \in PeerUnit
      BY <2>2
    <2>5. n \in Nat
      BY <2>1
    <2> HIDE DEF blocks, block, n
    <2>6. block \in Seq(PeerUnit) /\ Len(block) = n
      BY <2>3, <2>4, <2>5, FunctionIsSeq
    <2> QED  BY <2>3, <2>6 DEF n
  <1>2. blocks \in Seq(Seq(PeerUnit)) /\ Len(blocks) = Len(sizes)
    <2>1. \A b \in 1..Len(sizes) : blocks[b] \in Seq(PeerUnit)
      BY <1>1
    <2>2. Len(sizes) \in Nat /\ blocks = [b \in 1..Len(sizes) |-> blocks[b]]
      OBVIOUS
    <2> HIDE DEF blocks
    <2> QED  BY <2>1, <2>2
  <1>3. \A b \in 1..Len(blocks) : sizes[b] = Len(blocks[b])
    BY <1>1, <1>2
  <1>4. PayloadOf(sizes, k) = FlattenSeq(blocks)
    BY DEF PayloadOf
  <1> HIDE DEF blocks
  <1> QED  BY <1>2, <1>3, <1>4, FlattenFacts DEF Total

(* What a frame begins with.                                               *)
LEMMA HeaderFacts ==
  ASSUME NEW f \in Shapes
  PROVE  /\ f.sizes \in Seq(0..(WordLimit - 1)) /\ f.sizes \in Seq(Nat)
         /\ Len(f.sizes) \in 0..(StopBit - 1)
         /\ f.magic \in BOOLEAN /\ f.stop \in BOOLEAN
         /\ Header(f) \in Seq(PeerUnit)
         /\ Len(Header(f)) = IF f.sizes = <<>> THEN 3 ELSE Len(f.sizes) + 2
         /\ (Header(f)[1] = Magic) <=> f.magic
         /\ Header(f)[2] = Word(CountWord(Len(f.sizes), f.stop))
         /\ \A b \in 1..Len(f.sizes) : Header(f)[b + 2] = Word(f.sizes[b])
  <1> DEFINE sizes == f.sizes
             w == mtc_header_write(sizes, f.stop)
             h == w \o (IF sizes = <<>> THEN <<Word(1)>> ELSE <<>>)
  <1>1. /\ f \in [magic : BOOLEAN, sizes : Seq(Nat), stop : BOOLEAN]
        /\ FitsHeader(sizes)
    BY PeerAssumptions
  <1>2. f.magic \in BOOLEAN /\ f.stop \in BOOLEAN /\ sizes \in Seq(Nat) /\ Len(sizes) \in Nat
    BY <1>1
  <1>3. Len(sizes) \in 0..(StopBit - 1) /\ Len(sizes) < StopBit /\ 1 \in 0..(WordLimit - 1)
    BY <1>1, <1>2, StopBitAssumption DEF FitsHeader, WordLimit
  <1>4. sizes \in Seq(0..(WordLimit - 1))
    <2>1. \A b \in 1..Len(sizes) : sizes[b] \in Nat /\ sizes[b] < WordLimit
      BY <1>1, <1>2, ElementOfSeq DEF FitsHeader
    <2>2. WordLimit \in Nat
      BY StopBitAssumption DEF WordLimit
    <2>3. \A b \in 1..Len(sizes) : sizes[b] \in 0..(WordLimit - 1)
      BY <2>1, <2>2
    <2> HIDE DEF sizes
    <2> QED  BY <1>2, <2>3, Narrow
  <1>5. /\ w \in Seq(PeerUnit) /\ Len(w) = Len(sizes) + 2
        /\ w[1] = Magic /\ w[2] = Word(CountWord(Len(sizes), f.stop))
        /\ \A b \in 1..Len(sizes) : w[b + 2] = Word(sizes[b])
    BY <1>2, <1>3, <1>4, WrittenHeader
  <1>6. /\ h \in Seq(PeerUnit)
        /\ Len(h) = IF sizes = <<>> THEN 3 ELSE Len(sizes) + 2
        /\ \A i \in 1..(Len(sizes) + 2) : h[i] = w[i]
    <2> HIDE DEF w, sizes
    <2>1. CASE sizes = <<>>
      <3>1. <<Word(1)>> \in Seq(PeerUnit) /\ Len(<<Word(1)>>) = 1
        BY <1>3, WordUnit
      <3>2. h = w \o <<Word(1)>>
        BY <2>1
      <3>3. Len(sizes) = 0
        BY <2>1
      <3> HIDE DEF h
      <3>4. /\ h \in Seq(PeerUnit) /\ Len(h) = Len(w) + 1
            /\ \A i \in 1..Len(w) : h[i] = w[i]
        BY <1>5, <3>1, <3>2, ConcatProperties
      <3> QED  BY <1>5, <2>1, <3>3, <3>4
    <2>2. CASE sizes # <<>>
      <3>1. h = w \o <<>>
        BY <2>2
      <3>2. h = w
        BY <1>5, <3>1, ConcatEmptySeq
      <3> HIDE DEF h
      <3> QED  BY <1>5, <2>2, <3>2
    <2> QED  BY <2>1, <2>2
  <1> HIDE DEF w
  <1>7. Header(f) = IF f.magic THEN h ELSE [h EXCEPT ![1] = <<"not MTC">>]
    BY DEF Header, w
  <1> HIDE DEF h
  <1>8. <<"not MTC">> # Magic /\ <<"not MTC">> \in PeerUnit
    BY DEF Magic, PeerUnit
  <1>9. /\ Header(f) \in Seq(PeerUnit) /\ Len(Header(f)) = Len(h)
        /\ Header(f)[1] = Magic <=> f.magic
        /\ \A i \in 2..(Len(sizes) + 2) : Header(f)[i] = h[i]
    <2>1. Len(h) \in Nat /\ 1 \in 1..Len(h) /\ h[1] = Magic
          /\ Len(sizes) + 2 <= Len(h)
      <3>1. sizes = <<>> => Len(sizes) = 0
        OBVIOUS
      <3> HIDE DEF sizes
      <3> QED  BY <1>2, <1>5, <1>6, <3>1
    <2>2. CASE f.magic
      BY <1>2, <1>6, <1>7, <2>1, <2>2
    <2>3. CASE ~f.magic
      <3>1. Header(f) = [h EXCEPT ![1] = <<"not MTC">>]
        BY <1>7, <2>3
      <3> DEFINE e == <<"not MTC">>
                 new == [h EXCEPT ![1] = e]
      <3> HIDE DEF e
      <3>4. e \in PeerUnit
        BY <1>8 DEF e
      <3>5. /\ new \in Seq(PeerUnit) /\ Len(new) = Len(h)
            /\ \A j \in 1..Len(h) : new[j] = IF j = 1 THEN e ELSE h[j]
        BY <1>6, <2>1, <3>4, ExceptSeq
      <3> HIDE DEF new
      <3>2. /\ Header(f) \in Seq(PeerUnit) /\ Len(Header(f)) = Len(h)
            /\ Header(f)[1] = <<"not MTC">>
            /\ \A i \in 1..Len(h) : i # 1 => Header(f)[i] = h[i]
        BY <2>1, <3>1, <3>5 DEF new, e
      <3>3. \A i \in 2..(Len(sizes) + 2) : i \in 1..Len(h) /\ i # 1
        <4> HIDE DEF sizes
        <4> QED  BY <1>2, <2>1
      <3> QED  BY <1>8, <2>3, <3>2, <3>3
    <2> QED  BY <1>2, <2>2, <2>3
  <1>10. /\ 2 \in 2..(Len(sizes) + 2) /\ 2 \in 1..(Len(sizes) + 2)
         /\ \A b \in 1..Len(sizes) :
              b + 2 \in 2..(Len(sizes) + 2) /\ b + 2 \in 1..(Len(sizes) + 2)
    BY <1>2
  <1>11. /\ Header(f)[2] = w[2]
         /\ \A b \in 1..Len(sizes) : Header(f)[b + 2] = w[b + 2]
    BY <1>6, <1>9, <1>10
  <1> QED  BY <1>2, <1>3, <1>4, <1>5, <1>6, <1>9, <1>11

(* A frame, and what comes after it on the stream.                         *)
LEMMA FrameFacts ==
  ASSUME NEW f \in Shapes, NEW k \in Nat
  PROVE  /\ Frame(f, k) \in Seq(PeerUnit) /\ Header(f) \in Seq(PeerUnit)
         /\ PayloadOf(f.sizes, k) \in Seq(PeerUnit)
         /\ Len(PayloadOf(f.sizes, k)) = Total(f.sizes) /\ Len(Header(f)) >= 3
         /\ Len(Frame(f, k)) = Len(Header(f)) + Len(PayloadOf(f.sizes, k))
         /\ \A i \in 1..Len(Header(f)) : Frame(f, k)[i] = Header(f)[i]
         /\ \A i \in 1..Len(PayloadOf(f.sizes, k)) :
              Frame(f, k)[Len(Header(f)) + i] = PayloadOf(f.sizes, k)[i]
  <1> DEFINE h == Header(f)
             p == PayloadOf(f.sizes, k)
             fr == Frame(f, k)
  <1>1. h \in Seq(PeerUnit) /\ Len(h) >= 3
    <2>1. /\ f.sizes \in Seq(Nat) /\ h \in Seq(PeerUnit)
          /\ Len(h) = IF f.sizes = <<>> THEN 3 ELSE Len(f.sizes) + 2
      BY HeaderFacts
    <2> HIDE DEF h
    <2>2. f.sizes # <<>> => Len(f.sizes) >= 1
      BY <2>1
    <2> QED  BY <2>1, <2>2
  <1>2. p \in Seq(PeerUnit) /\ Len(p) = Total(f.sizes)
    BY HeaderFacts, PayloadFacts
  <1>3. fr = h \o p
    BY DEF Frame
  <1> HIDE DEF h, p, fr
  <1>4. /\ fr \in Seq(PeerUnit) /\ Len(fr) = Len(h) + Len(p)
        /\ \A i \in 1..(Len(h) + Len(p)) :
             fr[i] = IF i <= Len(h) THEN h[i] ELSE p[i - Len(h)]
    BY <1>1, <1>2, <1>3, ConcatProperties
  <1>5. \A i \in 1..Len(p) : fr[Len(h) + i] = p[i]
    <2> TAKE i \in 1..Len(p)
    <2>1. Len(h) \in Nat /\ Len(p) \in Nat
      BY <1>1, <1>2
    <2>2. /\ Len(h) + i \in 1..(Len(h) + Len(p)) /\ ~(Len(h) + i <= Len(h))
          /\ (Len(h) + i) - Len(h) = i
      BY <2>1
    <2> QED  BY <1>4, <2>2
  <1>6. \A i \in 1..Len(h) : fr[i] = h[i]
    BY <1>1, <1>2, <1>4
  <1> QED  BY <1>1, <1>2, <1>4, <1>5, <1>6 DEF h, p, fr

(* Where a frame is next on the stream, what comes is its header first.    *)
LEMMA AtHeader ==
  ASSUME NEW f \in Shapes, NEW k \in Nat, NEW more \in Seq(PeerUnit),
         NEW s \in Seq(PeerUnit), NEW whole, Begins(s, Frame(f, k) \o more, whole),
         NEW i \in 1..Len(Header(f)), i <= Len(s)
  PROVE  s[i] = Header(f)[i]
  <1> DEFINE fr == Frame(f, k)
             t == fr \o more
  <1>1. fr \in Seq(PeerUnit) /\ i \in 1..Len(fr) /\ fr[i] = Header(f)[i]
    <2>1. /\ Len(fr) = Len(Header(f)) + Len(PayloadOf(f.sizes, k))
          /\ Header(f) \in Seq(PeerUnit) /\ PayloadOf(f.sizes, k) \in Seq(PeerUnit)
          /\ fr \in Seq(PeerUnit)
      BY FrameFacts
    <2> HIDE DEF fr
    <2>2. i \in 1..Len(fr)
      BY <2>1
    <2> QED  BY <2>2, FrameFacts DEF fr
  <1> HIDE DEF fr
  <1>2. t[i] = fr[i]
    <2>1. i \in 1..(Len(fr) + Len(more)) /\ i <= Len(fr)
      BY <1>1
    <2> QED  BY <1>1, <2>1, ConcatProperties
  <1>3. i \in 1..Len(s) /\ s[i] = t[i]
    <2> HIDE DEF t
    <2>1. i \in 1..Len(s)
      BY <1>1
    <2>2. Begins(s, t, whole)
      BY DEF t, fr
    <2> QED  BY <2>1, <2>2 DEF Begins
  <1> QED  BY <1>1, <1>2, <1>3

(* A magic and a count that is not 0 belong to a frame with that count.    *)
LEMMA FrameStart ==
  ASSUME NEW f \in Shapes, NEW k \in Nat, NEW more \in Seq(PeerUnit),
         NEW s \in Seq(PeerUnit), NEW whole, Begins(s, Frame(f, k) \o more, whole),
         NEW size \in 1..(StopBit - 1), NEW stop \in BOOLEAN, Len(s) >= 2,
         s[1] = Magic, s[2] = Word(CountWord(size, stop))
  PROVE  /\ f.magic /\ f.sizes # <<>> /\ Len(f.sizes) = size /\ f.stop = stop
         /\ Len(Header(f)) = size + 2
         /\ \A b \in 1..size : b + 2 <= Len(s) => s[b + 2] = Word(f.sizes[b])
  <1> DEFINE n == Len(f.sizes)
  <1>0. StopBit \in Nat /\ size \in 0..(StopBit - 1) /\ size # 0
    BY StopBitAssumption
  <1>1. /\ n \in 0..(StopBit - 1) /\ f.stop \in BOOLEAN /\ f.magic \in BOOLEAN
        /\ f.sizes \in Seq(Nat)
        /\ (Header(f)[1] = Magic) <=> f.magic
        /\ Header(f)[2] = Word(CountWord(n, f.stop))
        /\ \A b \in 1..n : Header(f)[b + 2] = Word(f.sizes[b])
        /\ Len(Header(f)) = IF f.sizes = <<>> THEN 3 ELSE n + 2
    BY HeaderFacts
  <1>2. Len(Header(f)) \in Nat /\ Len(Header(f)) >= 3
    BY FrameFacts
  <1>3. s[1] = Header(f)[1] /\ s[2] = Header(f)[2]
    <2>1. 1 \in 1..Len(Header(f)) /\ 2 \in 1..Len(Header(f)) /\ 1 <= Len(s) /\ 2 <= Len(s)
      BY <1>2
    <2> QED  BY <2>1, AtHeader
  <1> HIDE DEF n
  <1>4. CountWord(n, f.stop) = CountWord(size, stop)
    BY <1>1, <1>3, WordUnit
  <1>5. n = size /\ (f.stop <=> stop)
    BY <1>0, <1>1, <1>4, CountWords
  <1>6. f.sizes # <<>> /\ Len(Header(f)) = size + 2
    <2>1. f.sizes = <<>> => n = 0
      BY DEF n
    <2> QED  BY <1>0, <1>1, <1>5, <2>1
  <1>7. \A b \in 1..size : b + 2 <= Len(s) => s[b + 2] = Word(f.sizes[b])
    <2> TAKE b \in 1..size
    <2> HAVE b + 2 <= Len(s)
    <2>1. b + 2 \in 1..Len(Header(f)) /\ b \in 1..n
      BY <1>0, <1>5, <1>6
    <2>2. s[b + 2] = Header(f)[b + 2]
      BY <2>1, AtHeader
    <2> QED  BY <1>1, <2>1, <2>2
  <1>8. f.stop = stop
    BY <1>1, <1>5
  <1> QED  BY <1>1, <1>3, <1>5, <1>6, <1>7, <1>8 DEF n

(* A header with as many units behind it as it announces is a frame: the   *)
(* next one on the stream, with its sizes, its stop signal and its blocks. *)
LEMMA MessageDone ==
  ASSUME NEW f \in Shapes, NEW k \in Nat, NEW more \in Seq(PeerUnit),
         NEW sizes \in Seq(BlockSizes), Len(sizes) \in 1..(StopBit - 1),
         NEW stop \in BOOLEAN, NEW data \in Seq(PeerUnit), Len(data) = Total(sizes),
         NEW left \in Seq(PeerUnit), NEW whole,
         Begins((mtc_header_write(sizes, stop) \o data) \o left,
                Frame(f, k) \o more, whole)
  PROVE  /\ f.magic /\ f.sizes = sizes /\ f.stop = stop
         /\ data = PayloadOf(f.sizes, k)
         /\ Begins(left, more, whole)
  <1> DEFINE w == mtc_header_write(sizes, stop)
             n == Len(sizes)
             front == w \o data
             s == front \o left
             fr == Frame(f, k)
             t == fr \o more
             p == PayloadOf(f.sizes, k)
  <1>1. /\ StopBit \in Nat /\ n \in Nat /\ n \in 1..(StopBit - 1) /\ n < StopBit
        /\ WordLimit \in Nat
    BY StopBitAssumption DEF WordLimit
  <1>2. sizes \in Seq(0..(WordLimit - 1)) /\ sizes \in Seq(Nat)
    <2>1. \A i \in 1..Len(sizes) : sizes[i] \in 0..(WordLimit - 1) /\ sizes[i] \in Nat
      <3> TAKE i \in 1..Len(sizes)
      <3>1. sizes[i] \in BlockSizes
        BY ElementOfSeq
      <3> QED  BY <1>1, <3>1 DEF BlockSizes
    <2> QED  BY <2>1, Narrow
  <1>3. /\ w \in Seq(PeerUnit) /\ Len(w) = n + 2
        /\ w[1] = Magic /\ w[2] = Word(CountWord(n, stop))
        /\ \A b \in 1..n : w[b + 2] = Word(sizes[b])
    BY <1>1, <1>2, WrittenHeader
  <1>4. Len(data) \in Nat /\ Len(left) \in Nat /\ Len(more) \in Nat
    OBVIOUS
  <1>16. front = w \o data
    OBVIOUS
  <1>18. s = front \o left
    OBVIOUS
  <1>19. t = fr \o more
    OBVIOUS
  <1>9. Begins(s, t, whole)
    OBVIOUS
  <1>17. Begins(s, Frame(f, k) \o more, whole)
    OBVIOUS
  <1> HIDE DEF w, n, fr, p, front, s, t
  <1>5. /\ front \in Seq(PeerUnit) /\ Len(front) = (n + 2) + Len(data)
        /\ \A i \in 1..(n + 2) : front[i] = w[i]
        /\ \A i \in 1..Len(data) : front[(n + 2) + i] = data[i]
    <2>1. /\ front \in Seq(PeerUnit) /\ Len(front) = Len(w) + Len(data)
          /\ \A i \in 1..Len(w) : front[i] = w[i]
          /\ \A i \in 1..Len(data) : front[Len(w) + i] = data[i]
      <3>1. w \in Seq(PeerUnit)
        BY <1>3
      <3>2. data \in Seq(PeerUnit)
        OBVIOUS
      <3> QED  BY ONLY <1>16, <3>1, <3>2, Joins
    <2> QED  BY <1>3, <2>1
  <1>6. /\ s \in Seq(PeerUnit) /\ Len(s) = Len(front) + Len(left)
        /\ \A i \in 1..Len(front) : s[i] = front[i]
        /\ \A i \in 1..Len(left) : s[Len(front) + i] = left[i]
    <2>1. front \in Seq(PeerUnit)
      BY <1>5
    <2> QED  BY <1>18, <2>1, Joins
  <1>7. /\ fr \in Seq(PeerUnit) /\ Len(fr) = Len(Header(f)) + Len(p)
        /\ p \in Seq(PeerUnit) /\ Len(p) = Total(f.sizes)
        /\ \A i \in 1..Len(p) : fr[Len(Header(f)) + i] = p[i]
    BY FrameFacts DEF fr, p
  <1>8. /\ t \in Seq(PeerUnit) /\ Len(t) = Len(fr) + Len(more)
        /\ \A i \in 1..Len(fr) : t[i] = fr[i]
        /\ \A i \in 1..Len(more) : t[Len(fr) + i] = more[i]
    <2>1. fr \in Seq(PeerUnit)
      BY <1>7
    <2> QED  BY <1>19, <2>1, Joins, SMTT(30)
  <1>10. \A i \in 1..(n + 2) : i \in 1..Len(s) /\ s[i] = w[i]
    <2> TAKE i \in 1..(n + 2)
    <2>1. i \in 1..Len(front) /\ i \in 1..Len(s)
      BY <1>1, <1>4, <1>5, <1>6, SMTT(30)
    <2> QED  BY <1>5, <1>6, <2>1
  <1>11. /\ f.magic /\ Len(f.sizes) = n /\ f.stop = stop /\ Len(Header(f)) = n + 2
         /\ \A b \in 1..n : b + 2 <= Len(s) => s[b + 2] = Word(f.sizes[b])
    <2>1. 1 \in 1..(n + 2) /\ 2 \in 1..(n + 2) /\ Len(s) \in Nat
      BY <1>1, <1>6
    <2>2. Len(s) >= 2 /\ s[1] = Magic /\ s[2] = Word(CountWord(n, stop))
      BY <1>3, <1>10, <2>1
    <2>3. n \in 1..(StopBit - 1) /\ s \in Seq(PeerUnit)
      BY <1>1, <1>6
    <2> QED  BY <1>17, <2>2, <2>3, FrameStart, ZenonT(30)
  <1>12. f.sizes = sizes
    <2>1. \A b \in 1..n : f.sizes[b] = sizes[b]
      <3> TAKE b \in 1..n
      <3>1. b + 2 \in 1..(n + 2)
        BY <1>1
      <3>2. b + 2 \in 1..Len(s) /\ s[b + 2] = w[b + 2]
        BY <1>10, <3>1
      <3>3. b + 2 <= Len(s)
        BY <3>2
      <3>4. Word(f.sizes[b]) = Word(sizes[b])
        BY <1>3, <1>11, <3>2, <3>3
      <3> QED  BY <3>4, WordUnit
    <2>2. f.sizes \in Seq(Nat) /\ Len(f.sizes) = Len(sizes)
      BY <1>11, HeaderFacts DEF n
    <2> QED  BY <1>2, <2>1, <2>2, SeqEqual DEF n
  <1>13. Len(p) = Len(data) /\ Len(fr) = Len(front)
    BY <1>5, <1>7, <1>11, <1>12
  <1>14. data = p
    <2>1. \A i \in 1..Len(data) : data[i] = p[i]
      <3> TAKE i \in 1..Len(data)
      <3>1. (n + 2) + i \in 1..Len(front) /\ (n + 2) + i \in 1..Len(s)
        BY <1>1, <1>4, <1>5, <1>6, SMTT(30)
      <3>2. front[(n + 2) + i] = data[i] /\ s[(n + 2) + i] = front[(n + 2) + i]
        BY <1>5, <1>6, <3>1
      <3>3. s[(n + 2) + i] = t[(n + 2) + i]
        BY <1>9, <3>1 DEF Begins
      <3>4. t[(n + 2) + i] = fr[(n + 2) + i] /\ i \in 1..Len(p)
        BY <1>8, <1>13, <3>1
      <3>5. fr[(n + 2) + i] = p[i]
        BY <1>7, <1>11, <3>4
      <3> QED  BY <3>2, <3>3, <3>4, <3>5
    <2> QED  BY <1>7, <1>13, <2>1, SeqEqual
  <1>15. Begins(left, more, whole)
    <2>1. Len(left) <= Len(more)
      BY <1>4, <1>5, <1>6, <1>8, <1>9, <1>13, SMTT(30) DEF Begins
    <2>2. \A i \in 1..Len(left) : left[i] = more[i]
      <3> TAKE i \in 1..Len(left)
      <3>1. Len(front) + i \in 1..Len(s) /\ i \in 1..Len(more)
        BY <1>4, <1>5, <1>6, <2>1
      <3>2. s[Len(front) + i] = t[Len(front) + i]
        BY <1>9, <3>1 DEF Begins
      <3> QED  BY <1>6, <1>8, <1>13, <3>1, <3>2
    <2>3. ASSUME whole PROVE left = more
      <3>1. Len(left) = Len(more)
        BY <1>4, <1>5, <1>6, <1>8, <1>9, <1>13, <2>3, SMTT(30) DEF Begins
      <3> QED  BY <2>2, <3>1, SeqEqual
    <2> QED  BY <2>1, <2>2, <2>3 DEF Begins
  <1> QED  BY <1>11, <1>12, <1>14, <1>15 DEF p

-----------------------------------------------------------------------------
(* The frames that are still to come.                                      *)

(* Each of them is a sequence of units.                                    *)
LEMMA FramesType ==
  ASSUME NEW fs \in Seq(Shapes), NEW n \in 0..Len(fs)
  PROVE  /\ Frames(fs, n) \in Seq(Seq(PeerUnit))
         /\ Len(Frames(fs, n)) = Len(fs) - n
         /\ \A k \in 1..(Len(fs) - n) : Frames(fs, n)[k] = Frame(fs[n + k], n + k)
         /\ Due(fs, n) \in Seq(PeerUnit)
  <1> DEFINE m == Len(fs) - n
             frames == Frames(fs, n)
  <1>1. m \in Nat /\ n \in Nat
    OBVIOUS
  <1>2. /\ \A k \in 1..m : frames[k] = Frame(fs[n + k], n + k)
        /\ frames = [k \in 1..m |-> frames[k]]
    BY DEF Frames
  <1>3. \A k \in 1..m : frames[k] \in Seq(PeerUnit)
    <2> TAKE k \in 1..m
    <2>1. n + k \in 1..Len(fs) /\ n + k \in Nat
      BY <1>1
    <2>2. fs[n + k] \in Shapes
      BY <2>1, ElementOfSeq
    <2>3. Frame(fs[n + k], n + k) \in Seq(PeerUnit)
      BY <2>1, <2>2, FrameFacts
    <2> QED  BY <1>2, <2>3
  <1> HIDE DEF frames, m
  <1>4. frames \in Seq(Seq(PeerUnit)) /\ Len(frames) = m
    BY <1>1, <1>2, <1>3, FunctionIsSeq
  <1> DEFINE lens == [k \in 1..m |-> Len(frames[k])]
  <1>5. lens \in Seq(Nat) /\ Len(lens) = m /\ \A k \in 1..m : lens[k] = Len(frames[k])
    <2>1. \A k \in 1..m : Len(frames[k]) \in Nat
      BY <1>3
    <2> QED  BY <1>1, <2>1
  <1> HIDE DEF lens
  <1>6. FlattenSeq(frames) \in Seq(PeerUnit)
    BY <1>4, <1>5, FlattenFacts
  <1> QED  BY <1>2, <1>4, <1>6 DEF Due, frames, m

(* The next frame is in front.                                             *)
LEMMA DueNext ==
  ASSUME NEW fs \in Seq(Shapes), NEW n \in Nat, n < Len(fs)
  PROVE  /\ fs[n + 1] \in Shapes
         /\ Due(fs, n) = Frame(fs[n + 1], n + 1) \o Due(fs, n + 1)
  <1> DEFINE first == Frame(fs[n + 1], n + 1)
             m == Len(fs) - (n + 1)
             all == Frames(fs, n)
             rest == Frames(fs, n + 1)
  <1>1. /\ m \in Nat /\ n \in 0..Len(fs) /\ n + 1 \in 0..Len(fs) /\ n + 1 \in 1..Len(fs)
        /\ Len(fs) - n = m + 1
    OBVIOUS
  <1>2. fs[n + 1] \in Shapes
    BY <1>1, ElementOfSeq
  <1>3. first \in Seq(PeerUnit)
    BY <1>1, <1>2, FrameFacts
  <1>4. /\ all \in Seq(Seq(PeerUnit)) /\ Len(all) = m + 1
        /\ \A k \in 1..(m + 1) : all[k] = Frame(fs[n + k], n + k)
    BY <1>1, FramesType
  <1>5. /\ rest \in Seq(Seq(PeerUnit)) /\ Len(rest) = m
        /\ \A k \in 1..m : rest[k] = Frame(fs[(n + 1) + k], (n + 1) + k)
    BY <1>1, FramesType
  <1> HIDE DEF all, rest, m
  <1>6. all[1] = first
    <2>1. 1 \in 1..(m + 1)
      BY <1>1
    <2> QED  BY <1>4, <2>1
  <1>7. \A i \in 1..Len(rest) : all[i + 1] = rest[i]
    <2> TAKE i \in 1..Len(rest)
    <2>1. i \in 1..m /\ i + 1 \in 1..(m + 1) /\ n + (i + 1) = (n + 1) + i
      BY <1>1, <1>5
    <2>2. /\ all[i + 1] = Frame(fs[n + (i + 1)], n + (i + 1))
          /\ rest[i] = Frame(fs[(n + 1) + i], (n + 1) + i)
      BY <1>4, <1>5, <2>1
    <2> QED  BY <2>1, <2>2
  <1> HIDE DEF first
  <1>8. Len(all) = Len(rest) + 1
    BY <1>4, <1>5
  <1>9. FlattenSeq(all) = first \o FlattenSeq(rest)
    BY <1>3, <1>4, <1>5, <1>6, <1>7, <1>8, FlattenCons
  <1> QED  BY <1>2, <1>9 DEF Due, all, rest, first

(* A new frame is at the end.                                              *)
LEMMA DueGrows ==
  ASSUME NEW fs \in Seq(Shapes), NEW n \in 0..Len(fs), NEW f \in Shapes
  PROVE  Due(Append(fs, f), n) = Due(fs, n) \o Frame(f, Len(fs) + 1)
  <1> DEFINE m == Len(fs) - n
             last == Frame(f, Len(fs) + 1)
             new == Append(fs, f)
             old == Frames(fs, n)
             all == Frames(new, n)
  <1>1. m \in Nat /\ n \in Nat /\ Len(fs) \in Nat
    OBVIOUS
  <1>2. /\ new \in Seq(Shapes) /\ Len(new) = Len(fs) + 1 /\ new[Len(fs) + 1] = f
        /\ \A i \in 1..Len(fs) : new[i] = fs[i]
    BY AppendProperties
  <1>3. last \in Seq(PeerUnit)
    BY <1>1, FrameFacts
  <1>4. /\ old \in Seq(Seq(PeerUnit)) /\ Len(old) = m
        /\ \A k \in 1..m : old[k] = Frame(fs[n + k], n + k)
    BY <1>1, FramesType
  <1> HIDE DEF new
  <1>5. /\ all \in Seq(Seq(PeerUnit)) /\ Len(all) = m + 1
        /\ \A k \in 1..(m + 1) : all[k] = Frame(new[n + k], n + k)
    <2>1. n \in 0..Len(new) /\ Len(new) - n = m + 1
      BY <1>1, <1>2
    <2> HIDE DEF m
    <2> QED  BY <1>2, <2>1, FramesType
  <1> DEFINE both == Append(old, last)
  <1> HIDE DEF last, old, all
  <1>6. /\ both \in Seq(Seq(PeerUnit)) /\ Len(both) = m + 1 /\ both[m + 1] = last
        /\ \A k \in 1..m : both[k] = old[k]
    <2> HIDE DEF m
    <2> QED  BY <1>3, <1>4, AppendProperties
  <1>7. \A k \in 1..(m + 1) : all[k] = both[k]
    <2> TAKE k \in 1..(m + 1)
    <2>1. CASE k = m + 1
      <3>1. n + k = Len(fs) + 1
        BY <1>1, <2>1
      <3>2. all[k] = Frame(new[n + k], n + k)
        BY <1>5
      <3> QED  BY <1>2, <1>6, <2>1, <3>1, <3>2 DEF last
    <2>2. CASE k # m + 1
      <3>1. k \in 1..m /\ n + k \in 1..Len(fs)
        BY <1>1, <2>2
      <3>2. all[k] = Frame(new[n + k], n + k) /\ new[n + k] = fs[n + k]
        BY <1>2, <1>5, <3>1
      <3> HIDE DEF both, m
      <3> QED  BY <1>4, <1>6, <3>1, <3>2
    <2> QED  BY <2>1, <2>2
  <1> HIDE DEF both, m
  <1>8. all = both
    <2>1. Len(all) = Len(both)
      BY <1>5, <1>6
    <2>2. \A k \in 1..Len(all) : all[k] = both[k]
      BY <1>5, <1>7
    <2> QED  BY <1>5, <1>6, <2>1, <2>2, SeqEqual
  <1>9. FlattenSeq(both) = FlattenSeq(old) \o last
    BY <1>3, <1>4, FlattenAppend DEF both
  <1> QED  BY <1>8, <1>9 DEF Due, all, old, last, new

(* No frame is to come when all of them have been met.                     *)
LEMMA DueNone ==
  ASSUME NEW fs \in Seq(Shapes)
  PROVE  Due(fs, Len(fs)) = <<>>
  <1>1. Frames(fs, Len(fs)) \in Seq(Seq(PeerUnit)) /\ Len(Frames(fs, Len(fs))) = 0
    <2>1. Len(fs) \in 0..Len(fs) /\ Len(fs) - Len(fs) = 0
      OBVIOUS
    <2> QED  BY <2>1, FramesType
  <1>2. Frames(fs, Len(fs)) = <<>>
    BY <1>1
  <1> QED  BY <1>1, <1>2 DEF Due, FlattenSeq

-----------------------------------------------------------------------------
(* One read.                                                               *)

(* What a read gives is taken from the front of the socket.                *)
LEMMA Took ==
  ASSUME TypeOK, NEW room \in Nat, NEW answer \in Answers(room) \cup {Severe},
         Takes(answer)
  PROVE  /\ answer.units \in Seq(PeerUnit) /\ Len(answer.units) <= room
         /\ answer.kind \in {"data", "temp", "eof", "severe"}
         /\ answer.kind # "data" => answer.units = <<>>
         /\ sock' \in [buf : Seq(PeerUnit), eof : BOOLEAN, hup : BOOLEAN]
         /\ sock'.eof = sock.eof
         /\ sock.buf = answer.units \o sock'.buf
  <1> DEFINE buf == sock.buf
             u == answer.units
  <1>1. /\ sock \in [buf : Seq(PeerUnit), eof : BOOLEAN, hup : BOOLEAN]
        /\ buf \in Seq(PeerUnit) /\ Len(buf) \in Nat
    BY DEF TypeOK
  <1>2. \/ \E n \in 1..room : n <= Len(buf) /\ answer = Data(SubSeq(buf, 1, n))
        \/ answer \in {Temp, Eof, Severe}
    BY DEF Answers
  <1>3. \E n \in 0..room :
          /\ n <= Len(buf) /\ u = SubSeq(buf, 1, n)
          /\ answer.kind \in {"data", "temp", "eof", "severe"}
          /\ answer.kind # "data" => u = <<>>
    <2>1. ASSUME NEW n \in 1..room, n <= Len(buf), answer = Data(SubSeq(buf, 1, n))
          PROVE  /\ n \in 0..room /\ u = SubSeq(buf, 1, n) /\ answer.kind = "data"
      BY <2>1 DEF Data
    <2>2. ASSUME answer \in {Temp, Eof, Severe}
          PROVE  /\ u = <<>> /\ answer.kind \in {"temp", "eof", "severe"}
      BY <2>2 DEF Temp, Eof, Severe
    <2>3. 0 \in 0..room /\ 0 <= Len(buf) /\ SubSeq(buf, 1, 0) = <<>>
      BY <1>1
    <2> HIDE DEF u, buf
    <2>4. CASE answer \in {Temp, Eof, Severe}
      BY <2>2, <2>3, <2>4
    <2>5. CASE \E n \in 1..room : n <= Len(buf) /\ answer = Data(SubSeq(buf, 1, n))
      <3>1. PICK n \in 1..room : n <= Len(buf) /\ answer = Data(SubSeq(buf, 1, n))
        BY <2>5
      <3>2. n \in 0..room /\ u = SubSeq(buf, 1, n) /\ answer.kind = "data"
        BY <2>1, <3>1
      <3> QED  BY <3>1, <3>2
    <2> QED  BY <1>2, <2>4, <2>5
  <1>4. PICK n \in 0..room :
          /\ n <= Len(buf) /\ u = SubSeq(buf, 1, n)
          /\ answer.kind \in {"data", "temp", "eof", "severe"}
          /\ answer.kind # "data" => u = <<>>
    BY <1>3
  <1>5. sock' = [sock EXCEPT !.buf = SubSeq(buf, Len(u) + 1, Len(buf))]
    BY DEF Takes
  <1> HIDE DEF buf, u
  <1>6. u \in Seq(PeerUnit) /\ Len(u) = n /\ \A i \in 1..n : u[i] = buf[i]
    BY <1>1, <1>4
  <1> DEFINE left == SubSeq(buf, Len(u) + 1, Len(buf))
  <1>7. /\ left \in Seq(PeerUnit) /\ Len(left) = Len(buf) - n
        /\ \A i \in 1..(Len(buf) - n) : left[i] = buf[n + i]
    BY <1>1, <1>4, <1>6
  <1> HIDE DEF left
  <1>8. buf = u \o left
    <2> DEFINE both == u \o left
    <2>1. both \in Seq(PeerUnit) /\ Len(both) = Len(u) + Len(left)
          /\ \A i \in 1..(Len(u) + Len(left)) :
               both[i] = IF i <= Len(u) THEN u[i] ELSE left[i - Len(u)]
      BY <1>6, <1>7, ConcatProperties
    <2> HIDE DEF both
    <2>2. \A i \in 1..Len(buf) : buf[i] = both[i]
      <3> TAKE i \in 1..Len(buf)
      <3>1. i \in 1..(Len(u) + Len(left))
        BY <1>1, <1>4, <1>6, <1>7
      <3>2. CASE i <= n
        BY <1>6, <2>1, <3>1, <3>2
      <3>3. CASE ~(i <= n)
        <4>1. i - n \in 1..(Len(buf) - n) /\ n + (i - n) = i
          BY <1>1, <1>4, <3>3
        <4>2. both[i] = left[i - n]
          BY <1>6, <2>1, <3>1, <3>3
        <4> QED  BY <1>7, <4>1, <4>2
      <3> QED  BY <3>2, <3>3
    <2>3. Len(buf) = Len(both)
      BY <1>1, <1>4, <1>6, <1>7, <2>1
    <2> QED  BY <1>1, <2>1, <2>2, <2>3, SeqEqual DEF both
  <1>9. sock' = [sock EXCEPT !.buf = left]
    BY <1>5 DEF left
  <1>10. /\ sock' \in [buf : Seq(PeerUnit), eof : BOOLEAN, hup : BOOLEAN]
         /\ sock'.eof = sock.eof /\ sock'.buf = left
    BY <1>1, <1>7, <1>9
  <1>11. Len(u) <= room
    BY <1>4, <1>6
  <1> QED  BY <1>4, <1>6, <1>8, <1>10, <1>11 DEF buf, u

Readers == [buf : Seq(PeerUnit), len : Nat]

(* mtc_reader_read stores what it is given behind what it has, and is done *)
(* when there is no room left.                                             *)
LEMMA ReaderFacts ==
  ASSUME NEW from \in Readers, from.len > 0, NEW answer,
         answer.units \in Seq(PeerUnit), Len(answer.units) <= from.len,
         answer.kind \in {"data", "temp", "eof", "severe"},
         answer.kind # "data" => answer.units = <<>>
  PROVE  LET res == mtc_reader_read(from, answer)
         IN  /\ res.reader \in Readers
             /\ res.reader.buf = from.buf \o answer.units
             /\ Len(res.reader.buf) + res.reader.len = Len(from.buf) + from.len
             /\ res.io \in {MTC_IO_OK, MTC_IO_TEMP, MTC_IO_EOF, MTC_IO_SEVERE}
             /\ res.io = MTC_IO_OK <=> res.reader.len = 0
             /\ res.io = MTC_IO_EOF => answer.kind = "eof"
             /\ res.io = MTC_IO_SEVERE => answer.kind = "severe"
  <1> DEFINE res == mtc_reader_read(from, answer)
             u == answer.units
  <1>1. /\ from.buf \in Seq(PeerUnit) /\ from.len \in Nat /\ from.len # 0
        /\ from = [buf |-> from.buf, len |-> from.len]
    BY DEF Readers
  <1>2. CASE answer.kind # "data"
    <2>1. res = [reader |-> from, io |-> ErrorStatus(answer)]
      BY <1>1, <1>2 DEF mtc_reader_read
    <2>2. from.buf \o u = from.buf
      BY <1>1, <1>2, ConcatEmptySeq
    <2>3. /\ ErrorStatus(answer) \in {MTC_IO_TEMP, MTC_IO_EOF, MTC_IO_SEVERE}
          /\ ErrorStatus(answer) = MTC_IO_EOF => answer.kind = "eof"
          /\ ErrorStatus(answer) = MTC_IO_SEVERE => answer.kind = "severe"
          /\ ErrorStatus(answer) # MTC_IO_OK
      BY <1>2 DEF ErrorStatus, MTC_IO_TEMP, MTC_IO_EOF, MTC_IO_SEVERE, MTC_IO_OK
    <2>4. res.reader = from /\ res.io = ErrorStatus(answer)
      BY <2>1
    <2> HIDE DEF res, u
    <2> QED  BY <1>1, <2>2, <2>3, <2>4 DEF res, u
  <1>3. CASE answer.kind = "data"
    <2> DEFINE left == from.len - Len(u)
    <2>1. left \in Nat /\ Len(u) \in Nat
      BY <1>1
    <2>2. /\ from.buf \o u \in Seq(PeerUnit)
          /\ Len(from.buf \o u) = Len(from.buf) + Len(u)
      BY <1>1, ConcatProperties
    <2>3. res = [reader |-> [buf |-> from.buf \o u, len |-> left],
                 io     |-> IF left > 0 THEN MTC_IO_TEMP ELSE MTC_IO_OK]
      BY <1>1, <1>3 DEF mtc_reader_read
    <2>4. /\ res.reader = [buf |-> from.buf \o u, len |-> left]
          /\ res.reader.buf = from.buf \o u /\ res.reader.len = left
          /\ res.io = IF left > 0 THEN MTC_IO_TEMP ELSE MTC_IO_OK
      <3> DEFINE buf == from.buf \o u
                 stored == [buf |-> buf, len |-> left]
                 io == IF left > 0 THEN MTC_IO_TEMP ELSE MTC_IO_OK
      <3>1. stored.buf = buf /\ stored.len = left
        OBVIOUS
      <3> HIDE DEF stored, io, res, buf, left
      <3>2. res = [reader |-> stored, io |-> io]
        BY <2>3 DEF stored, io, buf
      <3>3. res.reader = stored /\ res.io = io
        BY <3>2
      <3> QED  BY <3>1, <3>3 DEF stored, io, buf
    <2>5. Len(from.buf) \in Nat /\ Len(from.buf) + Len(u) + left = Len(from.buf) + from.len
      BY <1>1, <2>1
    <2> HIDE DEF res, u, left
    <2>6. res.reader \in Readers
      BY <2>1, <2>2, <2>4 DEF Readers
    <2>7. /\ res.io \in {MTC_IO_OK, MTC_IO_TEMP, MTC_IO_EOF, MTC_IO_SEVERE}
          /\ res.io = MTC_IO_OK <=> res.reader.len = 0
          /\ res.io # MTC_IO_EOF /\ res.io # MTC_IO_SEVERE
      BY <2>1, <2>4 DEF MTC_IO_TEMP, MTC_IO_EOF, MTC_IO_SEVERE, MTC_IO_OK
    <2> QED  BY <2>2, <2>4, <2>5, <2>6, <2>7 DEF res, u
  <1> QED  BY <1>2, <1>3

ReadersV == [buf : Seq(PeerUnit), lens : Seq(Nat)]

(* mtc_reader_v_read does so for a vector of blocks.                       *)
LEMMA ReaderVFacts ==
  ASSUME NEW from \in ReadersV, from.lens \in Seq(Nat \ {0}), from.lens # <<>>, NEW answer,
         answer.units \in Seq(PeerUnit), Len(answer.units) <= Total(from.lens),
         answer.kind \in {"data", "temp", "eof", "severe"},
         answer.kind # "data" => answer.units = <<>>
  PROVE  LET res == mtc_reader_v_read(from, answer)
         IN  /\ res.reader \in ReadersV
             /\ res.reader.buf = from.buf \o answer.units
             /\ res.reader.lens \in Seq(Nat \ {0})
             /\ Len(res.reader.lens) <= Len(from.lens)
             /\ answer.kind # "data" => res.reader.lens = from.lens
             /\ Len(res.reader.buf) + Total(res.reader.lens)
                  = Len(from.buf) + Total(from.lens)
             /\ res.io \in {MTC_IO_OK, MTC_IO_TEMP, MTC_IO_EOF, MTC_IO_SEVERE}
             /\ res.io = MTC_IO_OK <=> res.reader.lens = <<>>
             /\ res.io = MTC_IO_OK => answer.kind = "data"
             /\ res.io = MTC_IO_EOF => answer.kind = "eof"
             /\ res.io = MTC_IO_SEVERE => answer.kind = "severe"
  <1> DEFINE res == mtc_reader_v_read(from, answer)
             u == answer.units
  <1>1. /\ from.buf \in Seq(PeerUnit) /\ from.lens \in Seq(Nat)
        /\ from = [buf |-> from.buf, lens |-> from.lens]
    BY DEF ReadersV
  <1>2. Total(from.lens) \in Nat /\ Len(from.lens) \in Nat
    <2>1. Len(from.lens) \in 0..Len(from.lens)
      BY <1>1
    <2> QED  BY <1>1, <2>1, ThroughFacts DEF Total
  <1>3. CASE answer.kind # "data"
    <2>1. res = [reader |-> from, io |-> ErrorStatus(answer)]
      BY <1>1, <1>3 DEF mtc_reader_v_read
    <2>2. from.buf \o u = from.buf
      BY <1>1, <1>3, ConcatEmptySeq
    <2>3. /\ ErrorStatus(answer) \in {MTC_IO_TEMP, MTC_IO_EOF, MTC_IO_SEVERE}
          /\ ErrorStatus(answer) = MTC_IO_EOF => answer.kind = "eof"
          /\ ErrorStatus(answer) = MTC_IO_SEVERE => answer.kind = "severe"
          /\ ErrorStatus(answer) # MTC_IO_OK
      BY <1>3 DEF ErrorStatus, MTC_IO_TEMP, MTC_IO_EOF, MTC_IO_SEVERE, MTC_IO_OK
    <2>4. res.reader = from /\ res.io = ErrorStatus(answer)
      BY <2>1
    <2> HIDE DEF res, u
    <2> QED  BY <1>1, <1>2, <2>2, <2>3, <2>4 DEF res, u
  <1>4. CASE answer.kind = "data"
    <2> DEFINE lens == FillRest(from.lens, Len(u))
               buf == from.buf \o u
               stored == [buf |-> buf, lens |-> lens]
               io == IF lens # <<>> THEN MTC_IO_TEMP ELSE MTC_IO_OK
    <2>1. Len(u) \in Nat /\ Len(from.buf) \in Nat
      BY <1>1
    <2>2. /\ lens \in Seq(Nat \ {0}) /\ Len(lens) <= Len(from.lens)
          /\ Total(lens) = Total(from.lens) - Len(u)
      BY <2>1, FillRestFacts DEF Total
    <2>3. buf \in Seq(PeerUnit) /\ Len(buf) = Len(from.buf) + Len(u)
      BY <1>1, ConcatProperties
    <2>4. res = [reader |-> stored, io |-> io]
      BY <1>1, <1>4 DEF mtc_reader_v_read
    <2>5. stored.buf = buf /\ stored.lens = lens
      OBVIOUS
    <2>6. stored \in ReadersV
      <3> HIDE DEF buf, lens
      <3>1. lens \in Seq(Nat)
        BY <2>2
      <3> QED  BY <2>3, <3>1 DEF ReadersV
    <2>7. /\ io \in {MTC_IO_OK, MTC_IO_TEMP, MTC_IO_EOF, MTC_IO_SEVERE}
          /\ io = MTC_IO_OK <=> lens = <<>>
          /\ io # MTC_IO_EOF /\ io # MTC_IO_SEVERE
      <3> HIDE DEF lens
      <3> QED  BY DEF MTC_IO_TEMP, MTC_IO_EOF, MTC_IO_SEVERE, MTC_IO_OK
    <2> HIDE DEF stored, io, res, buf, lens
    <2>8. res.reader = stored /\ res.io = io
      BY <2>4
    <2>9. Len(buf) + Total(lens) = Len(from.buf) + Total(from.lens)
      <3> HIDE DEF u
      <3> QED  BY <1>2, <2>1, <2>2, <2>3
    <2>10. res.reader.buf = from.buf \o answer.units
      BY <2>5, <2>8 DEF buf
    <2> QED  BY <1>4, <2>2, <2>5, <2>6, <2>7, <2>8, <2>9, <2>10 DEF res
  <1> QED  BY <1>3, <1>4

(* The room for a single block, and for none.                              *)
LEMMA SmallTotals ==
  /\ Total(<<>>) = 0
  /\ \A d \in Nat : Total(<<d>>) = d
  <1>1. <<>> \in Seq(Nat) /\ Len(<<>>) = 0
    OBVIOUS
  <1>2. Total(<<>>) = 0
    BY <1>1, ThroughFacts DEF Total
  <1>3. ASSUME NEW d \in Nat PROVE Total(<<d>>) = d
    <2> DEFINE lens == <<d>>
    <2>1. lens \in Seq(Nat) /\ Len(lens) = 1 /\ lens[1] = d
      OBVIOUS
    <2> HIDE DEF lens
    <2>2. 1 \in 1..Len(lens) /\ 1 - 1 = 0
      BY <2>1
    <2>3. Through(lens)[1] = Through(lens)[0] + d /\ Through(lens)[0] = 0
      BY <2>1, <2>2, ThroughFacts
    <2> QED  BY <2>1, <2>3 DEF Total, lens
  <1> QED  BY <1>2, <1>3

(* What is kept of a header that is not rejected is all that was in it.    *)
LEMMA HeaderTaken ==
  ASSUME NEW buf \in Seq(PeerUnit), Len(buf) = 3,
         mtc_header_read(buf).ok, mtc_header_read(buf).data_1 # 0
  PROVE  LET h == mtc_header_read(buf)
         IN  /\ h.size \in 1..(StopBit - 1) /\ h.data_1 \in BlockSizes
             /\ h.stop \in BOOLEAN
             /\ buf = <<Magic, Word(CountWord(h.size, h.stop)), Word(h.data_1)>>
  <1> DEFINE w == ValueOf(buf[2])
             h == mtc_header_read(buf)
  <1>1. /\ buf[1] \in PeerUnit /\ buf[2] \in PeerUnit /\ buf[3] \in PeerUnit
        /\ buf = <<buf[1], buf[2], buf[3]>>
    OBVIOUS
  <1>2. /\ h.ok = (buf[1] = Magic /\ w % StopBit # 0) /\ h.size = w % StopBit
        /\ h.data_1 = ValueOf(buf[3]) /\ h.stop = (w \div StopBit = 1)
    BY DEF mtc_header_read
  <1>3. StopBit \in Nat \ {0} /\ WordLimit \in Nat
    BY StopBitAssumption DEF WordLimit
  <1>4. w \in 0..(WordLimit - 1) /\ (w # 0 => buf[2] = Word(w))
    BY <1>1, UnitValue
  <1>5. /\ h.data_1 \in 0..(WordLimit - 1)
        /\ buf[3] = Word(h.data_1)
    BY <1>1, <1>2, UnitValue
  <1>6. w % StopBit \in 0..(StopBit - 1) /\ w = CountWord(w % StopBit, w \div StopBit = 1)
    BY <1>4, WordCounts
  <1>7. buf[1] = Magic /\ w % StopBit # 0
    BY <1>2
  <1>8. w # 0
    BY <1>3, <1>7
  <1>9. buf[2] = Word(CountWord(h.size, h.stop))
    BY <1>2, <1>4, <1>6, <1>8
  <1>10. h.size \in 1..(StopBit - 1) /\ h.data_1 \in BlockSizes /\ h.stop \in BOOLEAN
    BY <1>2, <1>3, <1>5, <1>6, <1>7 DEF BlockSizes
  <1> QED  BY <1>1, <1>5, <1>7, <1>9, <1>10

-----------------------------------------------------------------------------
(* The steps of mtc_fd_link_receive.                                       *)

(* A read has three outcomes.  The receiver goes on, and has or leaves in  *)
(* the socket what was there; it returns a message; or it breaks the link. *)
Kept ==
  /\ in_status' = "open" /\ got' = got
  /\ Rest' = Rest /\ Phases'
Done ==
  \E sizes \in Seq(BlockSizes), data \in Seq(PeerUnit), stop \in BOOLEAN :
    /\ Len(sizes) \in 1..(StopBit - 1) /\ Len(data) = Total(sizes)
    /\ IovMax > 0 => Len(sizes) <= IovMax \/ Len(sizes) = 1
    /\ Rest = (mtc_header_write(sizes, stop) \o data) \o sock'.buf
    /\ got' = Append(got, [sizes |-> sizes, data |-> data, stop |-> stop])
    /\ read_status' = "INIT_READ" /\ mem' = "none" /\ msg' = <<>>
    /\ in_status' = IF stop THEN "stopped" ELSE "open"
GivenUp == in_status' = "broken" /\ got' = got

ReadStep == TypeOK' /\ sock'.eof = sock.eof /\ (Kept \/ Done \/ GivenUp)

HeaderFields == [size : Nat, data_1 : Nat, stop : BOOLEAN]

(* A header is stored with its types, whatever it holds.                   *)
LEMMA HeaderTypes ==
  ASSUME NEW buf \in Seq(PeerUnit), Len(buf) = 3
  PROVE  HeaderData(mtc_header_read(buf)) \in HeaderFields
  <1> DEFINE w == ValueOf(buf[2])
  <1>1. buf[2] \in PeerUnit /\ buf[3] \in PeerUnit
    <2>1. 2 \in 1..Len(buf) /\ 3 \in 1..Len(buf)
      OBVIOUS
    <2> QED  BY <2>1, ElementOfSeq
  <1>2. w \in 0..(WordLimit - 1) /\ ValueOf(buf[3]) \in 0..(WordLimit - 1)
    BY <1>1, UnitValue
  <1>3. w % StopBit \in Nat
    <2>1. w % StopBit \in 0..(StopBit - 1)
      BY <1>2, WordCounts
    <2> QED  BY <2>1, StopBitAssumption
  <1>4. HeaderData(mtc_header_read(buf))
          = [size |-> w % StopBit, data_1 |-> ValueOf(buf[3]), stop |-> w \div StopBit = 1]
    BY DEF HeaderData, mtc_header_read
  <1>5. ValueOf(buf[3]) \in Nat
    BY <1>2
  <1> HIDE DEF w
  <1> QED  BY <1>3, <1>4, <1>5 DEF HeaderFields

(* The beginning of a message in a phase after its header.                 *)
Opening(fields) == <<Magic, Word(CountWord(fields.size, fields.stop)), Word(fields.data_1)>>

(* What is held in each phase.                                             *)
LEMMA PartialFacts ==
  /\ read_status = "INIT_READ" => Partial = <<>>
  /\ read_status = "HDR" => Partial = reader.buf
  /\ read_status \in {"SIMPLE", "IDX"} => Partial = Opening(header_data) \o reader.buf
  /\ read_status = "DATA" =>
       Partial = mtc_header_write(msg, header_data.stop) \o reader_v.buf
  <1>1. read_status = "INIT_READ" => Partial = <<>>
    BY DEF Partial
  <1>2. read_status = "HDR" => Partial = reader.buf
    BY DEF Partial
  <1>3. read_status \in {"SIMPLE", "IDX"} => Partial = Opening(header_data) \o reader.buf
    BY DEF Partial, Opening, Word2, CountWord
  <1>4. read_status = "DATA" =>
          Partial = mtc_header_write(msg, header_data.stop) \o reader_v.buf
    BY DEF Partial
  <1> QED  BY <1>1, <1>2, <1>3, <1>4

(* The same after a step.                                                  *)
LEMMA NextPartial ==
  /\ read_status' = "INIT_READ" => Partial' = <<>>
  /\ read_status' = "HDR" => Partial' = reader'.buf
  /\ read_status' \in {"SIMPLE", "IDX"} => Partial' = Opening(header_data') \o reader'.buf
  /\ read_status' = "DATA" =>
       Partial' = mtc_header_write(msg', header_data'.stop) \o reader_v'.buf
  <1>1. read_status' = "INIT_READ" => Partial' = <<>>
    BY DEF Partial
  <1>2. read_status' = "HDR" => Partial' = reader'.buf
    BY DEF Partial
  <1>3. read_status' \in {"SIMPLE", "IDX"} => Partial' = Opening(header_data') \o reader'.buf
    BY DEF Partial, Opening, Word2, CountWord
  <1>4. read_status' = "DATA" =>
          Partial' = mtc_header_write(msg', header_data'.stop) \o reader_v'.buf
    BY DEF Partial
  <1> QED  BY <1>1, <1>2, <1>3, <1>4

(* These three units are well formed.                                      *)
LEMMA FrontFacts ==
  ASSUME NEW fields, fields.size \in 0..(StopBit - 1), fields.stop \in BOOLEAN,
         fields.data_1 \in BlockSizes
  PROVE  /\ Opening(fields) \in Seq(PeerUnit) /\ Len(Opening(fields)) = 3
         /\ Opening(fields)[1] = Magic
         /\ Opening(fields)[2] = Word(CountWord(fields.size, fields.stop))
         /\ Opening(fields)[3] = Word(fields.data_1)
  <1>1. fields.data_1 \in 0..(WordLimit - 1)
    BY StopBitAssumption DEF BlockSizes, WordLimit
  <1>2. CountWord(fields.size, fields.stop) \in 0..(WordLimit - 1)
    BY CountWords
  <1>3. /\ Magic \in PeerUnit /\ Word(fields.data_1) \in PeerUnit
        /\ Word(CountWord(fields.size, fields.stop)) \in PeerUnit
    BY <1>1, <1>2, WordUnit
  <1> QED  BY <1>3 DEF Opening

(* One read into a buffer: what was held before it and what the socket had *)
(* are what is held and what the socket has after it.                      *)
LEMMA OneRead ==
  ASSUME TypeOK, NEW from \in Readers, from.len > 0, NEW answer \in Answers(from.len),
         Takes(answer), NEW front \in Seq(PeerUnit), Partial = front \o from.buf
  PROVE  LET res == mtc_reader_read(from, answer)
         IN  /\ res.reader \in Readers
             /\ Len(res.reader.buf) + res.reader.len = Len(from.buf) + from.len
             /\ res.io \in {MTC_IO_OK, MTC_IO_TEMP, MTC_IO_EOF, MTC_IO_SEVERE}
             /\ res.io = MTC_IO_OK <=> res.reader.len = 0
             /\ answer.kind \in {"data", "temp"} =>
                  res.io # MTC_IO_EOF /\ res.io # MTC_IO_SEVERE
             /\ sock' \in [buf : Seq(PeerUnit), eof : BOOLEAN, hup : BOOLEAN]
             /\ sock'.eof = sock.eof
             /\ Rest = (front \o res.reader.buf) \o sock'.buf
  <1> DEFINE res == mtc_reader_read(from, answer)
             u == answer.units
             held == from.buf
             left == sock'.buf
             now == res.reader.buf
  <1>1. held \in Seq(PeerUnit) /\ from.len \in Nat
    BY DEF Readers
  <1>2. /\ u \in Seq(PeerUnit) /\ Len(u) <= from.len
        /\ answer.kind \in {"data", "temp", "eof", "severe"}
        /\ answer.kind # "data" => u = <<>>
        /\ sock' \in [buf : Seq(PeerUnit), eof : BOOLEAN, hup : BOOLEAN]
        /\ sock'.eof = sock.eof
        /\ sock.buf = u \o left
    <2>1. answer \in Answers(from.len) \cup {Severe}
      OBVIOUS
    <2> QED  BY <1>1, <2>1, Took
  <1>3. /\ res.reader \in Readers
        /\ now = held \o u
        /\ Len(res.reader.buf) + res.reader.len = Len(from.buf) + from.len
        /\ res.io \in {MTC_IO_OK, MTC_IO_TEMP, MTC_IO_EOF, MTC_IO_SEVERE}
        /\ res.io = MTC_IO_OK <=> res.reader.len = 0
        /\ res.io = MTC_IO_EOF => answer.kind = "eof"
        /\ res.io = MTC_IO_SEVERE => answer.kind = "severe"
    BY <1>2, ReaderFacts
  <1>8. answer.kind \in {"data", "temp"} =>
          res.io # MTC_IO_EOF /\ res.io # MTC_IO_SEVERE
    <2> HIDE DEF res
    <2> QED  BY <1>3
  <1>4. left \in Seq(PeerUnit)
    BY <1>2
  <1>5. Rest = Partial \o sock.buf
    BY DEF Rest
  <1> DEFINE kept == front \o now
             all == kept \o left
  <1> HIDE DEF u, held, left, now, res, kept, all
  <1>6. /\ front \in Seq(PeerUnit) /\ held \in Seq(PeerUnit)
        /\ u \in Seq(PeerUnit) /\ left \in Seq(PeerUnit)
        /\ now = held \o u /\ kept = front \o now /\ all = kept \o left
    BY <1>1, <1>2, <1>3, <1>4 DEF kept, all
  <1> DEFINE had == front \o held
  <1>7. Rest = all
    <2>1. had \in Seq(PeerUnit)
      BY <1>6, ConcatProperties
    <2>2. Rest = had \o (u \o left)
      BY <1>2, <1>5 DEF held, left, u
    <2>3. kept = front \o (held \o u)
      BY <1>6
    <2>4. \A t \in Seq(PeerUnit), w \in Seq(PeerUnit) : front \o (t \o w) = (front \o t) \o w
      BY Reassociate, SMTT(30)
    <2>5. front \o (held \o u) = had \o u
      BY ONLY <1>6, <2>4 DEF had
    <2> HIDE DEF had
    <2>6. \A t \in Seq(PeerUnit), w \in Seq(PeerUnit) : had \o (t \o w) = (had \o t) \o w
      BY ONLY <2>1, Reassociate
    <2>7. had \o (u \o left) = (had \o u) \o left
      BY ONLY <1>6, <2>6
    <2> QED  BY <1>6, <2>2, <2>3, <2>5, <2>7
  <1> QED  BY <1>2, <1>3, <1>7, <1>8 DEF res, now, left, kept, all

(* What a header reader is in the phases of the header.                    *)
LEMMA HeaderReaderFacts ==
  ASSUME TypeOK, Phases, in_status = "open", read_status \in {"INIT_READ", "HDR"}
  PROVE  /\ HeaderReader \in Readers /\ HeaderReader.len > 0
         /\ Len(HeaderReader.buf) + HeaderReader.len = 3
         /\ Partial = <<>> \o HeaderReader.buf
         /\ mem = "none" /\ msg = <<>>
  <1>1. mtc_header_min_size = 3
    BY DEF mtc_header_min_size, mtc_header_sizeof
  <1>2. CASE read_status = "INIT_READ"
    <2>1. HeaderReader = [buf |-> <<>>, len |-> 3]
      BY <1>1, <1>2 DEF HeaderReader, mtc_reader_init
    <2>2. Partial = <<>>
      BY <1>2, PartialFacts
    <2>3. mem = "none" /\ msg = <<>>
      BY <1>2 DEF Phases, Alive
    <2> QED  BY <2>1, <2>2, <2>3 DEF Readers
  <1>3. CASE read_status = "HDR"
    <2>1. HeaderReader = reader /\ reader \in Readers
      BY <1>3 DEF HeaderReader, TypeOK, Readers
    <2>2. Partial = reader.buf
      BY <1>3, PartialFacts
    <2>3. InHeader
      BY <1>3 DEF Phases, Alive
    <2>4. reader.buf = <<>> \o reader.buf
      <3>1. reader.buf \in Seq(PeerUnit)
        BY <2>1 DEF Readers
      <3> QED  BY <3>1, ConcatEmptySeq
    <2> QED  BY <1>1, <2>1, <2>2, <2>3, <2>4 DEF InHeader
  <1> QED  BY <1>2, <1>3

(* The step of the phases INIT_READ and HDR.                               *)
LEMMA ReadHeaderStep ==
  ASSUME TypeOK, Phases, in_status = "open", ReadHeader,
         supplied' = supplied, fault' \in BOOLEAN
  PROVE  ReadStep
  <1> DEFINE from == HeaderReader
  <1>1. read_status \in {"INIT_READ", "HDR"}
    BY DEF ReadHeader
  <1>2. /\ from \in Readers /\ from.len > 0 /\ Len(from.buf) + from.len = 3
        /\ Partial = <<>> \o from.buf /\ mem = "none" /\ msg = <<>>
    BY <1>1, HeaderReaderFacts
  <1> HIDE DEF from
  <1> DEFINE Outcome(answer, res, h) ==
        \/ /\ BailOut(res.io)
           /\ reader' = res.reader
           /\ read_status' = "HDR"
           /\ UNCHANGED reader_v
        \/ /\ res.io = MTC_IO_OK
           /\ header_data' = IF h.ok THEN HeaderData(h) ELSE header_data
           /\ \/ HeaderRejected(h) /\ reader' = res.reader
              \/ SimpleBegins(h) /\ UNCHANGED mem
              \/ ComplexBegins(h)
              \/ /\ AllocMayFail /\ h.ok /\ h.data_1 # 0
                 /\ Fail("HDR") /\ reader' = res.reader
  <1>3. \E answer \in Answers(from.len) :
          /\ Takes(answer)
          /\ Outcome(answer, mtc_reader_read(from, answer),
                     mtc_header_read(mtc_reader_read(from, answer).reader.buf))
    BY DEF ReadHeader, from
  <1>4. PICK answer \in Answers(from.len) :
          /\ Takes(answer)
          /\ Outcome(answer, mtc_reader_read(from, answer),
                     mtc_header_read(mtc_reader_read(from, answer).reader.buf))
    BY <1>3
  <1> DEFINE res == mtc_reader_read(from, answer)
             buf == res.reader.buf
             h == mtc_header_read(buf)
             front == <<>>
  <1>5. Outcome(answer, res, h)
    BY <1>4
  <1>6. /\ res.reader \in Readers /\ Len(buf) + res.reader.len = 3
        /\ res.io \in {MTC_IO_OK, MTC_IO_TEMP, MTC_IO_EOF, MTC_IO_SEVERE}
        /\ res.io = MTC_IO_OK <=> res.reader.len = 0
        /\ sock' \in [buf : Seq(PeerUnit), eof : BOOLEAN, hup : BOOLEAN]
        /\ sock'.eof = sock.eof
        /\ Rest = (front \o buf) \o sock'.buf
    <2>1. front \in Seq(PeerUnit) /\ Partial = front \o from.buf
      BY <1>2
    <2> HIDE DEF front
    <2> QED  BY <1>2, <1>4, <2>1, OneRead
  <1>7. buf \in Seq(PeerUnit) /\ Rest = buf \o sock'.buf /\ res.reader.len \in Nat
    <2>1. buf \in Seq(PeerUnit) /\ res.reader.len \in Nat
      BY <1>6 DEF Readers
    <2>2. front \o buf = buf
      BY <2>1, ConcatEmptySeq
    <2> QED  BY <1>6, <2>1, <2>2
  <1> HIDE DEF res, h
  <1>8. CASE BailOut(res.io) /\ reader' = res.reader /\ read_status' = "HDR" /\ UNCHANGED reader_v
    <2>1. /\ res.io # MTC_IO_OK /\ in_status' \in {"open", "broken"}
          /\ header_data' = header_data /\ mem' = mem /\ msg' = msg /\ got' = got
      BY <1>8 DEF BailOut
    <2>2. TypeOK'
      BY <1>2, <1>6, <1>8, <2>1 DEF TypeOK, Readers
    <2>3. Partial' = buf
      BY <1>8, NextPartial
    <2>4. Rest' = Rest
      BY <1>7, <2>3 DEF Rest
    <2>5. InHeader'
      <3>1. reader'.len > 0
        BY <1>6, <1>7, <1>8, <2>1
      <3> QED  BY <1>2, <1>6, <1>8, <2>1, <3>1
               DEF InHeader, mtc_header_min_size, mtc_header_sizeof
    <2>6. Phases'
      BY <1>8, <2>5 DEF Phases
    <2> QED  BY <1>6, <2>1, <2>2, <2>4, <2>6 DEF ReadStep, Kept, GivenUp
  <1>9. ASSUME res.io = MTC_IO_OK
        PROVE  Len(buf) = 3 /\ HeaderData(h) \in HeaderFields
    <2>1. Len(buf) = 3
      <3>1. Len(buf) + res.reader.len = 3 /\ res.reader.len = 0
        BY <1>6, <1>9
      <3>2. Len(buf) \in Nat
        BY <1>7
      <3> QED  BY <3>1, <3>2
    <2> QED  BY <1>7, <2>1, HeaderTypes DEF h
  <1>10. CASE /\ res.io = MTC_IO_OK
              /\ header_data' = IF h.ok THEN HeaderData(h) ELSE header_data
              /\ Fail("HDR") /\ reader' = res.reader
    <2>1. header_data' \in [size : Nat, data_1 : Nat, stop : BOOLEAN]
      BY <1>9, <1>10 DEF TypeOK, HeaderFields
    <2>2. /\ in_status' = "broken" /\ read_status' = "HDR" /\ mem' = mem /\ msg' = msg
          /\ reader_v' = reader_v /\ got' = got
      BY <1>10 DEF Fail
    <2>3. TypeOK'
      BY <1>2, <1>6, <1>10, <2>1, <2>2 DEF TypeOK, Readers
    <2> QED  BY <1>6, <2>2, <2>3 DEF ReadStep, GivenUp
  <1>11. ASSUME res.io = MTC_IO_OK, h.ok, h.data_1 # 0,
                header_data' = HeaderData(h)
         PROVE  /\ header_data' \in [size : Nat, data_1 : Nat, stop : BOOLEAN]
                /\ header_data'.size = h.size /\ header_data'.data_1 = h.data_1
                /\ h.size \in 1..(StopBit - 1) /\ h.data_1 \in BlockSizes
                /\ h.data_1 \in Nat \ {0} /\ h.size \in Nat
                /\ Opening(header_data') = buf
    <2>1. /\ h.size \in 1..(StopBit - 1) /\ h.data_1 \in BlockSizes
          /\ h.stop \in BOOLEAN
          /\ buf = <<Magic, Word(CountWord(h.size, h.stop)), Word(h.data_1)>>
      BY <1>7, <1>9, <1>11, HeaderTaken DEF h
    <2>2. header_data' = [size |-> h.size, data_1 |-> h.data_1, stop |-> h.stop]
      BY <1>11 DEF HeaderData
    <2>3. h.data_1 \in Nat \ {0} /\ h.size \in Nat
      BY <2>1, StopBitAssumption DEF BlockSizes, WordLimit
    <2>4. header_data'.size = h.size /\ header_data'.data_1 = h.data_1
          /\ header_data'.stop = h.stop
      BY <2>2
    <2> QED  BY <2>1, <2>2, <2>3, <2>4 DEF Opening
  <1> DEFINE held == Opening(header_data') \o reader'.buf
  <1>12. ASSUME res.io = MTC_IO_OK, h.ok, h.data_1 # 0, header_data' = HeaderData(h),
                read_status' \in {"SIMPLE", "IDX"}, reader'.buf = <<>>
         PROVE  Rest' = Rest
    <2>1. Partial' = Opening(header_data') \o reader'.buf
      BY <1>12, NextPartial
    <2>2. Partial' = buf
      BY <1>7, <1>11, <1>12, <2>1, ConcatEmptySeq
    <2> QED  BY <1>7, <2>2 DEF Rest
  <1>13. CASE /\ res.io = MTC_IO_OK
              /\ header_data' = IF h.ok THEN HeaderData(h) ELSE header_data
              /\ SimpleBegins(h) /\ UNCHANGED mem
    <2>1. /\ h.ok /\ h.data_1 # 0 /\ h.size = 1 /\ msg' = <<h.data_1>>
          /\ reader' = [buf |-> <<>>, len |-> h.data_1] /\ read_status' = "SIMPLE"
          /\ reader_v' = reader_v /\ mem' = mem /\ in_status' = in_status /\ got' = got
          /\ header_data' = HeaderData(h)
      BY <1>13 DEF SimpleBegins, mtc_reader_init
    <2>2. TypeOK'
      <3>1. msg' \in Seq(Nat \ {0}) /\ reader' \in Readers
        BY <1>11, <1>13, <2>1 DEF Readers
      <3> QED  BY <1>6, <1>11, <1>13, <2>1, <3>1 DEF TypeOK, Readers
    <2>3. Rest' = Rest
      BY <1>12, <1>13, <2>1
    <2>4. InSimple'
      BY <1>2, <1>11, <1>13, <2>1 DEF InSimple
    <2>5. Phases'
      BY <2>1, <2>4 DEF Phases
    <2> QED  BY <1>6, <2>1, <2>2, <2>3, <2>5 DEF ReadStep, Kept
  <1>14. CASE /\ res.io = MTC_IO_OK
              /\ header_data' = IF h.ok THEN HeaderData(h) ELSE header_data
              /\ ComplexBegins(h)
    <2>1. /\ h.ok /\ h.data_1 # 0 /\ h.size # 1 /\ mem' = "index"
          /\ reader' = [buf |-> <<>>, len |-> h.size - 1] /\ read_status' = "IDX"
          /\ reader_v' = reader_v /\ msg' = msg /\ in_status' = in_status /\ got' = got
          /\ header_data' = HeaderData(h)
      BY <1>14 DEF ComplexBegins, mtc_reader_init
    <2>2. h.size \in 2..(StopBit - 1) /\ h.size - 1 \in Nat /\ h.size - 1 > 0
      BY <1>11, <1>14, <2>1, StopBitAssumption
    <2>3. TypeOK'
      <3>1. reader' \in Readers
        BY <2>1, <2>2 DEF Readers
      <3> QED  BY <1>6, <1>11, <1>14, <2>1, <3>1 DEF TypeOK, Readers
    <2>4. Rest' = Rest
      BY <1>12, <1>14, <2>1
    <2>5. InIndex'
      BY <1>2, <1>11, <1>14, <2>1, <2>2 DEF InIndex
    <2>6. Phases'
      BY <2>1, <2>5 DEF Phases
    <2> QED  BY <1>6, <2>1, <2>3, <2>4, <2>6 DEF ReadStep, Kept
  <1> HIDE DEF buf, front, held
  <1> QED  BY <1>5, <1>8, <1>10, <1>13, <1>14 DEF HeaderRejected

(* The beginning of a header and the index that follows it are the header  *)
(* of the message whose sizes they hold.                                   *)
LEMMA WholeHeader ==
  ASSUME NEW fields, fields.size \in 1..(StopBit - 1), fields.stop \in BOOLEAN,
         fields.data_1 \in BlockSizes,
         NEW idx \in Seq(BlockSizes), Len(idx) = fields.size - 1,
         NEW words \in Seq(PeerUnit), Len(words) = Len(idx),
         \A i \in 1..Len(idx) : words[i] = Word(idx[i]),
         NEW sizes, sizes = <<fields.data_1>> \o idx
  PROVE  /\ sizes \in Seq(BlockSizes) /\ Len(sizes) = fields.size
         /\ mtc_header_write(sizes, fields.stop) = Opening(fields) \o words
  <1> DEFINE w == mtc_header_write(sizes, fields.stop)
             n == fields.size
             d == fields.data_1
             first == <<d>>
             start == Opening(fields)
             both == start \o words
  <1>1. n \in Nat /\ n \in 0..(StopBit - 1) /\ n < StopBit /\ n >= 1 /\ Len(idx) = n - 1
    BY StopBitAssumption
  <1>2. first \in Seq(BlockSizes) /\ Len(first) = 1 /\ first[1] = d
    OBVIOUS
  <1>3. /\ start \in Seq(PeerUnit) /\ Len(start) = 3 /\ start[1] = Magic
        /\ start[2] = Word(CountWord(n, fields.stop)) /\ start[3] = Word(d)
    BY <1>1, FrontFacts
  <1>4. sizes = first \o idx /\ both = start \o words
    OBVIOUS
  <1> HIDE DEF w, n, d, first, start, both
  <1>5. /\ sizes \in Seq(BlockSizes) /\ Len(sizes) = 1 + Len(idx) /\ sizes[1] = d
        /\ \A i \in 1..Len(idx) : sizes[1 + i] = idx[i]
    <2>1. /\ sizes \in Seq(BlockSizes) /\ Len(sizes) = Len(first) + Len(idx)
          /\ \A i \in 1..Len(first) : sizes[i] = first[i]
          /\ \A i \in 1..Len(idx) : sizes[Len(first) + i] = idx[i]
      BY <1>2, <1>4, Joins
    <2>2. sizes[1] = first[1]
      <3>1. 1 \in 1..Len(first)
        BY <1>2
      <3> QED  BY <2>1, <3>1
    <2> QED  BY <1>2, <2>1, <2>2
  <1>6. /\ both \in Seq(PeerUnit) /\ Len(both) = 3 + Len(words)
        /\ \A i \in 1..3 : both[i] = start[i]
        /\ \A i \in 1..Len(words) : both[3 + i] = words[i]
    <2>1. /\ both \in Seq(PeerUnit) /\ Len(both) = Len(start) + Len(words)
          /\ \A i \in 1..Len(start) : both[i] = start[i]
          /\ \A i \in 1..Len(words) : both[Len(start) + i] = words[i]
      <3>1. start \in Seq(PeerUnit) /\ words \in Seq(PeerUnit) /\ both = start \o words
        BY <1>3, <1>4
      <3> QED  BY ONLY <3>1, Joins
    <2> QED  BY <1>3, <2>1
  <1>7. sizes \in Seq(0..(WordLimit - 1))
    <2>1. \A i \in 1..Len(sizes) : sizes[i] \in 0..(WordLimit - 1)
      <3> TAKE i \in 1..Len(sizes)
      <3>1. sizes[i] \in BlockSizes
        BY <1>5, ElementOfSeq
      <3> QED  BY <3>1, StopBitAssumption DEF BlockSizes, WordLimit
    <2> QED  BY <1>5, <2>1, Narrow
  <1>8. Len(sizes) = n
    BY <1>1, <1>5
  <1>9. /\ w \in Seq(PeerUnit) /\ Len(w) = n + 2
        /\ w[1] = Magic /\ w[2] = Word(CountWord(n, fields.stop))
        /\ \A b \in 1..n : w[b + 2] = Word(sizes[b])
    <2>1. Len(sizes) < StopBit
      BY <1>1, <1>8
    <2>2. /\ w \in Seq(PeerUnit) /\ Len(w) = Len(sizes) + 2
          /\ w[1] = Magic /\ w[2] = Word(CountWord(Len(sizes), fields.stop))
          /\ \A b \in 1..Len(sizes) : w[b + 2] = Word(sizes[b])
      BY <1>7, <2>1, WrittenHeader DEF w
    <2> QED  BY <1>8, <2>2
  <1>10. \A i \in 1..Len(w) : w[i] = both[i]
    <2> TAKE i \in 1..Len(w)
    <2>1. CASE i \in {1, 2}
      <3>1. i \in 1..3
        BY <2>1
      <3> QED  BY <1>3, <1>6, <1>9, <2>1, <3>1
    <2>2. CASE i = 3
      <3>1. 1 \in 1..n /\ 1 + 2 = 3 /\ 3 \in 1..3
        BY <1>1
      <3>2. w[3] = Word(sizes[1]) /\ both[3] = start[3]
        BY <1>6, <1>9, <3>1
      <3> QED  BY <1>3, <1>5, <2>2, <3>2
    <2>3. CASE i > 3
      <3> DEFINE j == i - 3
      <3>1. j \in 1..Len(idx) /\ 1 + j \in 1..n /\ (1 + j) + 2 = i /\ 3 + j = i
        BY <1>1, <1>9, <2>3, SMTT(30)
      <3> HIDE DEF j
      <3>2. w[i] = Word(sizes[1 + j]) /\ both[i] = words[j]
        BY <1>6, <1>9, <3>1
      <3> QED  BY <1>5, <3>1, <3>2
    <2> QED  BY <1>9, <2>1, <2>2, <2>3
  <1>11. w = both
    <2>1. Len(w) = Len(both)
      BY <1>1, <1>6, <1>9
    <2> QED  BY <1>6, <1>9, <1>10, <2>1, SeqEqual
  <1> QED  BY <1>5, <1>8, <1>11 DEF w, n, start, both

(* A message of a single block has no index.                               *)
LEMMA SimpleHeader ==
  ASSUME NEW fields, fields.size = 1, fields.stop \in BOOLEAN,
         fields.data_1 \in BlockSizes, NEW sizes, sizes = <<fields.data_1>>
  PROVE  /\ sizes \in Seq(BlockSizes) /\ Len(sizes) = 1
         /\ Total(sizes) = fields.data_1
         /\ mtc_header_write(sizes, fields.stop) = Opening(fields)
  <1> DEFINE none == <<>>
  <1>1. none \in Seq(BlockSizes) /\ none \in Seq(PeerUnit) /\ Len(none) = 0
    OBVIOUS
  <1>2. fields.size \in 1..(StopBit - 1) /\ fields.size \in 0..(StopBit - 1)
    BY StopBitAssumption
  <1>3. sizes \in Seq(BlockSizes) /\ Len(sizes) = 1
    OBVIOUS
  <1>4. sizes = <<fields.data_1>> \o none
    BY <1>3, ConcatEmptySeq
  <1>5. Opening(fields) \o none = Opening(fields)
    BY <1>2, FrontFacts, ConcatEmptySeq
  <1> HIDE DEF none
  <1>6. mtc_header_write(sizes, fields.stop) = Opening(fields) \o none
    <2>1. Len(none) = fields.size - 1 /\ \A i \in 1..Len(none) : none[i] = Word(none[i])
      BY <1>1
    <2>2. Len(none) = Len(none)
      OBVIOUS
    <2> QED  BY <1>1, <1>2, <1>4, <2>1, <2>2, WholeHeader
  <1>7. Total(sizes) = fields.data_1
    BY SmallTotals, StopBitAssumption DEF BlockSizes, WordLimit
  <1> QED  BY <1>3, <1>5, <1>6, <1>7

(* The step of the phase SIMPLE.                                           *)
LEMMA ReadSimpleStep ==
  ASSUME TypeOK, Phases, in_status = "open", ReadSimple,
         supplied' = supplied, fault' \in BOOLEAN
  PROVE  ReadStep
  <1>1. read_status = "SIMPLE" /\ reader_v' = reader_v /\ reader \in Readers
    BY DEF ReadSimple, TypeOK, Readers
  <1>2. InSimple
    BY <1>1 DEF Phases, Alive
  <1> DEFINE d == header_data.data_1
             start == Opening(header_data)
  <1>3. /\ header_data.size = 1 /\ d \in BlockSizes /\ header_data.stop \in BOOLEAN
        /\ msg = <<d>> /\ mem = "none" /\ reader.len > 0 /\ Len(reader.buf) + reader.len = d
    BY <1>2 DEF InSimple, TypeOK
  <1>4. start \in Seq(PeerUnit) /\ Partial = start \o reader.buf
    <2>1. header_data.size \in 0..(StopBit - 1)
      BY <1>3, StopBitAssumption
    <2> QED  BY <1>1, <1>3, <2>1, FrontFacts, PartialFacts
  <1>5. PICK answer \in Answers(reader.len) :
          LET res == mtc_reader_read(reader, answer)
          IN  /\ Takes(answer) /\ reader' = res.reader
              /\ \/ BailOut(res.io) /\ UNCHANGED read_status
                 \/ res.io = MTC_IO_OK /\ ReturnMsg(res.reader.buf) /\ UNCHANGED mem
    BY DEF ReadSimple
  <1> DEFINE res == mtc_reader_read(reader, answer)
             buf == res.reader.buf
  <1>6. /\ res.reader \in Readers /\ Len(buf) + res.reader.len = d
        /\ res.io \in {MTC_IO_OK, MTC_IO_TEMP, MTC_IO_EOF, MTC_IO_SEVERE}
        /\ res.io = MTC_IO_OK <=> res.reader.len = 0
        /\ sock' \in [buf : Seq(PeerUnit), eof : BOOLEAN, hup : BOOLEAN]
        /\ sock'.eof = sock.eof
        /\ Rest = (start \o buf) \o sock'.buf
    <2> HIDE DEF start
    <2> QED  BY <1>1, <1>3, <1>4, <1>5, OneRead
  <1>7. buf \in Seq(PeerUnit) /\ res.reader.len \in Nat
    BY <1>6 DEF Readers
  <1>8. /\ reader' = res.reader
        /\ \/ BailOut(res.io) /\ UNCHANGED read_status
           \/ res.io = MTC_IO_OK /\ ReturnMsg(buf) /\ UNCHANGED mem
    BY <1>5
  <1> HIDE DEF res
  <1>9. CASE BailOut(res.io) /\ UNCHANGED read_status
    <2>1. /\ res.io # MTC_IO_OK /\ in_status' \in {"open", "broken"}
          /\ header_data' = header_data /\ mem' = mem /\ msg' = msg /\ got' = got
          /\ read_status' = "SIMPLE"
      BY <1>1, <1>9 DEF BailOut
    <2>2. TypeOK'
      BY <1>1, <1>6, <1>8, <2>1 DEF TypeOK, Readers
    <2>3. Partial' = start \o buf
      BY <1>8, <2>1, NextPartial
    <2>4. Rest' = Rest
      BY <1>6, <2>3 DEF Rest
    <2>5. InSimple'
      <3>1. reader'.len > 0
        BY <1>6, <1>7, <1>8, <2>1
      <3> QED  BY <1>3, <1>6, <1>8, <2>1, <3>1 DEF InSimple
    <2>6. Phases'
      BY <2>1, <2>5 DEF Phases
    <2> QED  BY <1>6, <2>1, <2>2, <2>4, <2>6 DEF ReadStep, Kept, GivenUp
  <1>10. CASE res.io = MTC_IO_OK /\ ReturnMsg(buf) /\ UNCHANGED mem
    <2> DEFINE sizes == msg
               stop == header_data.stop
    <2>1. /\ got' = Append(got, [sizes |-> sizes, data |-> buf, stop |-> stop])
          /\ in_status' = (IF stop THEN "stopped" ELSE "open")
          /\ in_status' \in {"open", "stopped"} /\ read_status' = "INIT_READ"
          /\ msg' = <<>> /\ header_data' = header_data /\ mem' = mem
      BY <1>10 DEF ReturnMsg, ReturnMsgThen
    <2>2. /\ sizes \in Seq(BlockSizes) /\ Len(sizes) = 1 /\ Total(sizes) = d
          /\ mtc_header_write(sizes, stop) = start
      BY <1>3, SimpleHeader
    <2>3. TypeOK'
      BY <1>1, <1>6, <1>8, <2>1 DEF TypeOK, Readers
    <2>4. Len(buf) = Total(sizes)
      <3>1. res.reader.len = 0 /\ Len(buf) \in Nat
        BY <1>6, <1>7, <1>10
      <3> QED  BY <1>6, <2>2, <3>1
    <2>5. Len(sizes) \in 1..(StopBit - 1)
      BY <2>2, StopBitAssumption
    <2>6. Rest = (mtc_header_write(sizes, stop) \o buf) \o sock'.buf
      BY <1>6, <2>2
    <2> HIDE DEF sizes, stop, buf
    <2>7. Done
      BY <1>3, <1>7, <2>1, <2>2, <2>4, <2>5, <2>6 DEF Done, stop
    <2> QED  BY <1>6, <2>3, <2>7 DEF ReadStep
  <1> QED  BY <1>8, <1>9, <1>10

(* The step of the phase IDX.                                              *)
LEMMA ReadIndexStep ==
  ASSUME TypeOK, Phases, in_status = "open", ReadIndex,
         supplied' = supplied, fault' \in BOOLEAN
  PROVE  ReadStep
  <1>1. read_status = "IDX" /\ reader \in Readers
    BY DEF ReadIndex, TypeOK, Readers
  <1>2. InIndex
    BY <1>1 DEF Phases, Alive
  <1> DEFINE d == header_data.data_1
             size == header_data.size
             stop == header_data.stop
             start == Opening(header_data)
  <1>3. /\ size \in 2..(StopBit - 1) /\ d \in BlockSizes /\ stop \in BOOLEAN
        /\ msg = <<>> /\ mem = "index" /\ reader.len > 0
        /\ Len(reader.buf) + reader.len = size - 1
        /\ size \in 1..(StopBit - 1) /\ size \in 0..(StopBit - 1) /\ size \in Nat
    BY <1>2, StopBitAssumption DEF InIndex, TypeOK
  <1>4. start \in Seq(PeerUnit) /\ Partial = start \o reader.buf
    BY <1>1, <1>3, FrontFacts, PartialFacts
  <1> DEFINE Values(buf) == [i \in 1..Len(buf) |-> ValueOf(buf[i])]
             Outcome(res, idx) ==
               \/ BailOut(res.io) /\ UNCHANGED <<read_status, reader_v>>
               \/ /\ res.io = MTC_IO_OK
                  /\ UNCHANGED header_data
                  /\ \/ IndexAccepted(idx)
                     \/ /\ AllocMayFail \/ \E i \in 1..Len(idx) : idx[i] = 0
                        /\ Fail("IDX")
  <1>5. PICK answer \in Answers(reader.len) :
          LET res == mtc_reader_read(reader, answer)
          IN  /\ Takes(answer) /\ reader' = res.reader
              /\ Outcome(res, Values(res.reader.buf))
    BY DEF ReadIndex
  <1> DEFINE res == mtc_reader_read(reader, answer)
             buf == res.reader.buf
             idx == Values(buf)
  <1>6. /\ res.reader \in Readers /\ Len(buf) + res.reader.len = size - 1
        /\ res.io \in {MTC_IO_OK, MTC_IO_TEMP, MTC_IO_EOF, MTC_IO_SEVERE}
        /\ res.io = MTC_IO_OK <=> res.reader.len = 0
        /\ sock' \in [buf : Seq(PeerUnit), eof : BOOLEAN, hup : BOOLEAN]
        /\ sock'.eof = sock.eof
        /\ Rest = (start \o buf) \o sock'.buf
    <2> HIDE DEF start
    <2> QED  BY <1>1, <1>3, <1>4, <1>5, OneRead
  <1>7. buf \in Seq(PeerUnit) /\ res.reader.len \in Nat
    BY <1>6 DEF Readers
  <1>8. reader' = res.reader /\ Outcome(res, idx)
    BY <1>5
  <1> HIDE DEF res
  <1>9. CASE BailOut(res.io) /\ UNCHANGED <<read_status, reader_v>>
    <2>1. /\ res.io # MTC_IO_OK /\ in_status' \in {"open", "broken"}
          /\ header_data' = header_data /\ mem' = mem /\ msg' = msg /\ got' = got
          /\ read_status' = "IDX" /\ reader_v' = reader_v
      BY <1>1, <1>9 DEF BailOut
    <2>2. TypeOK'
      BY <1>1, <1>6, <1>8, <2>1 DEF TypeOK, Readers
    <2>3. Partial' = start \o buf
      BY <1>8, <2>1, NextPartial
    <2>4. Rest' = Rest
      BY <1>6, <2>3 DEF Rest
    <2>5. InIndex'
      <3>1. reader'.len > 0
        BY <1>6, <1>7, <1>8, <2>1
      <3> QED  BY <1>3, <1>6, <1>8, <2>1, <3>1 DEF InIndex
    <2>6. Phases'
      BY <2>1, <2>5 DEF Phases
    <2> QED  BY <1>6, <2>1, <2>2, <2>4, <2>6 DEF ReadStep, Kept, GivenUp
  <1>10. CASE UNCHANGED header_data /\ Fail("IDX")
    <2>1. /\ in_status' = "broken" /\ header_data' = header_data /\ mem' = mem
          /\ msg' = msg /\ got' = got /\ read_status' = "IDX" /\ reader_v' = reader_v
      BY <1>10 DEF Fail
    <2>2. TypeOK'
      BY <1>6, <1>8, <2>1 DEF TypeOK, Readers
    <2> QED  BY <1>6, <2>1, <2>2 DEF ReadStep, GivenUp
  <1>11. CASE res.io = MTC_IO_OK /\ UNCHANGED header_data /\ IndexAccepted(idx)
    <2> DEFINE all == msg'
    <2>1. /\ \A i \in 1..Len(idx) : idx[i] # 0
          /\ all = <<d>> \o idx /\ mem' = "iovec" /\ read_status' = "DATA"
          /\ reader_v' = [buf |-> <<>>, lens |-> all]
          /\ in_status' = in_status /\ got' = got /\ header_data' = header_data
      BY <1>11 DEF IndexAccepted, mtc_reader_v_init
    <2>2. Len(buf) = size - 1 /\ Len(buf) \in Nat
      <3>1. res.reader.len = 0 /\ Len(buf) \in Nat
        BY <1>6, <1>7, <1>11
      <3> QED  BY <1>6, <3>1
    <2>3. /\ idx = [i \in 1..Len(buf) |-> idx[i]]
          /\ \A i \in 1..Len(buf) : idx[i] = ValueOf(buf[i])
      OBVIOUS
    <2>4. Len(idx) = Len(buf)
      BY <2>2
    <2>5. \A i \in 1..Len(buf) : buf[i] = Word(idx[i]) /\ idx[i] \in BlockSizes
      <3> TAKE i \in 1..Len(buf)
      <3>1. buf[i] \in PeerUnit
        BY <1>7, ElementOfSeq
      <3>2. idx[i] = ValueOf(buf[i]) /\ idx[i] # 0
        BY <2>1, <2>3, <2>4
      <3> HIDE DEF idx
      <3>3. idx[i] \in 0..(WordLimit - 1) /\ buf[i] = Word(idx[i])
        BY <3>1, <3>2, UnitValue
      <3> QED  BY <3>2, <3>3 DEF BlockSizes
    <2> HIDE DEF idx, all
    <2>6. idx \in Seq(BlockSizes)
      BY <2>2, <2>3, <2>5, FunctionIsSeq
    <2>7. /\ all \in Seq(BlockSizes) /\ Len(all) = size
          /\ mtc_header_write(all, stop) = start \o buf
      <3>1. Len(idx) = size - 1 /\ Len(buf) = Len(idx)
            /\ \A i \in 1..Len(idx) : buf[i] = Word(idx[i])
        BY <2>2, <2>4, <2>5
      <3> HIDE DEF buf
      <3> QED  BY <1>3, <1>7, <2>1, <2>6, <3>1, WholeHeader
    <2>8. all \in Seq(Nat \ {0}) /\ all # <<>>
      <3>1. \A i \in 1..Len(all) : all[i] \in Nat \ {0}
        <4> TAKE i \in 1..Len(all)
        <4>1. all[i] \in BlockSizes
          BY <2>7, ElementOfSeq
        <4> QED  BY <4>1, StopBitAssumption DEF BlockSizes, WordLimit
      <3>2. all \in Seq(Nat \ {0})
        BY <2>7, <3>1, Narrow
      <3>3. all = <<>> => Len(all) = 0
        OBVIOUS
      <3> HIDE DEF size
      <3> QED  BY <1>3, <2>7, <3>2, <3>3
    <2>9. all \in Seq(Nat)
      BY <2>8
    <2>10. TypeOK'
      BY <1>6, <1>8, <2>1, <2>8, <2>9 DEF TypeOK, Readers, all
    <2>11. Rest' = Rest
      <3>1. Partial' = mtc_header_write(all, stop) \o <<>>
        BY <2>1, NextPartial DEF all
      <3>2. start \o buf \in Seq(PeerUnit)
        BY <1>4, <1>7, ConcatProperties
      <3>3. Partial' = start \o buf
        BY <2>7, <3>1, <3>2, ConcatEmptySeq
      <3> QED  BY <1>6, <3>3 DEF Rest
    <2>12. InData'
      <3>1. Total(all) \in Nat
        <4>1. Len(all) \in 0..Len(all)
          BY <2>9
        <4> QED  BY <2>9, <4>1, ThroughFacts DEF Total
      <3>2. reader_v'.lens = all /\ reader_v'.buf = <<>> /\ Len(<<>>) + Total(all) = Total(all)
        BY <2>1, <3>1
      <3> QED  BY <1>3, <2>1, <2>7, <2>8, <3>2 DEF InData, all
    <2>13. Phases'
      BY <2>1, <2>12 DEF Phases
    <2> QED  BY <1>6, <2>1, <2>10, <2>11, <2>13 DEF ReadStep, Kept
  <1> HIDE DEF idx, buf
  <1> QED  BY <1>8, <1>9, <1>10, <1>11

(* One readv into a vector.                                                *)
LEMMA OneReadV ==
  ASSUME TypeOK, NEW from \in ReadersV, from.lens \in Seq(Nat \ {0}), from.lens # <<>>,
         NEW answer \in AnswersV(from.lens),
         Takes(answer), NEW front \in Seq(PeerUnit), Partial = front \o from.buf
  PROVE  LET res == mtc_reader_v_read(from, answer)
         IN  /\ res.reader \in ReadersV /\ res.reader.lens \in Seq(Nat \ {0})
             /\ Len(res.reader.lens) <= Len(from.lens)
             /\ IovMax > 0 /\ Len(from.lens) > IovMax =>
                  res.io # MTC_IO_OK /\ res.reader.lens = from.lens
             /\ Len(res.reader.buf) + Total(res.reader.lens)
                  = Len(from.buf) + Total(from.lens)
             /\ res.io \in {MTC_IO_OK, MTC_IO_TEMP, MTC_IO_EOF, MTC_IO_SEVERE}
             /\ res.io = MTC_IO_OK <=> res.reader.lens = <<>>
             /\ answer.kind \in {"data", "temp"} =>
                  res.io # MTC_IO_EOF /\ res.io # MTC_IO_SEVERE
             /\ sock' \in [buf : Seq(PeerUnit), eof : BOOLEAN, hup : BOOLEAN]
             /\ sock'.eof = sock.eof
             /\ Rest = (front \o res.reader.buf) \o sock'.buf
  <1> DEFINE res == mtc_reader_v_read(from, answer)
             u == answer.units
             held == from.buf
             left == sock'.buf
             now == res.reader.buf
             room == Total(from.lens)
  <1>1. held \in Seq(PeerUnit) /\ from.lens \in Seq(Nat) /\ room \in Nat
    <2>1. held \in Seq(PeerUnit) /\ from.lens \in Seq(Nat)
      BY DEF ReadersV
    <2>2. Len(from.lens) \in 0..Len(from.lens)
      BY <2>1
    <2> QED  BY <2>1, <2>2, ThroughFacts DEF Total
  <1>2. /\ u \in Seq(PeerUnit) /\ Len(u) <= room
        /\ answer.kind \in {"data", "temp", "eof", "severe"}
        /\ answer.kind # "data" => u = <<>>
        /\ sock' \in [buf : Seq(PeerUnit), eof : BOOLEAN, hup : BOOLEAN]
        /\ sock'.eof = sock.eof
        /\ sock.buf = u \o left
    <2>1. answer \in Answers(room) \cup {Severe}
      BY DEF AnswersV, Total
    <2> HIDE DEF room
    <2> QED  BY <1>1, <2>1, Took
  <1>3. /\ res.reader \in ReadersV
        /\ now = held \o u
        /\ res.reader.lens \in Seq(Nat \ {0})
        /\ Len(res.reader.lens) <= Len(from.lens)
        /\ answer.kind # "data" => res.reader.lens = from.lens
        /\ Len(res.reader.buf) + Total(res.reader.lens) = Len(from.buf) + Total(from.lens)
        /\ res.io \in {MTC_IO_OK, MTC_IO_TEMP, MTC_IO_EOF, MTC_IO_SEVERE}
        /\ res.io = MTC_IO_OK <=> res.reader.lens = <<>>
        /\ res.io = MTC_IO_OK => answer.kind = "data"
        /\ res.io = MTC_IO_EOF => answer.kind = "eof"
        /\ res.io = MTC_IO_SEVERE => answer.kind = "severe"
    BY <1>2, ReaderVFacts
  <1>4. left \in Seq(PeerUnit)
    BY <1>2
  <1>5. Rest = Partial \o sock.buf
    BY DEF Rest
  <1>8. IovMax > 0 /\ Len(from.lens) > IovMax =>
          res.io # MTC_IO_OK /\ res.reader.lens = from.lens
    <2>1. IovMax > 0 /\ Len(from.lens) > IovMax => answer.kind = "severe"
      BY DEF AnswersV, Severe
    <2> HIDE DEF res
    <2> QED  BY <1>3, <2>1
  <1>9. answer.kind \in {"data", "temp"} =>
          res.io # MTC_IO_EOF /\ res.io # MTC_IO_SEVERE
    <2> HIDE DEF res
    <2> QED  BY <1>3
  <1> DEFINE kept == front \o now
             all == kept \o left
  <1> HIDE DEF u, held, left, now, res, kept, all
  <1>6. /\ front \in Seq(PeerUnit) /\ held \in Seq(PeerUnit)
        /\ u \in Seq(PeerUnit) /\ left \in Seq(PeerUnit)
        /\ now = held \o u /\ kept = front \o now /\ all = kept \o left
    BY <1>1, <1>2, <1>3, <1>4 DEF kept, all
  <1> DEFINE had == front \o held
  <1>7. Rest = all
    <2>1. had \in Seq(PeerUnit)
      BY <1>6, ConcatProperties
    <2>2. Rest = had \o (u \o left)
      BY <1>2, <1>5 DEF held, left, u
    <2>3. kept = front \o (held \o u)
      BY <1>6
    <2>4. \A t \in Seq(PeerUnit), w \in Seq(PeerUnit) : front \o (t \o w) = (front \o t) \o w
      BY Reassociate, SMTT(30)
    <2>5. front \o (held \o u) = had \o u
      BY ONLY <1>6, <2>4 DEF had
    <2> HIDE DEF had
    <2>6. \A t \in Seq(PeerUnit), w \in Seq(PeerUnit) : had \o (t \o w) = (had \o t) \o w
      BY ONLY <2>1, Reassociate
    <2>7. had \o (u \o left) = (had \o u) \o left
      BY ONLY <1>6, <2>6
    <2> QED  BY <1>6, <2>2, <2>3, <2>5, <2>7
  <1> QED  BY <1>2, <1>3, <1>7, <1>8, <1>9 DEF res, now, left, kept, all

(* The step of the phase DATA.                                             *)
LEMMA ReadDataStep ==
  ASSUME TypeOK, Phases, in_status = "open", ReadData,
         supplied' = supplied, fault' \in BOOLEAN
  PROVE  ReadStep
  <1>1. read_status = "DATA" /\ reader' = reader /\ reader_v \in ReadersV
    BY DEF ReadData, TypeOK, ReadersV
  <1>2. InData
    BY <1>1 DEF Phases, Alive
  <1> DEFINE size == header_data.size
             stop == header_data.stop
             start == mtc_header_write(msg, stop)
             lens == reader_v.lens
  <1>3. /\ mem = "iovec" /\ msg \in Seq(BlockSizes) /\ size \in 2..(StopBit - 1)
        /\ Len(msg) = size /\ lens \in Seq(Nat \ {0}) /\ lens # <<>>
        /\ Len(reader_v.buf) + Total(lens) = Total(msg) /\ Len(lens) <= Len(msg)
        /\ IovMax > 0 => Len(msg) <= IovMax \/ Len(lens) = Len(msg)
    BY <1>2 DEF InData
  <1>4. stop \in BOOLEAN /\ IovMax \in Nat /\ size \in Nat /\ size \in 1..(StopBit - 1)
        /\ size < StopBit
    BY <1>3, PeerAssumptions, StopBitAssumption, SMTT(30) DEF TypeOK
  <1>5. start \in Seq(PeerUnit) /\ Partial = start \o reader_v.buf
    <2>1. msg \in Seq(0..(WordLimit - 1))
      <3>1. \A i \in 1..Len(msg) : msg[i] \in 0..(WordLimit - 1)
        <4> TAKE i \in 1..Len(msg)
        <4>1. msg[i] \in BlockSizes
          BY <1>3, ElementOfSeq
        <4> QED  BY <4>1, StopBitAssumption DEF BlockSizes, WordLimit
      <3> QED  BY <1>3, <3>1, Narrow
    <2>2. Len(msg) < StopBit
      BY <1>3, <1>4
    <2> QED  BY <1>1, <1>4, <2>1, <2>2, WrittenHeader, PartialFacts
  <1>6. PICK answer \in AnswersV(lens) :
          LET res == mtc_reader_v_read(reader_v, answer)
          IN  /\ Takes(answer) /\ reader_v' = res.reader
              /\ \/ BailOut(res.io) /\ UNCHANGED read_status
                 \/ res.io = MTC_IO_OK /\ ReturnMsg(res.reader.buf) /\ mem' = "none"
    BY DEF ReadData
  <1> DEFINE res == mtc_reader_v_read(reader_v, answer)
             buf == res.reader.buf
             left == res.reader.lens
  <1>7. /\ res.reader \in ReadersV /\ left \in Seq(Nat \ {0})
        /\ Len(left) <= Len(lens)
        /\ IovMax > 0 /\ Len(lens) > IovMax => res.io # MTC_IO_OK /\ left = lens
        /\ Len(buf) + Total(left) = Len(reader_v.buf) + Total(lens)
        /\ res.io \in {MTC_IO_OK, MTC_IO_TEMP, MTC_IO_EOF, MTC_IO_SEVERE}
        /\ res.io = MTC_IO_OK <=> left = <<>>
        /\ sock' \in [buf : Seq(PeerUnit), eof : BOOLEAN, hup : BOOLEAN]
        /\ sock'.eof = sock.eof
        /\ Rest = (start \o buf) \o sock'.buf
    <2> HIDE DEF start
    <2> QED  BY <1>1, <1>3, <1>5, <1>6, OneReadV
  <1>8. buf \in Seq(PeerUnit)
    BY <1>7 DEF ReadersV
  <1>9. /\ reader_v' = res.reader
        /\ \/ BailOut(res.io) /\ UNCHANGED read_status
           \/ res.io = MTC_IO_OK /\ ReturnMsg(buf) /\ mem' = "none"
    BY <1>6
  <1> HIDE DEF res
  <1>10. CASE BailOut(res.io) /\ UNCHANGED read_status
    <2>1. /\ res.io # MTC_IO_OK /\ in_status' \in {"open", "broken"}
          /\ header_data' = header_data /\ mem' = mem /\ msg' = msg /\ got' = got
          /\ read_status' = "DATA"
      BY <1>1, <1>10 DEF BailOut
    <2>2. TypeOK'
      BY <1>1, <1>7, <1>9, <2>1 DEF TypeOK, ReadersV
    <2>3. Partial' = start \o buf
      BY <1>9, <2>1, NextPartial
    <2>4. Rest' = Rest
      BY <1>7, <2>3 DEF Rest
    <2>5. InData'
      <3>1. IovMax > 0 => Len(msg) <= IovMax \/ Len(left) = Len(msg)
        <4>1. Len(lens) \in Nat /\ Len(msg) \in Nat
          BY <1>3
        <4> HIDE DEF lens, left
        <4> QED  BY <1>3, <1>4, <1>7, <4>1, SMTT(30)
      <3>2. Len(buf) + Total(left) = Total(msg) /\ Len(left) <= Len(msg) /\ left # <<>>
        <4>1. Len(left) \in Nat /\ Len(lens) \in Nat /\ Len(msg) \in Nat
          BY <1>3, <1>7
        <4> HIDE DEF lens, left
        <4> QED  BY <1>3, <1>7, <2>1, <4>1, SMTT(30)
      <3> QED  BY <1>3, <1>7, <1>9, <2>1, <3>1, <3>2 DEF InData
    <2>6. Phases'
      BY <2>1, <2>5 DEF Phases
    <2> QED  BY <1>7, <2>1, <2>2, <2>4, <2>6 DEF ReadStep, Kept, GivenUp
  <1>11. CASE res.io = MTC_IO_OK /\ ReturnMsg(buf) /\ mem' = "none"
    <2> DEFINE sizes == msg
    <2>1. /\ got' = Append(got, [sizes |-> sizes, data |-> buf, stop |-> stop])
          /\ in_status' = (IF stop THEN "stopped" ELSE "open")
          /\ in_status' \in {"open", "stopped"} /\ read_status' = "INIT_READ"
          /\ msg' = <<>> /\ header_data' = header_data /\ mem' = "none"
      BY <1>11 DEF ReturnMsg, ReturnMsgThen
    <2>2. TypeOK'
      BY <1>1, <1>7, <1>9, <2>1 DEF TypeOK, ReadersV
    <2>3. Len(buf) = Total(sizes)
      <3>1. left = <<>> /\ Len(buf) \in Nat
        BY <1>7, <1>8, <1>11
      <3>2. Total(left) = 0
        BY <3>1, SmallTotals
      <3>3. Len(buf) + 0 = Total(sizes)
        BY <1>3, <1>7, <3>2
      <3> QED  BY <3>1, <3>3
    <2>4. /\ sizes \in Seq(BlockSizes) /\ Len(sizes) \in 1..(StopBit - 1)
          /\ Rest = (mtc_header_write(sizes, stop) \o buf) \o sock'.buf
      BY <1>3, <1>4, <1>7
    <2>5. IovMax > 0 => Len(sizes) <= IovMax \/ Len(sizes) = 1
      <3>1. Len(lens) \in Nat /\ Len(msg) \in Nat
        BY <1>3
      <3> HIDE DEF lens
      <3> QED  BY <1>3, <1>4, <1>7, <1>11, <3>1
    <2> HIDE DEF sizes, stop, buf
    <2>6. Done
      BY <1>4, <1>8, <2>1, <2>3, <2>4, <2>5 DEF Done
    <2> QED  BY <1>7, <2>2, <2>6 DEF ReadStep
  <1> QED  BY <1>9, <1>10, <1>11

(* One step of mtc_fd_link_receive.                                        *)
LEMMA ReceiveStep ==
  ASSUME TypeOK, Phases, Receive, supplied' = supplied, fault' \in BOOLEAN
  PROVE  ReadStep
  <1>1. in_status = "open" /\ (ReadHeader \/ ReadSimple \/ ReadIndex \/ ReadData)
    BY DEF Receive
  <1> QED  BY <1>1, ReadHeaderStep, ReadSimpleStep, ReadIndexStep, ReadDataStep

-----------------------------------------------------------------------------
(* What a complete message is.                                             *)

(* What is held is of the stream.                                          *)
LEMMA PartialType ==
  ASSUME TypeOK, Phases, Alive
  PROVE  Partial \in Seq(PeerUnit)
  <1>1. /\ read_status \in {"INIT_READ", "HDR", "SIMPLE", "IDX", "DATA"}
        /\ reader.buf \in Seq(PeerUnit) /\ reader_v.buf \in Seq(PeerUnit)
        /\ header_data.stop \in BOOLEAN /\ header_data.size \in Nat
    BY DEF TypeOK
  <1>2. CASE read_status = "INIT_READ"
    <2>1. Partial = <<>>
      BY <1>2, PartialFacts
    <2> QED  BY <2>1
  <1>3. CASE read_status = "HDR"
    BY <1>1, <1>3, PartialFacts
  <1>4. CASE read_status \in {"SIMPLE", "IDX"}
    <2>1. header_data.size \in 0..(StopBit - 1) /\ header_data.data_1 \in BlockSizes
      <3>1. InSimple \/ InIndex
        BY <1>4 DEF Phases
      <3> QED  BY <3>1, StopBitAssumption DEF InSimple, InIndex
    <2> DEFINE start == Opening(header_data)
    <2>2. start \in Seq(PeerUnit)
      BY <1>1, <2>1, FrontFacts
    <2>3. Partial = start \o reader.buf
      BY <1>4, PartialFacts
    <2> HIDE DEF start
    <2> QED  BY <1>1, <2>2, <2>3, ConcatProperties
  <1>5. CASE read_status = "DATA"
    <2>1. /\ msg \in Seq(BlockSizes) /\ Len(msg) = header_data.size
          /\ header_data.size \in 2..(StopBit - 1)
      BY <1>5 DEF Phases, InData
    <2>2. Len(msg) < StopBit
      BY <2>1, StopBitAssumption
    <2>3. msg \in Seq(0..(WordLimit - 1))
      <3>1. \A i \in 1..Len(msg) : msg[i] \in 0..(WordLimit - 1)
        <4> TAKE i \in 1..Len(msg)
        <4>1. msg[i] \in BlockSizes
          BY <2>1, ElementOfSeq
        <4> QED  BY <4>1, StopBitAssumption DEF BlockSizes, WordLimit
      <3> QED  BY <2>1, <3>1, Narrow
    <2> DEFINE start == mtc_header_write(msg, header_data.stop)
    <2>4. start \in Seq(PeerUnit)
      BY <1>1, <2>2, <2>3, WrittenHeader
    <2>5. Partial = start \o reader_v.buf
      BY <1>5, PartialFacts
    <2> HIDE DEF start
    <2> QED  BY <1>1, <2>4, <2>5, ConcatProperties
  <1> QED  BY <1>1, <1>2, <1>3, <1>4, <1>5

(* The message that is returned is the next frame, and a good one; what is *)
(* left in the socket, and what is still to come behind that, is what      *)
(* comes behind the frame.                                                 *)
LEMMA DoneMeets ==
  ASSUME TypeOK, got \in Seq(Messages), ReceivedIsSent, Done, TypeOK',
         supplied' = supplied, NEW tail \in Seq(PeerUnit), NEW whole,
         Begins(Rest \o tail, Due(supplied, Len(got)), whole)
  PROVE  /\ got' \in Seq(Messages) /\ Phases' /\ ReceivedIsSent'
         /\ Len(got) < Len(supplied) /\ Len(got') = Len(got) + 1
         /\ LET f == supplied[Len(got) + 1]
            IN  /\ got' = Append(got, Message(f, Len(got) + 1))
                /\ in_status' = IF f.stop THEN "stopped" ELSE "open"
         /\ Rest' = sock'.buf
         /\ Begins(Rest' \o tail, Due(supplied', Len(got')), whole)
  <1> DEFINE n == Len(got)
             left == sock'.buf \o tail
             f == supplied[n + 1]
             more == Due(supplied, n + 1)
  <1>1. /\ supplied \in Seq(Shapes) /\ n <= Len(supplied)
        /\ n \in Nat /\ Len(supplied) \in Nat
    <2>1. supplied \in Seq(Shapes)
      BY DEF TypeOK
    <2>2. Len(supplied) \in Nat /\ n \in Nat
      BY <2>1, LenProperties
    <2>3. n <= Len(supplied)
      BY DEF ReceivedIsSent
    <2> QED  BY <2>1, <2>2, <2>3
  <1>2. PICK sizes \in Seq(BlockSizes), data \in Seq(PeerUnit), stop \in BOOLEAN :
          /\ Len(sizes) \in 1..(StopBit - 1) /\ Len(data) = Total(sizes)
          /\ IovMax > 0 => Len(sizes) <= IovMax \/ Len(sizes) = 1
          /\ Rest = (mtc_header_write(sizes, stop) \o data) \o sock'.buf
          /\ got' = Append(got, [sizes |-> sizes, data |-> data, stop |-> stop])
          /\ read_status' = "INIT_READ" /\ mem' = "none" /\ msg' = <<>>
          /\ in_status' = IF stop THEN "stopped" ELSE "open"
    BY DEF Done
  <1> DEFINE w == mtc_header_write(sizes, stop)
             taken == [sizes |-> sizes, data |-> data, stop |-> stop]
  <1> DEFINE front == w \o data
             all == front \o left
  <1>3. sock'.buf \in Seq(PeerUnit) /\ left \in Seq(PeerUnit)
    <2>1. sock'.buf \in Seq(PeerUnit)
      BY DEF TypeOK
    <2> QED  BY <2>1, ConcatProperties
  <1>4. \A i \in 1..Len(sizes) : sizes[i] \in Nat \ {0} /\ sizes[i] \in 0..(WordLimit - 1)
    <2> TAKE i \in 1..Len(sizes)
    <2>1. sizes[i] \in BlockSizes
      BY <1>2, ElementOfSeq
    <2> QED  BY <2>1, StopBitAssumption DEF BlockSizes, WordLimit
  <1>5. /\ front \in Seq(PeerUnit) /\ Len(all) \in Nat /\ Len(all) > 0
        /\ Rest \o tail = all
    <2>1. /\ sizes \in Seq(0..(WordLimit - 1)) /\ Len(sizes) < StopBit
          /\ Len(sizes) \in Nat
      <3>1. sizes \in Seq(0..(WordLimit - 1))
        BY <1>4, Narrow
      <3>2. StopBit \in Nat /\ Len(sizes) \in 1..(StopBit - 1)
        BY <1>2, StopBitAssumption
      <3> HIDE DEF w
      <3> QED  BY <3>1, <3>2
    <2>2. w \in Seq(PeerUnit) /\ Len(w) = Len(sizes) + 2
      BY <2>1, WrittenHeader
    <2> HIDE DEF w
    <2>3. front \in Seq(PeerUnit) /\ Len(front) = Len(w) + Len(data)
      BY <2>2, ConcatProperties
    <2> DEFINE buf == sock'.buf
    <2>4. Rest = front \o buf
      BY <1>2 DEF w
    <2>5. buf \in Seq(PeerUnit) /\ left = buf \o tail
      BY <1>3
    <2> HIDE DEF front, left, buf, Rest
    <2>6. all \in Seq(PeerUnit) /\ Len(all) = Len(front) + Len(left)
      BY <1>3, <2>3, ConcatProperties
    <2>7. front \o (buf \o tail) = (front \o buf) \o tail
      <3>1. front \in Seq(PeerUnit) /\ buf \in Seq(PeerUnit) /\ tail \in Seq(PeerUnit)
        BY <2>3, <2>5
      <3> QED  BY ONLY <3>1, Reassociate
    <2>8. Rest \o tail = all
      BY <2>4, <2>5, <2>7
    <2>9. Len(data) \in Nat /\ Len(left) \in Nat
      BY <1>3
    <2> HIDE DEF all
    <2> QED  BY <2>1, <2>2, <2>3, <2>6, <2>8, <2>9
  <1>6. n < Len(supplied)
    <2> SUFFICES ASSUME n = Len(supplied) PROVE FALSE
      BY <1>1
    <2>1. Due(supplied, n) = <<>>
      BY <1>1, DueNone
    <2>2. Len(Rest \o tail) <= 0
      BY <2>1 DEF Begins
    <2> HIDE DEF all, Rest
    <2> QED  BY <1>5, <2>2
  <1>7. /\ f \in Shapes /\ n + 1 \in Nat /\ n + 1 \in 0..Len(supplied)
        /\ Due(supplied, n) = Frame(f, n + 1) \o more
        /\ more \in Seq(PeerUnit)
    <2>1. n + 1 \in 0..Len(supplied)
      BY <1>1, <1>6
    <2>2. more \in Seq(PeerUnit)
      BY <1>1, <2>1, FramesType
    <2>3. f \in Shapes /\ Due(supplied, n) = Frame(f, n + 1) \o more
      BY <1>1, <1>6, DueNext
    <2> QED  BY <2>1, <2>2, <2>3
  <1>8. /\ f.magic /\ f.sizes = sizes /\ f.stop = stop
        /\ data = PayloadOf(f.sizes, n + 1)
        /\ Begins(left, more, whole)
    <2>1. Begins((mtc_header_write(sizes, stop) \o data) \o left,
                 Frame(f, n + 1) \o more, whole)
      <3> HIDE DEF Rest, left, f, more
      <3> QED  BY <1>5, <1>7
    <2> DEFINE k == n + 1
    <2>2. k \in Nat /\ Begins((mtc_header_write(sizes, stop) \o data) \o left,
                 Frame(f, k) \o more, whole)
      BY <1>7, <2>1
    <2> HIDE DEF f, more, left, k
    <2>3. /\ f.magic /\ f.sizes = sizes /\ f.stop = stop
          /\ data = PayloadOf(f.sizes, k)
          /\ Begins(left, more, whole)
      BY <1>2, <1>3, <1>7, <2>2, MessageDone, SMTT(30)
    <2> QED  BY <2>3 DEF k
  <1>9. Good(f)
    <2>1. f.sizes # <<>>
      <3>1. sizes = <<>> => Len(sizes) = 0
        OBVIOUS
      <3> QED  BY <1>2, <1>8, <3>1
    <2>2. \A b \in 1..Len(f.sizes) : f.sizes[b] # 0
      BY <1>4, <1>8
    <2> QED  BY <1>2, <1>8, <2>1, <2>2 DEF Good
  <1>10. taken \in Messages /\ taken = Message(f, n + 1)
    <2>1. sizes \in Seq(Nat)
      <3>1. \A i \in 1..Len(sizes) : sizes[i] \in Nat
        BY <1>4
      <3> QED  BY <3>1, Narrow
    <2> QED  BY <1>8, <2>1 DEF Messages, Message
  <1> HIDE DEF taken
  <1>11. /\ got' \in Seq(Messages) /\ Len(got') = n + 1 /\ got'[n + 1] = taken
         /\ \A k \in 1..n : got'[k] = got[k]
    <2>1. got' = Append(got, taken)
      BY <1>2 DEF taken
    <2> QED  BY <1>1, <1>10, <2>1, AppendProperties
  <1>12. ReceivedIsSent'
    <2>1. Len(got') <= Len(supplied')
      BY <1>1, <1>6, <1>11
    <2>2. ASSUME NEW k \in 1..Len(got')
          PROVE  Good(supplied[k]) /\ got'[k] = Message(supplied[k], k)
      <3>1. CASE k = n + 1
        BY <1>9, <1>10, <1>11, <3>1
      <3>2. CASE k # n + 1
        <4>1. k \in 1..Len(got)
          BY <1>1, <1>11, <3>2
        <4>2. Good(supplied[k]) /\ got[k] = Message(supplied[k], k)
          BY <1>1, <4>1 DEF ReceivedIsSent
        <4> QED  BY <1>11, <4>1, <4>2
      <3> QED  BY <3>1, <3>2
    <2> QED  BY <2>1, <2>2 DEF ReceivedIsSent
  <1>13. /\ Rest' = sock'.buf
         /\ Begins(Rest' \o tail, Due(supplied', Len(got')), whole)
    <2>1. Partial' = <<>>
      BY <1>2, NextPartial
    <2>2. Rest' = sock'.buf
      <3>1. Rest' = <<>> \o sock'.buf
        BY <2>1 DEF Rest
      <3> QED  BY <1>3, <3>1, ConcatEmptySeq
    <2>3. Due(supplied', Len(got')) = more
      BY <1>11
    <2> QED  BY <1>8, <2>2, <2>3
  <1>14. Phases'
    BY <1>2 DEF Phases
  <1>15. got' = Append(got, Message(f, n + 1))
    BY <1>2, <1>10 DEF taken
  <1>16. in_status' = IF f.stop THEN "stopped" ELSE "open"
    BY <1>2, <1>8
  <1> HIDE DEF f
  <1> QED  BY <1>6, <1>11, <1>12, <1>13, <1>14, <1>15, <1>16 DEF f

(* When nothing is to come behind the socket, it keeps the invariant.      *)
LEMMA DoneKeeps ==
  ASSUME RecvInv, in_status = "open", Done, TypeOK', sock'.eof = sock.eof,
         supplied' = supplied
  PROVE  got' \in Seq(Messages) /\ Phases' /\ InStream' /\ ReceivedIsSent'
  <1> DEFINE whole == ~sock.eof
             due == Due(supplied, Len(got))
             next == Due(supplied', Len(got'))
             none == <<>>
  <1>1. TypeOK /\ got \in Seq(Messages) /\ ReceivedIsSent /\ Begins(Rest, due, whole)
    BY DEF RecvInv, InStream, Alive
  <1>2. Rest \in Seq(PeerUnit) /\ sock'.buf \in Seq(PeerUnit) /\ none \in Seq(PeerUnit)
    <2>1. sock.buf \in Seq(PeerUnit) /\ sock'.buf \in Seq(PeerUnit)
      BY DEF RecvInv, TypeOK
    <2>2. TypeOK /\ Phases /\ Alive
      BY DEF RecvInv, Alive
    <2>3. Partial \in Seq(PeerUnit)
      BY <2>2, PartialType
    <2> QED  BY <2>1, <2>3, ConcatProperties DEF Rest
  <1>3. Rest \o none = Rest
    <2> HIDE DEF Rest
    <2> QED  BY <1>2, ConcatEmptySeq
  <1>4. Begins(Rest \o none, due, whole)
    BY <1>1, <1>3
  <1> HIDE DEF none, whole
  <1>5. /\ got' \in Seq(Messages) /\ Phases' /\ ReceivedIsSent'
        /\ Rest' = sock'.buf /\ Begins(Rest' \o none, next, whole)
    BY <1>1, <1>2, <1>4, DoneMeets
  <1>6. Begins(Rest', next, whole)
    <2>1. sock'.buf \o none = sock'.buf
      BY <1>2, ConcatEmptySeq DEF none
    <2> QED  BY <1>5, <2>1
  <1> QED  BY <1>5, <1>6 DEF InStream, whole


-----------------------------------------------------------------------------
(* The receiver without failures of its own: what Clean stands for.        *)

(* It reads as the receiver does.                                          *)
LEMMA CleanReaders ==
  /\ Clean!HeaderReader = HeaderReader
  /\ \A from, answer : Clean!mtc_reader_read(from, answer) = mtc_reader_read(from, answer)
  /\ \A from, answer : Clean!mtc_reader_v_read(from, answer) = mtc_reader_v_read(from, answer)
  /\ \A buf : Clean!mtc_header_read(buf) = mtc_header_read(buf)
  /\ \A unit : Clean!ValueOf(unit) = ValueOf(unit)
  /\ Clean!MTC_IO_OK = MTC_IO_OK /\ Clean!MTC_IO_SEVERE = MTC_IO_SEVERE
  /\ Clean!MTC_IO_EOF = MTC_IO_EOF
  <1>1. Clean!HeaderReader = HeaderReader
    BY DEF HeaderReader, Clean!HeaderReader, mtc_reader_init, Clean!mtc_reader_init,
           mtc_header_min_size, Clean!mtc_header_min_size, mtc_header_sizeof,
           Clean!mtc_header_sizeof
  <1>2. ASSUME NEW from, NEW answer
        PROVE  Clean!mtc_reader_read(from, answer) = mtc_reader_read(from, answer)
    BY DEF mtc_reader_read, Clean!mtc_reader_read, ErrorStatus, Clean!ErrorStatus,
           MTC_IO_OK, MTC_IO_TEMP, MTC_IO_EOF, MTC_IO_SEVERE, Clean!MTC_IO_OK,
           Clean!MTC_IO_TEMP, Clean!MTC_IO_EOF, Clean!MTC_IO_SEVERE
  <1>3. ASSUME NEW lens, NEW n
        PROVE  Clean!FillRest(lens, n) = FillRest(lens, n)
    BY DEF FillRest, Clean!FillRest, Filled, Clean!Filled, FillStops, Clean!FillStops,
           DropBlocks, Clean!DropBlocks, Left, Clean!Left, Through, Clean!Through
  <1>4. ASSUME NEW from, NEW answer
        PROVE  Clean!mtc_reader_v_read(from, answer) = mtc_reader_v_read(from, answer)
    BY <1>3 DEF mtc_reader_v_read, Clean!mtc_reader_v_read, ErrorStatus, Clean!ErrorStatus,
           MTC_IO_OK, MTC_IO_TEMP, MTC_IO_EOF, MTC_IO_SEVERE, Clean!MTC_IO_OK,
           Clean!MTC_IO_TEMP, Clean!MTC_IO_EOF, Clean!MTC_IO_SEVERE
  <1>5. ASSUME NEW unit PROVE Clean!ValueOf(unit) = ValueOf(unit)
    BY DEF ValueOf, Clean!ValueOf
  <1>6. ASSUME NEW buf PROVE Clean!mtc_header_read(buf) = mtc_header_read(buf)
    BY <1>5 DEF mtc_header_read, Clean!mtc_header_read, Magic, Clean!Magic
  <1>7. /\ Clean!MTC_IO_OK = MTC_IO_OK /\ Clean!MTC_IO_SEVERE = MTC_IO_SEVERE
        /\ Clean!MTC_IO_EOF = MTC_IO_EOF
    BY DEF MTC_IO_OK, MTC_IO_EOF, MTC_IO_SEVERE, Clean!MTC_IO_OK,
           Clean!MTC_IO_EOF, Clean!MTC_IO_SEVERE
  <1> QED  BY <1>1, <1>2, <1>4, <1>5, <1>6, <1>7

(* What its reads may answer as long as the peer lives.                    *)
LEMMA CleanAnswers ==
  ASSUME ~sock.eof, NEW room
  PROVE  \A answer \in Clean!Answers(room) :
           answer \in Answers(room) /\ answer.kind \in {"data", "temp"}
  <1> SUFFICES ASSUME NEW answer \in Clean!Answers(room)
               PROVE  answer \in Answers(room) /\ answer.kind \in {"data", "temp"}
    OBVIOUS
  <1>1. \/ \E n \in {k \in 1..room : k <= Len(sock.buf)} :
             answer = Data(SubSeq(sock.buf, 1, n))
        \/ answer = Temp
    BY DEF Clean!Answers, Clean!Data, Clean!Temp, Data, Temp
  <1>2. answer \in Answers(room)
    BY <1>1 DEF Answers
  <1>3. CASE answer = Temp
    BY <1>2, <1>3 DEF Temp
  <1>4. CASE \E n \in {k \in 1..room : k <= Len(sock.buf)} :
               answer = Data(SubSeq(sock.buf, 1, n))
    <2>1. PICK n \in {k \in 1..room : k <= Len(sock.buf)} :
            answer = Data(SubSeq(sock.buf, 1, n))
      BY <1>4
    <2>2. answer.kind = "data"
      BY <2>1 DEF Data
    <2> QED  BY <1>2, <2>2
  <1> QED  BY <1>1, <1>3, <1>4

(* A read that does not fail does not break the link.                      *)
LEMMA CleanBailOut ==
  ASSUME NEW io, io # MTC_IO_SEVERE, io # MTC_IO_EOF, Clean!BailOut(io)
  PROVE  in_status' # "broken"
  BY CleanReaders DEF Clean!BailOut, Clean!MTC_IO_SEVERE, Clean!MTC_IO_EOF,
     MTC_IO_SEVERE, MTC_IO_EOF

(* What a read finds: what is held and in the socket is a beginning of the *)
(* frames that are to come.                                                *)
Reading ==
  /\ TypeOK /\ got \in Seq(Messages) /\ Phases /\ ReceivedIsSent
  /\ Begins(Rest, Due(supplied, Len(got)), FALSE)

(* Where something is held or in the socket, it is of the next frame.      *)
LEMMA NextFrame ==
  ASSUME Reading, in_status = "open", NEW rest \in Seq(PeerUnit), rest = Rest,
         Len(rest) > 0
  PROVE  /\ Len(got) \in Nat /\ Len(got) < Len(supplied)
         /\ supplied[Len(got) + 1] \in Shapes
         /\ \E more \in Seq(PeerUnit), whole \in BOOLEAN :
              Begins(rest, Frame(supplied[Len(got) + 1], Len(got) + 1) \o more, whole)
  <1> DEFINE n == Len(got)
             f == supplied[n + 1]
             more == Due(supplied, n + 1)
             whole == FALSE
  <1>1. /\ n \in Nat /\ n <= Len(supplied) /\ supplied \in Seq(Shapes)
        /\ Begins(rest, Due(supplied, n), whole) /\ Len(supplied) \in Nat /\ Len(rest) \in Nat
    <2>1. supplied \in Seq(Shapes) /\ got \in Seq(Messages) /\ n <= Len(supplied)
      BY DEF Reading, TypeOK, ReceivedIsSent
    <2>2. Begins(rest, Due(supplied, n), whole)
      BY DEF Reading
    <2>3. n \in Nat /\ Len(supplied) \in Nat /\ Len(rest) \in Nat
      BY <2>1
    <2> QED  BY <2>1, <2>2, <2>3
  <1>2. n < Len(supplied)
    <2> SUFFICES ASSUME n = Len(supplied) PROVE FALSE
      BY <1>1
    <2>1. Due(supplied, n) = <<>>
      BY <1>1, DueNone
    <2>2. Len(rest) <= 0
      BY <1>1, <2>1 DEF Begins
    <2> QED  BY <1>1, <2>2
  <1>3. n + 1 \in 0..Len(supplied)
    BY <1>1, <1>2
  <1>4. more \in Seq(PeerUnit)
    BY <1>1, <1>3, FramesType
  <1>5. f \in Shapes /\ Due(supplied, n) = Frame(f, n + 1) \o more
    BY <1>1, <1>2, DueNext
  <1>6. Begins(rest, Frame(f, n + 1) \o more, whole)
    BY <1>1, <1>5
  <1>7. whole \in BOOLEAN
    OBVIOUS
  <1> HIDE DEF f, more, whole
  <1>8. \E m \in Seq(PeerUnit), w \in BOOLEAN : Begins(rest, Frame(f, n + 1) \o m, w)
    BY <1>4, <1>6, <1>7
  <1> QED  BY <1>1, <1>2, <1>5, <1>8 DEF f

(* A header that is rejected is not that of a good frame.                  *)
LEMMA HeaderBreaks ==
  ASSUME Reading, in_status = "open", ~sock.eof, Clean!ReadHeader, in_status' = "broken"
  PROVE  Len(got) < Len(supplied) /\ ~Good(supplied[Len(got) + 1])
  <1> DEFINE from == HeaderReader
             n == Len(got)
             f == supplied[n + 1]
  <1>1. PICK answer \in Clean!Answers(from.len) :
          LET res == mtc_reader_read(from, answer)
              h   == mtc_header_read(res.reader.buf)
          IN  /\ Takes(answer) /\ read_status \in {"INIT_READ", "HDR"}
              /\ \/ Clean!BailOut(res.io)
                 \/ res.io = MTC_IO_OK /\ ~(h.ok /\ h.data_1 # 0)
                 \/ res.io = MTC_IO_OK /\ in_status' = in_status
    BY CleanReaders DEF Clean!ReadHeader, Clean!HeaderRejected, Clean!SimpleBegins,
       Clean!ComplexBegins, Clean!AllocMayFail, Clean!Takes, Takes
  <1>2. /\ from \in Readers /\ from.len > 0 /\ Len(from.buf) + from.len = 3
        /\ Partial = <<>> \o from.buf /\ TypeOK
    BY <1>1, HeaderReaderFacts DEF Reading
  <1> HIDE DEF from
  <1> DEFINE res == mtc_reader_read(from, answer)
             buf == res.reader.buf
             h == mtc_header_read(buf)
             front == <<>>
             left == sock'.buf
  <1>3. answer \in Answers(from.len) /\ answer.kind \in {"data", "temp"}
    BY CleanAnswers
  <1>4. /\ res.reader \in Readers /\ Len(buf) + res.reader.len = 3
        /\ res.io = MTC_IO_OK <=> res.reader.len = 0
        /\ res.io # MTC_IO_EOF /\ res.io # MTC_IO_SEVERE
        /\ left \in Seq(PeerUnit) /\ Rest = (front \o buf) \o left
    <2>1. front \in Seq(PeerUnit) /\ Partial = front \o from.buf
      BY <1>2
    <2> HIDE DEF front
    <2> QED  BY <1>1, <1>2, <1>3, <2>1, OneRead
  <1>5. buf \in Seq(PeerUnit) /\ Rest = buf \o left
    <2>1. buf \in Seq(PeerUnit)
      BY <1>4 DEF Readers
    <2>2. front \o buf = buf
      BY <2>1, ConcatEmptySeq
    <2> QED  BY <1>4, <2>1, <2>2
  <1>6. res.io = MTC_IO_OK /\ ~(h.ok /\ h.data_1 # 0)
    <2> HIDE DEF res, h
    <2> QED  BY <1>1, <1>4, CleanBailOut DEF res, h
  <1>7. Len(buf) = 3
    <2>1. Len(buf) \in Nat /\ Len(buf) + res.reader.len = 3 /\ res.reader.len = 0
      BY <1>4, <1>5, <1>6
    <2> QED  BY <2>1
  <1> HIDE DEF res, buf, left
  <1> DEFINE rest == buf \o left
  <1>8. /\ rest \in Seq(PeerUnit) /\ Len(rest) >= 3 /\ rest = Rest
        /\ \A i \in 1..3 : rest[i] = buf[i]
    <2>1. /\ rest \in Seq(PeerUnit) /\ Len(rest) = Len(buf) + Len(left)
          /\ \A i \in 1..Len(buf) : rest[i] = buf[i]
      <3>1. buf \in Seq(PeerUnit) /\ left \in Seq(PeerUnit) /\ rest = buf \o left
        BY <1>4, <1>5
      <3> HIDE DEF rest
      <3> QED  BY ONLY <3>1, Joins
    <2>2. Len(left) \in Nat
      BY <1>4
    <2> HIDE DEF rest
    <2>3. rest = Rest
      BY <1>5 DEF rest
    <2> QED  BY <1>7, <2>1, <2>2, <2>3
  <1> HIDE DEF rest
  <1>9. /\ n \in Nat /\ n < Len(supplied) /\ f \in Shapes
        /\ \E more \in Seq(PeerUnit), whole \in BOOLEAN :
             Begins(rest, Frame(f, n + 1) \o more, whole)
    <2>1. Len(rest) > 0
      BY <1>8
    <2> QED  BY <1>8, <2>1, NextFrame
  <1>10. PICK more \in Seq(PeerUnit), whole \in BOOLEAN :
           Begins(rest, Frame(f, n + 1) \o more, whole)
    BY <1>9
  <1>11. ASSUME Good(f) PROVE FALSE
    <2> DEFINE m == Len(f.sizes)
               k == n + 1
    <2>1. /\ f.sizes \in Seq(0..(WordLimit - 1)) /\ m \in 0..(StopBit - 1) /\ f.stop \in BOOLEAN
          /\ (Header(f)[1] = Magic) <=> f.magic
          /\ Header(f)[2] = Word(CountWord(m, f.stop))
          /\ \A b \in 1..m : Header(f)[b + 2] = Word(f.sizes[b])
          /\ Len(Header(f)) >= 3 /\ Len(Header(f)) \in Nat
      <3>1. Len(Header(f)) >= 3 /\ Len(Header(f)) \in Nat
        BY <1>9, FrameFacts
      <3>2. /\ f.sizes \in Seq(0..(WordLimit - 1)) /\ m \in 0..(StopBit - 1)
            /\ f.stop \in BOOLEAN
            /\ (Header(f)[1] = Magic) <=> f.magic
            /\ Header(f)[2] = Word(CountWord(m, f.stop))
            /\ \A b \in 1..m : Header(f)[b + 2] = Word(f.sizes[b])
        BY <1>9, HeaderFacts
      <3> QED  BY <3>1, <3>2
    <2>2. f.magic /\ f.sizes # <<>> /\ \A b \in 1..m : f.sizes[b] # 0
      BY <1>11 DEF Good
    <2>3. m # 0 /\ 1 \in 1..m /\ 1 + 2 = 3
      <3>1. m = 0 => f.sizes = <<>>
        BY <2>1
      <3> HIDE DEF m
      <3> QED  BY <2>1, <2>2, <3>1, StopBitAssumption
    <2>4. k \in Nat /\ Begins(rest, Frame(f, k) \o more, whole)
      BY <1>9, <1>10
    <2> HIDE DEF m, k, f
    <2>5. \A i \in 1..3 : buf[i] = Header(f)[i]
      <3> TAKE i \in 1..3
      <3>1. i \in 1..Len(Header(f)) /\ i <= Len(rest)
        BY <1>8, <2>1
      <3>2. rest[i] = Header(f)[i]
        BY <1>8, <1>9, <2>4, <3>1, AtHeader, ZenonT(30)
      <3> QED  BY <1>8, <3>2
    <2>6. /\ buf[1] = Magic /\ buf[2] = Word(CountWord(m, f.stop))
          /\ buf[3] = Word(f.sizes[1])
      <3>1. 1 \in 1..3 /\ 2 \in 1..3 /\ 3 \in 1..3
        OBVIOUS
      <3>2. Header(f)[3] = Word(f.sizes[1])
        BY <2>1, <2>3
      <3> QED  BY <2>1, <2>2, <2>5, <3>1, <3>2
    <2>7. \A w : ValueOf(Word(w)) = w
      BY DEF ValueOf, Word
    <2>8. ValueOf(buf[2]) % StopBit = m /\ ValueOf(buf[3]) = f.sizes[1]
      BY <2>1, <2>6, <2>7, CountWords
    <2>9. h.ok = (buf[1] = Magic /\ ValueOf(buf[2]) % StopBit # 0) /\ h.data_1 = ValueOf(buf[3])
      BY DEF mtc_header_read
    <2> HIDE DEF h
    <2> QED  BY <1>6, <2>2, <2>3, <2>6, <2>8, <2>9
  <1> QED  BY <1>9, <1>11

(* An index is rejected for a size of 0 that the peer wrote.               *)
LEMMA IndexBreaks ==
  ASSUME Reading, in_status = "open", ~sock.eof, Clean!ReadIndex, in_status' = "broken"
  PROVE  Len(got) < Len(supplied) /\ ~Good(supplied[Len(got) + 1])
  <1> DEFINE n == Len(got)
             f == supplied[n + 1]
             d == header_data.data_1
             size == header_data.size
             stop == header_data.stop
             start == Opening(header_data)
  <1> DEFINE Values(buf) == [i \in 1..Len(buf) |-> Clean!ValueOf(buf[i])]
             Outcome(res, idx) ==
               \/ Clean!BailOut(res.io)
               \/ res.io = MTC_IO_OK /\ \E i \in 1..Len(idx) : idx[i] = 0
               \/ res.io = MTC_IO_OK /\ in_status' = in_status
  <1>0. PICK answer \in Clean!Answers(reader.len) :
          LET res == Clean!mtc_reader_read(reader, answer)
          IN  Takes(answer) /\ Outcome(res, Values(res.reader.buf))
    BY CleanReaders DEF Clean!ReadIndex, Clean!IndexAccepted, Clean!AllocMayFail,
       Clean!Takes, Takes
  <1>1. LET res == mtc_reader_read(reader, answer)
        IN  /\ Takes(answer) /\ read_status = "IDX"
            /\ Outcome(res, Values(res.reader.buf))
    <2>1. Clean!mtc_reader_read(reader, answer) = mtc_reader_read(reader, answer)
      BY CleanReaders
    <2>2. read_status = "IDX"
      BY DEF Clean!ReadIndex
    <2> QED  BY <1>0, <2>1, <2>2
  <1>2. reader \in Readers /\ read_status = "IDX" /\ TypeOK /\ InIndex
    BY <1>1 DEF Reading, TypeOK, Readers, Phases, Alive
  <1>3. /\ size \in 1..(StopBit - 1) /\ d \in BlockSizes /\ stop \in BOOLEAN
        /\ reader.len > 0 /\ Len(reader.buf) + reader.len = size - 1
        /\ size \in 0..(StopBit - 1) /\ size \in Nat
    BY <1>2, StopBitAssumption DEF InIndex, TypeOK
  <1>4. start \in Seq(PeerUnit) /\ Partial = start \o reader.buf /\ Len(start) = 3
        /\ start[1] = Magic /\ start[2] = Word(CountWord(size, stop))
    BY <1>2, <1>3, FrontFacts, PartialFacts
  <1> DEFINE res == mtc_reader_read(reader, answer)
             buf == res.reader.buf
             left == sock'.buf
             front == start \o buf
             rest == front \o left
  <1>5. answer \in Answers(reader.len) /\ answer.kind \in {"data", "temp"}
    BY CleanAnswers
  <1>6. /\ res.reader \in Readers
        /\ Len(buf) + res.reader.len = size - 1
        /\ res.io = MTC_IO_OK <=> res.reader.len = 0
        /\ res.io # MTC_IO_EOF /\ res.io # MTC_IO_SEVERE
        /\ left \in Seq(PeerUnit) /\ Rest = rest
    <2> HIDE DEF start
    <2> QED  BY <1>1, <1>2, <1>3, <1>4, <1>5, OneRead
  <1>7. buf \in Seq(PeerUnit) /\ Len(buf) \in Nat
    BY <1>6 DEF Readers
  <1>8. res.io = MTC_IO_OK /\ \E i \in 1..Len(buf) : ValueOf(buf[i]) = 0
    <2> DEFINE idx == Values(buf)
    <2>1. Len(idx) = Len(buf) /\ \A i \in 1..Len(buf) : idx[i] = ValueOf(buf[i])
      BY <1>7, CleanReaders
    <2>2. \/ Clean!BailOut(res.io)
          \/ res.io = MTC_IO_OK /\ \E i \in 1..Len(idx) : idx[i] = 0
          \/ res.io = MTC_IO_OK /\ in_status' = in_status
      BY <1>1
    <2> HIDE DEF res, idx
    <2> QED  BY <1>6, <2>1, <2>2, CleanBailOut
  <1>9. Len(buf) = size - 1
    <2>1. Len(buf) + res.reader.len = size - 1 /\ res.reader.len = 0
      BY <1>6, <1>8
    <2> QED  BY <1>7, <2>1
  <1> HIDE DEF res, buf, left, start
  <1>10. /\ front \in Seq(PeerUnit) /\ Len(front) = 3 + Len(buf)
         /\ \A i \in 1..3 : front[i] = start[i]
         /\ \A i \in 1..Len(buf) : front[3 + i] = buf[i]
    <2>1. /\ front \in Seq(PeerUnit) /\ Len(front) = Len(start) + Len(buf)
          /\ \A i \in 1..Len(start) : front[i] = start[i]
          /\ \A i \in 1..Len(buf) : front[Len(start) + i] = buf[i]
      <3>1. start \in Seq(PeerUnit) /\ buf \in Seq(PeerUnit) /\ front = start \o buf
        BY <1>4, <1>7
      <3> HIDE DEF front
      <3> QED  BY ONLY <3>1, Joins
    <2> HIDE DEF front
    <2> QED  BY <1>4, <2>1
  <1> HIDE DEF front
  <1>11. /\ rest \in Seq(PeerUnit) /\ Len(rest) >= 3 + Len(buf)
         /\ \A i \in 1..(3 + Len(buf)) : rest[i] = front[i]
    <2>1. /\ rest \in Seq(PeerUnit) /\ Len(rest) = Len(front) + Len(left)
          /\ \A i \in 1..Len(front) : rest[i] = front[i]
      <3>1. front \in Seq(PeerUnit) /\ left \in Seq(PeerUnit) /\ rest = front \o left
        BY <1>6, <1>10
      <3> HIDE DEF rest
      <3> QED  BY ONLY <3>1, Joins
    <2>2. Len(left) \in Nat
      BY <1>6
    <2> HIDE DEF rest
    <2> QED  BY <1>7, <1>10, <2>1, <2>2
  <1> HIDE DEF rest
  <1>12. /\ n \in Nat /\ n < Len(supplied) /\ f \in Shapes
         /\ \E more \in Seq(PeerUnit), whole \in BOOLEAN :
              Begins(rest, Frame(f, n + 1) \o more, whole)
    <2>1. Len(rest) > 0 /\ rest = Rest
      BY <1>6, <1>7, <1>11
    <2> QED  BY <1>11, <2>1, NextFrame
  <1>13. PICK more \in Seq(PeerUnit), whole \in BOOLEAN :
           Begins(rest, Frame(f, n + 1) \o more, whole)
    BY <1>12
  <1>14. /\ Len(f.sizes) = size
         /\ \A b \in 1..size : b + 2 <= Len(rest) => rest[b + 2] = Word(f.sizes[b])
    <2> DEFINE k == n + 1
    <2>1. k \in Nat /\ Begins(rest, Frame(f, k) \o more, whole)
      BY <1>12, <1>13
    <2>2. Len(rest) >= 2 /\ rest[1] = Magic /\ rest[2] = Word(CountWord(size, stop))
      <3>1. 1 \in 1..3 /\ 2 \in 1..3 /\ 1 \in 1..(3 + Len(buf)) /\ 2 \in 1..(3 + Len(buf))
        BY <1>7
      <3>2. Len(rest) >= 2
        BY <1>7, <1>11
      <3> QED  BY <1>4, <1>10, <1>11, <3>1, <3>2, SMTT(30)
    <2> HIDE DEF size, stop, k, f
    <2> QED  BY <1>3, <1>11, <1>12, <2>1, <2>2, FrameStart, SMTT(30)
  <1>15. PICK i \in 1..Len(buf) : ValueOf(buf[i]) = 0
    BY <1>8
  <1>16. f.sizes[i + 1] = 0 /\ i + 1 \in 1..Len(f.sizes)
    <2>1. /\ i + 1 \in 1..size /\ (i + 1) + 2 = 3 + i /\ (i + 1) + 2 <= Len(rest)
          /\ 3 + i \in 1..(3 + Len(buf))
      BY <1>3, <1>7, <1>9, <1>11
    <2>2. rest[3 + i] = buf[i]
      BY <1>10, <1>11, <2>1
    <2> HIDE DEF size
    <2>3. buf[i] = Word(f.sizes[i + 1])
      BY <1>14, <2>1, <2>2
    <2>4. ValueOf(Word(f.sizes[i + 1])) = f.sizes[i + 1]
      BY DEF ValueOf, Word
    <2> QED  BY <1>14, <1>15, <2>1, <2>3, <2>4
  <1> QED  BY <1>12, <1>16 DEF Good

(* A single block breaks nothing.                                          *)
LEMMA SimpleBreaksNot ==
  ASSUME Reading, in_status = "open", ~sock.eof, Clean!ReadSimple
  PROVE  in_status' # "broken"
  <1> DEFINE start == Opening(header_data)
  <1>1. PICK answer \in Clean!Answers(reader.len) :
          LET res == mtc_reader_read(reader, answer)
          IN  /\ Takes(answer)
              /\ Clean!BailOut(res.io) \/ in_status' \in {"open", "stopped"}
    BY CleanReaders DEF Clean!ReadSimple, Clean!ReturnMsg, Clean!ReturnMsgThen,
       Clean!Takes, Takes
  <1>2. reader \in Readers /\ TypeOK /\ read_status = "SIMPLE" /\ InSimple
    BY DEF Clean!ReadSimple, Reading, TypeOK, Readers, Phases, Alive
  <1>3. answer \in Answers(reader.len) /\ answer.kind \in {"data", "temp"}
    BY CleanAnswers
  <1>4. start \in Seq(PeerUnit) /\ Partial = start \o reader.buf
    <2>1. header_data.size \in 0..(StopBit - 1) /\ header_data.stop \in BOOLEAN
      BY <1>2, StopBitAssumption DEF InSimple, TypeOK
    <2> QED  BY <1>2, <2>1, FrontFacts, PartialFacts DEF InSimple
  <1> DEFINE res == mtc_reader_read(reader, answer)
  <1>5. res.io # MTC_IO_EOF /\ res.io # MTC_IO_SEVERE
    <2>1. reader.len > 0
      BY <1>2 DEF InSimple
    <2> HIDE DEF start
    <2> QED  BY <1>1, <1>2, <1>3, <1>4, <2>1, OneRead
  <1>6. Clean!BailOut(res.io) \/ in_status' \in {"open", "stopped"}
    BY <1>1
  <1> HIDE DEF res
  <1> QED  BY <1>5, <1>6, CleanBailOut

(* readv refuses a vector only for a message that has more blocks than it  *)
(* can take.                                                               *)
LEMMA DataBreaks ==
  ASSUME Reading, in_status = "open", ~sock.eof, Clean!ReadData, in_status' = "broken"
  PROVE  Len(got) < Len(supplied) /\ ~Good(supplied[Len(got) + 1])
  <1> DEFINE n == Len(got)
             f == supplied[n + 1]
             size == header_data.size
             stop == header_data.stop
             w == mtc_header_write(msg, stop)
             lens == reader_v.lens
  <1>1. /\ read_status = "DATA" /\ TypeOK /\ InData /\ reader_v \in ReadersV
    BY DEF Clean!ReadData, Reading, TypeOK, ReadersV, Phases, Alive
  <1>2. /\ msg \in Seq(BlockSizes) /\ size \in 2..(StopBit - 1) /\ size \in 1..(StopBit - 1)
        /\ size \in Nat /\ Len(msg) = size /\ stop \in BOOLEAN /\ Len(msg) < StopBit
        /\ lens \in Seq(Nat \ {0}) /\ lens # <<>> /\ Len(lens) <= Len(msg) /\ IovMax \in Nat
    BY <1>1, StopBitAssumption, PeerAssumptions, SMTT(30) DEF InData, TypeOK
  <1>3. PICK answer \in Clean!AnswersV(lens) :
          LET res == mtc_reader_v_read(reader_v, answer)
          IN  /\ Takes(answer)
              /\ Clean!BailOut(res.io) \/ in_status' \in {"open", "stopped"}
    BY CleanReaders DEF Clean!ReadData, Clean!ReturnMsg, Clean!ReturnMsgThen,
       Clean!Takes, Takes
  <1> DEFINE start == w
             buf == reader_v.buf
             front == start \o buf
             left == sock.buf
             rest == front \o left
  <1>4. /\ start \in Seq(PeerUnit) /\ Len(start) = size + 2
        /\ start[1] = Magic /\ start[2] = Word(CountWord(size, stop))
        /\ Rest = rest /\ Partial = front
    <2>1. msg \in Seq(0..(WordLimit - 1))
      <3>1. \A i \in 1..Len(msg) : msg[i] \in 0..(WordLimit - 1)
        <4> TAKE i \in 1..Len(msg)
        <4>1. msg[i] \in BlockSizes
          BY <1>2, ElementOfSeq
        <4> QED  BY <4>1, StopBitAssumption DEF BlockSizes, WordLimit
      <3> QED  BY <1>2, <3>1, Narrow
    <2>2. Partial = front
      BY <1>1, PartialFacts
    <2> QED  BY <1>2, <2>1, <2>2, WrittenHeader DEF Rest
  <1>5. IovMax > 0 /\ Len(lens) > IovMax
    <2> SUFFICES ASSUME ~(IovMax > 0 /\ Len(lens) > IovMax) PROVE FALSE
      OBVIOUS
    <2>1. answer \in Clean!Answers(Total(lens))
      <3>1. Clean!Through(lens) = Through(lens)
        BY DEF Clean!Through, Through
      <3> QED  BY <3>1 DEF Clean!AnswersV, Total
    <2>2. answer \in Answers(Total(lens)) /\ answer.kind \in {"data", "temp"}
      BY <2>1, CleanAnswers
    <2>3. answer \in AnswersV(lens)
      BY <2>2 DEF AnswersV, Total
    <2> DEFINE res == mtc_reader_v_read(reader_v, answer)
    <2>4. res.io # MTC_IO_EOF /\ res.io # MTC_IO_SEVERE
      <3> HIDE DEF start
      <3> QED  BY <1>1, <1>2, <1>3, <1>4, <2>2, <2>3, OneReadV
    <2> HIDE DEF res
    <2> QED  BY <1>3, <2>4, CleanBailOut DEF res
  <1> HIDE DEF start, buf, left
  <1>6. buf \in Seq(PeerUnit) /\ left \in Seq(PeerUnit)
    BY <1>1 DEF ReadersV, TypeOK, buf, left
  <1>7. /\ front \in Seq(PeerUnit) /\ Len(front) = Len(start) + Len(buf)
        /\ \A i \in 1..Len(start) : front[i] = start[i]
    <2>1. start \in Seq(PeerUnit) /\ buf \in Seq(PeerUnit) /\ front = start \o buf
      BY <1>4, <1>6
    <2> HIDE DEF front
    <2> QED  BY ONLY <2>1, Joins
  <1> HIDE DEF front
  <1>8. /\ rest \in Seq(PeerUnit) /\ Len(rest) = Len(front) + Len(left)
        /\ \A i \in 1..Len(front) : rest[i] = front[i]
    <2>1. front \in Seq(PeerUnit) /\ left \in Seq(PeerUnit) /\ rest = front \o left
      BY <1>6, <1>7
    <2> HIDE DEF rest
    <2> QED  BY ONLY <2>1, Joins
  <1> HIDE DEF rest
  <1>9. Len(rest) >= 2 /\ rest[1] = Magic /\ rest[2] = Word(CountWord(size, stop))
    <2>1. Len(buf) \in Nat /\ Len(left) \in Nat
      BY <1>6
    <2>2. /\ Len(rest) >= 2 /\ 1 \in 1..Len(start) /\ 2 \in 1..Len(start)
          /\ 1 \in 1..Len(front) /\ 2 \in 1..Len(front)
      <3> HIDE DEF size
      <3> QED  BY <1>2, <1>4, <1>7, <1>8, <2>1
    <2> QED  BY <1>4, <1>7, <1>8, <2>2, SMTT(30)
  <1>10. /\ n \in Nat /\ n < Len(supplied) /\ f \in Shapes
         /\ \E more \in Seq(PeerUnit), whole \in BOOLEAN :
              Begins(rest, Frame(f, n + 1) \o more, whole)
    <2>1. Len(rest) > 0 /\ rest = Rest
      BY <1>4, <1>8, <1>9
    <2> QED  BY <1>8, <2>1, NextFrame
  <1>11. PICK more \in Seq(PeerUnit), whole \in BOOLEAN :
           Begins(rest, Frame(f, n + 1) \o more, whole)
    BY <1>10
  <1>12. Len(f.sizes) = size
    <2> DEFINE k == n + 1
    <2>1. k \in Nat /\ Begins(rest, Frame(f, k) \o more, whole)
      BY <1>10, <1>11
    <2> HIDE DEF size, stop, k, f
    <2> QED  BY <1>2, <1>8, <1>9, <1>10, <2>1, FrameStart, ZenonT(30)
  <1>13. size > IovMax /\ size # 1 /\ ~(size <= IovMax)
    <2>1. Len(lens) \in Nat
      BY <1>2
    <2> HIDE DEF lens, size
    <2> QED  BY <1>2, <1>5, <2>1
  <1> HIDE DEF size, f
  <1> QED  BY <1>5, <1>10, <1>12, <1>13 DEF Good, f

(* A receiver that has met no failure breaks the link for a frame that is  *)
(* not a good one.                                                         *)
LEMMA BreakIsJustified ==
  ASSUME Reading, in_status = "open", ~sock.eof, Clean!Next, in_status' = "broken"
  PROVE  Len(got) < Len(supplied) /\ ~Good(supplied[Len(got) + 1])
  <1>1. Clean!ReadHeader \/ Clean!ReadSimple \/ Clean!ReadIndex \/ Clean!ReadData
    BY DEF Clean!Next, Clean!Receive, Clean!ResumeIn, Clean!Finalize
  <1> QED  BY <1>1, HeaderBreaks, SimpleBreaksNot, IndexBreaks, DataBreaks

(* A receiver that meets no failure is one that makes none.                *)
LEMMA CleanReceive ==
  ASSUME Faults = {}, Receive
  PROVE  Clean!Receive
  <1>1. ~AllocMayFail /\ ~Clean!AllocMayFail
    BY DEF AllocMayFail, Clean!AllocMayFail
  <1>2. \A room : Clean!Answers(room) = Answers(room)
    BY DEF Clean!Answers, Answers, Clean!Data, Data, Clean!Temp, Temp, Clean!Eof, Eof
  <1>3. \A lens : Clean!AnswersV(lens) = AnswersV(lens)
    <2>1. \A lens : Clean!Through(lens) = Through(lens)
      BY DEF Clean!Through, Through
    <2> QED  BY <1>2, <2>1 DEF Clean!AnswersV, AnswersV, Clean!Severe, Severe
  <1>4. /\ \A io : Clean!BailOut(io) <=> BailOut(io)
        /\ \A answer : Clean!Takes(answer) <=> Takes(answer)
        /\ \A phase : Clean!Fail(phase) <=> Fail(phase)
        /\ \A data : Clean!ReturnMsg(data) <=> ReturnMsg(data)
    BY CleanReaders DEF Clean!BailOut, BailOut, Clean!Takes, Takes, Clean!Fail, Fail,
       Clean!ReturnMsg, ReturnMsg, Clean!ReturnMsgThen, ReturnMsgThen
  <1>5. /\ \A h : Clean!HeaderRejected(h) <=> HeaderRejected(h)
        /\ \A h : Clean!SimpleBegins(h) <=> SimpleBegins(h)
        /\ \A h : Clean!ComplexBegins(h) <=> ComplexBegins(h)
        /\ \A h : Clean!HeaderData(h) = HeaderData(h)
    BY <1>4 DEF Clean!HeaderRejected, HeaderRejected, Clean!SimpleBegins, SimpleBegins,
       Clean!ComplexBegins, ComplexBegins, Clean!HeaderData, HeaderData,
       Clean!mtc_reader_init, mtc_reader_init
  <1>6. \A idx : Clean!IndexAccepted(idx) <=> IndexAccepted(idx)
    BY DEF Clean!IndexAccepted, IndexAccepted, Clean!mtc_reader_v_init, mtc_reader_v_init
  <1>7. ReadHeader => Clean!ReadHeader
    BY <1>1, <1>2, <1>4, <1>5, CleanReaders DEF ReadHeader, Clean!ReadHeader
  <1>8. ReadSimple => Clean!ReadSimple
    BY <1>2, <1>4, CleanReaders DEF ReadSimple, Clean!ReadSimple
  <1>9. ReadIndex => Clean!ReadIndex
    <2> DEFINE theirs(buf) == [i \in 1..Len(buf) |-> Clean!ValueOf(buf[i])]
               ours(buf)   == [i \in 1..Len(buf) |-> ValueOf(buf[i])]
    <2>1. \A buf : theirs(buf) = ours(buf)
      BY CleanReaders
    <2>2. ReadIndex =>
            /\ read_status = "IDX"
            /\ \E answer \in Answers(reader.len) :
                 LET res == mtc_reader_read(reader, answer)
                     idx == ours(res.reader.buf)
                 IN  /\ Takes(answer)
                     /\ reader' = res.reader
                     /\ \/ BailOut(res.io) /\ UNCHANGED <<read_status, reader_v>>
                        \/ /\ res.io = MTC_IO_OK
                           /\ UNCHANGED header_data
                           /\ \/ IndexAccepted(idx)
                              \/ /\ AllocMayFail \/ \E i \in 1..Len(idx) : idx[i] = 0
                                 /\ Fail("IDX")
      BY DEF ReadIndex
    <2>3. /\ read_status = "IDX"
          /\ \E answer \in Clean!Answers(reader.len) :
               LET res == Clean!mtc_reader_read(reader, answer)
                   idx == theirs(res.reader.buf)
               IN  /\ Clean!Takes(answer)
                   /\ reader' = res.reader
                   /\ \/ Clean!BailOut(res.io) /\ UNCHANGED <<read_status, reader_v>>
                      \/ /\ res.io = Clean!MTC_IO_OK
                         /\ UNCHANGED header_data
                         /\ \/ Clean!IndexAccepted(idx)
                            \/ /\ Clean!AllocMayFail \/ \E i \in 1..Len(idx) : idx[i] = 0
                               /\ Clean!Fail("IDX")
          => Clean!ReadIndex
      BY DEF Clean!ReadIndex
    <2> HIDE DEF theirs, ours
    <2> QED
      BY <1>1, <1>2, <1>4, <1>6, <2>1, <2>2, <2>3, CleanReaders
  <1>10. ReadData => Clean!ReadData
    BY <1>3, <1>4, CleanReaders DEF ReadData, Clean!ReadData
  <1> QED  BY <1>7, <1>8, <1>9, <1>10 DEF Receive, Clean!Receive

(* It breaks the link for a frame that is not a good one, as long as its   *)
(* peer lives.                                                             *)
LEMMA GoodFramesBreakNothing ==
  ASSUME Faults = {}, Reading, ~sock.eof, Receive, in_status' = "broken"
  PROVE  Len(got) < Len(supplied) /\ ~Good(supplied[Len(got) + 1])
  <1>1. Clean!Next /\ in_status = "open"
    BY CleanReceive DEF Clean!Next, Receive
  <1> QED  BY <1>1, BreakIsJustified

-----------------------------------------------------------------------------
(* The invariant.                                                          *)

(* A link that has just been initialised, before anything is sent.         *)
LEMMA FreshFacts ==
  ASSUME Init, supplied = <<>>, fault \in BOOLEAN
  PROVE  /\ TypeOK /\ got \in Seq(Messages) /\ Phases /\ ReceivedIsSent
         /\ Rest = <<>> /\ Due(supplied, Len(got)) = <<>>
  <1>1. /\ read_status = "INIT_READ" /\ reader = [buf |-> <<>>, len |-> 0]
        /\ reader_v = [buf |-> <<>>, lens |-> <<>>]
        /\ header_data = [size |-> 0, data_1 |-> 0, stop |-> FALSE]
        /\ mem = "none" /\ msg = <<>> /\ in_status = "open" /\ got = <<>>
        /\ sock = [buf |-> <<>>, eof |-> FALSE, hup |-> FALSE]
        /\ supplied = <<>> /\ fault \in BOOLEAN
    BY DEF Init, mtc_reader_init, mtc_reader_v_init
  <1>2. TypeOK /\ got \in Seq(Messages)
    <2>1. /\ <<>> \in Seq(PeerUnit) /\ <<>> \in Seq(Nat) /\ <<>> \in Seq(Nat \ {0})
          /\ <<>> \in Seq(Shapes) /\ <<>> \in Seq(Messages)
      OBVIOUS
    <2>2. /\ reader \in [buf : Seq(PeerUnit), len : Nat]
          /\ reader_v \in [buf : Seq(PeerUnit), lens : Seq(Nat)]
          /\ header_data \in [size : Nat, data_1 : Nat, stop : BOOLEAN]
          /\ sock \in [buf : Seq(PeerUnit), eof : BOOLEAN, hup : BOOLEAN]
      BY <1>1, <2>1
    <2> QED  BY <1>1, <2>1, <2>2 DEF TypeOK
  <1>3. Phases
    BY <1>1 DEF Phases
  <1>4. Rest = <<>>
    <2>1. Partial = <<>>
      BY <1>1, PartialFacts
    <2> QED  BY <1>1, <2>1 DEF Rest
  <1>5. Due(supplied, Len(got)) = <<>>
    <2>1. supplied \in Seq(Shapes) /\ Len(got) = Len(supplied)
      BY <1>1
    <2> QED  BY <2>1, DueNone
  <1>6. ReceivedIsSent
    BY <1>1 DEF ReceivedIsSent
  <1> QED  BY <1>2, <1>3, <1>4, <1>5, <1>6

(* ... is in its invariant.                                                *)
LEMMA RecvInit == PeerInit => RecvInv
  <1> SUFFICES ASSUME PeerInit PROVE RecvInv
    OBVIOUS
  <1>1. /\ Init /\ supplied = <<>> /\ fault = FALSE
        /\ in_status = "open" /\ sock.eof = FALSE
    BY DEF PeerInit, Init
  <1>2. /\ TypeOK /\ got \in Seq(Messages) /\ Phases /\ ReceivedIsSent
        /\ Rest = <<>> /\ Due(supplied, Len(got)) = <<>>
    BY <1>1, FreshFacts
  <1>3. InStream
    BY <1>2 DEF InStream, Begins
  <1> QED  BY <1>1, <1>2, <1>3 DEF RecvInv, BreaksForAReason

(* mtc_fd_link_receive.                                                    *)
LEMMA ReceiveKeeps ==
  ASSUME RecvInv, Receive, fault' = (fault \/ ~Clean!Next), supplied' = supplied
  PROVE  RecvInv'
  <1>1. TypeOK /\ Phases /\ InStream /\ ReceivedIsSent /\ in_status = "open" /\ Alive
    BY DEF RecvInv, Receive, Alive
  <1>2. fault' \in BOOLEAN
    OBVIOUS
  <1>3. ReadStep
    BY <1>1, <1>2, ReceiveStep
  <1>4. TypeOK' /\ sock'.eof = sock.eof /\ (Kept \/ Done \/ GivenUp)
    BY <1>3 DEF ReadStep
  <1>5. sock'.eof => fault'
    BY <1>4 DEF RecvInv
  <1>6. CASE Kept
    <2>1. in_status' = "open" /\ got' = got /\ Rest' = Rest /\ Phases'
      BY <1>6 DEF Kept
    <2>2. InStream'
      BY <1>1, <1>4, <2>1 DEF InStream
    <2>3. ReceivedIsSent' /\ got' \in Seq(Messages)
      BY <2>1 DEF ReceivedIsSent, RecvInv
    <2> QED  BY <1>4, <1>5, <2>1, <2>2, <2>3 DEF RecvInv, BreaksForAReason
  <1>7. CASE Done
    <2>1. got' \in Seq(Messages) /\ Phases' /\ InStream' /\ ReceivedIsSent'
      BY <1>1, <1>4, <1>7, DoneKeeps
    <2>2. in_status' \in {"open", "stopped"}
      BY <1>7 DEF Done
    <2> QED  BY <1>4, <1>5, <2>1, <2>2 DEF RecvInv, BreaksForAReason
  <1>8. CASE GivenUp
    <2>1. in_status' = "broken" /\ got' = got
      BY <1>8 DEF GivenUp
    <2>2. Phases' /\ InStream'
      BY <2>1 DEF Phases, InStream, Alive
    <2>3. ReceivedIsSent' /\ got' \in Seq(Messages)
      BY <2>1 DEF ReceivedIsSent, RecvInv
    <2>4. BreaksForAReason'
      <3>1. CASE fault'
        BY <3>1 DEF BreaksForAReason
      <3>2. CASE ~fault'
        <4>1. ~fault /\ Clean!Next
          BY <3>2
        <4>2. ~sock.eof
          BY <4>1 DEF RecvInv
        <4>3. Reading
          BY <1>1 DEF RecvInv, Reading, InStream, Begins
        <4>4. Len(got) < Len(supplied) /\ ~Good(supplied[Len(got) + 1])
          BY <1>1, <2>1, <4>1, <4>2, <4>3, BreakIsJustified
        <4> QED  BY <2>1, <4>4 DEF BreaksForAReason
      <3> QED  BY <3>1, <3>2
    <2> QED  BY <1>4, <1>5, <2>1, <2>2, <2>3, <2>4 DEF RecvInv
  <1> QED  BY <1>4, <1>6, <1>7, <1>8

(* What is held depends on the state of the reading only.                  *)
LEMMA SameHeld ==
  ASSUME UNCHANGED <<read_status, reader, reader_v, header_data, mem, msg>>
  PROVE  /\ Partial' = Partial
         /\ Phases /\ Alive => (Alive' => Phases')
  <1>1. Partial' = Partial
    BY DEF Partial, Word2
  <1>2. InHeader' = InHeader /\ InSimple' = InSimple /\ InIndex' = InIndex /\ InData' = InData
    BY DEF InHeader, InSimple, InIndex, InData
  <1>3. ASSUME Phases, Alive PROVE Phases'
    BY <1>2, <1>3 DEF Phases
  <1> QED  BY <1>1, <1>3

(* Whatever the peer does, and however the stream grows, disturbs nothing  *)
(* that the receiver has.                                                  *)
LEMMA QuietRecv ==
  ASSUME TypeOK, got \in Seq(Messages), Phases, ReceivedIsSent, UNCHANGED recvVars,
         sock' \in [buf : Seq(PeerUnit), eof : BOOLEAN, hup : BOOLEAN],
         fault' \in BOOLEAN, supplied' \in Seq(Shapes), Len(supplied) <= Len(supplied'),
         \A k \in 1..Len(supplied) : supplied'[k] = supplied[k]
  PROVE  /\ TypeOK' /\ got' \in Seq(Messages) /\ Phases' /\ ReceivedIsSent'
         /\ got' = got /\ Partial' = Partial /\ (Alive' <=> Alive)
  <1>1. UNCHANGED <<read_status, reader, reader_v, header_data, mem, msg, in_status, got>>
    BY DEF recvVars
  <1>2. Alive' <=> Alive
    BY <1>1 DEF Alive
  <1>3. Partial' = Partial /\ Phases'
    <2>1. Partial' = Partial /\ (Phases /\ Alive => (Alive' => Phases'))
      BY <1>1, SameHeld
    <2>2. ~Alive => Phases'
      BY <1>2 DEF Phases
    <2> QED  BY <1>2, <2>1, <2>2
  <1>4. TypeOK'
    BY <1>1 DEF TypeOK
  <1>5. ReceivedIsSent'
    <2>1. supplied \in Seq(Shapes) /\ Len(supplied) \in Nat /\ Len(got) \in Nat
          /\ Len(supplied') \in Nat
      BY DEF TypeOK
    <2>2. Len(got) <= Len(supplied)
      BY DEF ReceivedIsSent
    <2>3. \A k \in 1..Len(got) : k \in 1..Len(supplied) /\ supplied'[k] = supplied[k]
      BY <2>1, <2>2
    <2>4. \A k \in 1..Len(got) : Good(supplied[k]) /\ got[k] = Message(supplied[k], k)
      BY DEF ReceivedIsSent
    <2>5. Len(got') <= Len(supplied')
      BY <1>1, <2>1, <2>2
    <2>6. \A k \in 1..Len(got') :
            Good(supplied'[k]) /\ got'[k] = Message(supplied'[k], k)
      BY <1>1, <2>3, <2>4
    <2> QED  BY <2>5, <2>6 DEF ReceivedIsSent, Good, Message
  <1> QED  BY <1>1, <1>2, <1>3, <1>4, <1>5

(* The application lets a stopped link go on.                              *)
LEMMA ResumeKeeps ==
  ASSUME RecvInv, ResumeIn, fault' = (fault \/ ~Clean!Next), supplied' = supplied
  PROVE  RecvInv'
  <1>1. /\ Alive /\ Alive' /\ in_status' = "open" /\ got' = got /\ sock' = sock
        /\ UNCHANGED <<read_status, reader, reader_v, header_data, mem, msg>>
    BY DEF ResumeIn, Alive
  <1>2. fault' \in BOOLEAN
    OBVIOUS
  <1>3. TypeOK'
    BY <1>1, <1>2 DEF RecvInv, TypeOK
  <1>4. Phases' /\ Rest' = Rest
    BY <1>1, SameHeld DEF RecvInv, Rest
  <1>5. InStream'
    BY <1>1, <1>4 DEF RecvInv, InStream
  <1> QED  BY <1>1, <1>3, <1>4, <1>5 DEF RecvInv, ReceivedIsSent, BreaksForAReason

(* mtc_fd_link_finalize.                                                   *)
LEMMA FinalizeKeeps ==
  ASSUME RecvInv, Finalize, fault' = (fault \/ ~Clean!Next), supplied' = supplied
  PROVE  RecvInv'
  <1>1. /\ in_status' = "freed" /\ mem' = "none" /\ msg' = <<>> /\ got' = got
        /\ UNCHANGED <<read_status, reader, reader_v, header_data>>
        /\ \E close_fd \in BOOLEAN : sock' = [sock EXCEPT !.hup = @ \/ close_fd]
    BY DEF Finalize
  <1>2. /\ sock' \in [buf : Seq(PeerUnit), eof : BOOLEAN, hup : BOOLEAN]
        /\ sock'.eof = sock.eof
    BY <1>1 DEF RecvInv, TypeOK
  <1>3. fault' \in BOOLEAN
    OBVIOUS
  <1>4. TypeOK'
    BY <1>1, <1>2, <1>3 DEF RecvInv, TypeOK
  <1>5. Phases' /\ InStream'
    BY <1>1 DEF Phases, InStream, Alive
  <1> QED  BY <1>1, <1>2, <1>4, <1>5 DEF RecvInv, ReceivedIsSent, BreaksForAReason

(* The peer writes a frame: the stream grows at its end.                   *)
LEMMA SupplyKeeps ==
  ASSUME RecvInv, NEW f \in Shapes, Supply(f)
  PROVE  RecvInv'
  <1> DEFINE n == Len(got)
             k == Len(supplied) + 1
             fr == Frame(f, k)
             due == Due(supplied, n)
  <1>1. /\ TypeOK /\ Phases /\ supplied \in Seq(Shapes) /\ ReceivedIsSent
        /\ n \in 0..Len(supplied) /\ k \in Nat
        /\ sock \in [buf : Seq(PeerUnit), eof : BOOLEAN, hup : BOOLEAN]
    BY DEF RecvInv, TypeOK, ReceivedIsSent
  <1>2. /\ ~sock.eof /\ supplied' = Append(supplied, f)
        /\ sock' = [sock EXCEPT !.buf = @ \o fr]
        /\ UNCHANGED <<read_status, reader, reader_v, header_data, mem, msg>>
        /\ in_status' = in_status /\ got' = got /\ fault' = fault
    BY DEF Supply, recvVars
  <1>3. fr \in Seq(PeerUnit)
    BY <1>1, FrameFacts
  <1> HIDE DEF fr
  <1>4. /\ sock'.buf = sock.buf \o fr /\ sock'.eof = sock.eof
        /\ sock' \in [buf : Seq(PeerUnit), eof : BOOLEAN, hup : BOOLEAN]
    <2>1. sock.buf \o fr \in Seq(PeerUnit)
      BY <1>1, <1>3, ConcatProperties
    <2> QED  BY <1>1, <1>2, <2>1
  <1>5. /\ supplied' \in Seq(Shapes) /\ Len(supplied') = Len(supplied) + 1
        /\ \A i \in 1..Len(supplied) : supplied'[i] = supplied[i]
    BY <1>1, <1>2, AppendProperties
  <1>6. TypeOK'
    BY <1>1, <1>2, <1>4, <1>5 DEF TypeOK
  <1>7. Alive' = Alive /\ Partial' = Partial
    BY <1>2, SameHeld DEF Alive
  <1>8. Phases'
    <2>1. CASE Alive
      BY <1>1, <1>2, <1>7, <2>1, SameHeld
    <2>2. CASE ~Alive
      BY <1>7, <2>2 DEF Phases
    <2> QED  BY <2>1, <2>2
  <1>9. InStream'
    <2> SUFFICES ASSUME Alive PROVE Begins(Rest', Due(supplied', Len(got')), ~sock'.eof)
      BY <1>7 DEF InStream
    <2> DEFINE held == Partial
               buf == sock.buf
               new == buf \o fr
               old == held \o buf
    <2>1. held \in Seq(PeerUnit) /\ buf \in Seq(PeerUnit)
      BY <1>1, PartialType
    <2>2. old = due
      BY <1>2 DEF RecvInv, InStream, Begins, Rest
    <2>3. Due(supplied', Len(got')) = due \o fr
      BY <1>1, <1>2, DueGrows DEF fr
    <2>4. Rest' = held \o new
      BY <1>4, <1>7 DEF Rest
    <2>5. \A t \in Seq(PeerUnit), w \in Seq(PeerUnit) : held \o (t \o w) = (held \o t) \o w
      <3> HIDE DEF held
      <3> QED  BY <2>1, Reassociate
    <2>6. Rest' = due \o fr
      <3> HIDE DEF held, buf, due
      <3>1. held \o (buf \o fr) = (held \o buf) \o fr
        BY ONLY <1>3, <2>1, <2>5
      <3> QED  BY <2>2, <2>4, <3>1
    <2> DEFINE all == due \o fr
    <2>7. all \in Seq(PeerUnit)
      <3>1. due \in Seq(PeerUnit)
        BY <1>1, FramesType
      <3> HIDE DEF due
      <3> QED  BY <1>3, <3>1, ConcatProperties
    <2>8. Rest' = all /\ Due(supplied', Len(got')) = all
      BY <2>3, <2>6
    <2> HIDE DEF all
    <2>9. Begins(all, all, ~sock'.eof)
      BY <2>7 DEF Begins
    <2> QED  BY <2>8, <2>9
  <1>10. ReceivedIsSent'
    <2>1. Len(got') <= Len(supplied')
      BY <1>1, <1>2, <1>5
    <2>2. ASSUME NEW i \in 1..Len(got')
          PROVE  Good(supplied'[i]) /\ got'[i] = Message(supplied'[i], i)
      <3>1. i \in 1..Len(got) /\ i \in 1..Len(supplied)
        BY <1>1, <1>2
      <3> QED  BY <1>1, <1>2, <1>5, <3>1 DEF ReceivedIsSent
    <2> QED  BY <2>1, <2>2 DEF ReceivedIsSent
  <1>11. BreaksForAReason'
    <2> SUFFICES ASSUME in_status' = "broken", ~fault'
                 PROVE  Len(got') < Len(supplied') /\ ~Good(supplied'[Len(got') + 1])
      BY DEF BreaksForAReason
    <2>1. Len(got) < Len(supplied) /\ ~Good(supplied[Len(got) + 1])
      BY <1>2 DEF RecvInv, BreaksForAReason
    <2>2. Len(got) + 1 \in 1..Len(supplied) /\ Len(got) < Len(supplied) + 1
      BY <1>1, <2>1
    <2> QED  BY <1>2, <1>5, <2>1, <2>2
  <1> QED  BY <1>2, <1>4, <1>6, <1>8, <1>9, <1>10, <1>11 DEF RecvInv

(* The peer dies: the stream ends early.                                   *)
LEMMA PeerDiesKeeps ==
  ASSUME RecvInv, PeerDies
  PROVE  RecvInv'
  <1>1. /\ TypeOK /\ Phases /\ ReceivedIsSent /\ got \in Seq(Messages)
        /\ sock \in [buf : Seq(PeerUnit), eof : BOOLEAN, hup : BOOLEAN]
        /\ Len(sock.buf) \in Nat
    BY DEF RecvInv, TypeOK
  <1>2. PICK n \in 0..Len(sock.buf) :
          sock' = [sock EXCEPT !.buf = SubSeq(@, 1, n), !.eof = TRUE]
    BY DEF PeerDies
  <1>3. /\ UNCHANGED <<read_status, reader, reader_v, header_data, mem, msg>>
        /\ in_status' = in_status /\ got' = got /\ fault' = TRUE /\ supplied' = supplied
    BY DEF PeerDies, recvVars
  <1> DEFINE buf == sock.buf
             cut == SubSeq(buf, 1, n)
  <1>4. cut \in Seq(PeerUnit) /\ Len(cut) = n /\ \A i \in 1..n : cut[i] = buf[i]
    BY <1>1
  <1> HIDE DEF cut
  <1>5. /\ sock'.buf = cut /\ sock'.eof = TRUE
        /\ sock' \in [buf : Seq(PeerUnit), eof : BOOLEAN, hup : BOOLEAN]
    BY <1>1, <1>2, <1>4 DEF cut
  <1>6. TypeOK'
    BY <1>1, <1>3, <1>5 DEF TypeOK
  <1>7. Alive' = Alive /\ Partial' = Partial
    BY <1>3, SameHeld DEF Alive
  <1>8. Phases'
    <2>1. CASE Alive
      BY <1>1, <1>3, <1>7, <2>1, SameHeld
    <2>2. CASE ~Alive
      BY <1>7, <2>2 DEF Phases
    <2> QED  BY <2>1, <2>2
  <1>9. InStream'
    <2> SUFFICES ASSUME Alive PROVE Begins(Rest', Due(supplied', Len(got')), ~sock'.eof)
      BY <1>7 DEF InStream
    <2> DEFINE held == Partial
               due == Due(supplied, Len(got))
               old == held \o buf
               new == held \o cut
    <2>1. held \in Seq(PeerUnit) /\ buf \in Seq(PeerUnit)
      BY <1>1, PartialType
    <2>2. Len(old) <= Len(due) /\ \A i \in 1..Len(old) : old[i] = due[i]
      BY DEF RecvInv, InStream, Begins, Rest
    <2>3. Len(due) \in Nat
      <3>1. supplied \in Seq(Shapes) /\ Len(got) \in 0..Len(supplied)
        BY <1>1 DEF TypeOK, ReceivedIsSent
      <3>2. due \in Seq(PeerUnit)
        BY <3>1, FramesType
      <3> HIDE DEF due
      <3> QED  BY <3>2
    <2>4. Rest' = new
      BY <1>5, <1>7 DEF Rest
    <2> HIDE DEF held, buf, due
    <2>5. /\ Len(old) = Len(held) + Len(buf)
          /\ \A i \in 1..Len(held) : old[i] = held[i]
          /\ \A i \in 1..Len(buf) : old[Len(held) + i] = buf[i]
      <3>1. old = held \o buf
        OBVIOUS
      <3> HIDE DEF old
      <3> QED  BY ONLY <2>1, <3>1, Joins
    <2>6. /\ Len(new) = Len(held) + n
          /\ \A i \in 1..Len(held) : new[i] = held[i]
          /\ \A i \in 1..n : new[Len(held) + i] = cut[i]
      <3>1. new = held \o cut /\ held \in Seq(PeerUnit) /\ cut \in Seq(PeerUnit)
        BY <1>4, <2>1
      <3> HIDE DEF new
      <3>2. /\ Len(new) = Len(held) + Len(cut)
            /\ \A i \in 1..Len(held) : new[i] = held[i]
            /\ \A i \in 1..Len(cut) : new[Len(held) + i] = cut[i]
        BY ONLY <3>1, Joins
      <3> QED  BY <1>4, <3>2
    <2>7. Len(held) \in Nat /\ Len(buf) \in Nat /\ n \in Nat /\ n <= Len(buf)
      BY <2>1, <1>2 DEF buf
    <2> HIDE DEF old, new
    <2>8. Len(new) <= Len(due)
      BY <2>2, <2>3, <2>5, <2>6, <2>7
    <2>9. \A i \in 1..Len(new) : new[i] = due[i]
      <3> TAKE i \in 1..Len(new)
      <3>1. i \in 1..Len(old) /\ old[i] = due[i]
        BY <2>2, <2>5, <2>6, <2>7
      <3>2. CASE i <= Len(held)
        <4>1. i \in 1..Len(held)
          BY <3>2, <2>6, <2>7
        <4> QED  BY <2>5, <2>6, <3>1, <4>1
      <3>3. CASE ~(i <= Len(held))
        <4> DEFINE j == i - Len(held)
        <4>1. j \in 1..n /\ j \in 1..Len(buf) /\ Len(held) + j = i
          BY <3>3, <2>6, <2>7
        <4> HIDE DEF j
        <4>2. new[i] = cut[j] /\ old[i] = buf[j] /\ cut[j] = buf[j]
          BY <1>4, <2>5, <2>6, <4>1
        <4> QED  BY <3>1, <4>2
      <3> QED  BY <3>2, <3>3
    <2>10. Begins(new, due, ~sock'.eof)
      BY <1>5, <2>8, <2>9 DEF Begins
    <2> QED  BY <1>3, <2>4, <2>10 DEF due
  <1> QED  BY <1>1, <1>3, <1>5, <1>6, <1>8, <1>9 DEF RecvInv, ReceivedIsSent, BreaksForAReason

(* A step of the receiver or of its peer keeps the invariant.              *)
LEMMA RecvNext == RecvInv /\ [PeerNext]_peerVars => RecvInv'
  <1> SUFFICES ASSUME RecvInv, [PeerNext]_peerVars PROVE RecvInv'
    OBVIOUS
  <1>1. CASE Next /\ fault' = (fault \/ ~Clean!Next) /\ UNCHANGED supplied
    <2>1. Receive \/ ResumeIn \/ Finalize
      BY <1>1 DEF Next
    <2> QED  BY <1>1, <2>1, ReceiveKeeps, ResumeKeeps, FinalizeKeeps
  <1>2. CASE \E f \in Shapes : Supply(f)
    BY <1>2, SupplyKeeps
  <1>3. CASE PeerDies
    BY <1>3, PeerDiesKeeps
  <1>4. CASE UNCHANGED peerVars
    <2>1. /\ UNCHANGED <<read_status, reader, reader_v, header_data, mem, msg>>
          /\ in_status' = in_status /\ got' = got /\ sock' = sock
          /\ supplied' = supplied /\ fault' = fault
      BY <1>4 DEF peerVars, vars, recvVars
    <2>2. TypeOK'
      BY <2>1 DEF RecvInv, TypeOK
    <2>3. Alive' = Alive /\ Partial' = Partial /\ Rest' = Rest
      BY <2>1, SameHeld DEF Alive, Rest
    <2>4. Phases'
      <3>1. CASE Alive
        BY <2>1, <2>3, <3>1, SameHeld DEF RecvInv
      <3>2. CASE ~Alive
        BY <2>3, <3>2 DEF Phases
      <3> QED  BY <3>1, <3>2
    <2>5. InStream'
      BY <2>1, <2>3 DEF RecvInv, InStream
    <2> QED  BY <2>1, <2>2, <2>4, <2>5 DEF RecvInv, ReceivedIsSent, BreaksForAReason
  <1> QED  BY <1>1, <1>2, <1>3, <1>4 DEF PeerNext

-----------------------------------------------------------------------------
(* What the invariant is for.                                              *)

(* Whatever the peer sends and wherever the reads cut it, the receiver     *)
(* stays in its invariant.                                                 *)
THEOREM RecvInvariant == PeerSpec => []RecvInv
  <1> QED  BY RecvInit, RecvNext, PTL DEF PeerSpec

(* The state of the receiver keeps its types, and a size that is kept is   *)
(* never 0.                                                                *)
THEOREM RecvTypes == PeerSpec => []TypeOK
  <1>1. RecvInv => TypeOK
    BY DEF RecvInv
  <1> QED  BY <1>1, RecvInvariant, PTL

(* What is returned is what was sent: the k-th message is the k-th frame,  *)
(* with its sizes, its stop signal and every byte of its blocks in place.  *)
THEOREM OnlySentIsReceived == PeerSpec => []ReceivedIsSent
  <1>1. RecvInv => ReceivedIsSent
    BY DEF RecvInv
  <1> QED  BY <1>1, RecvInvariant, PTL

(* The link is broken by a fault, or by a frame that is not well formed at *)
(* the very place where the receiver stands.                               *)
THEOREM BrokenByFaultOrFrame == PeerSpec => []BreaksForAReason
  <1>1. RecvInv => BreaksForAReason
    BY DEF RecvInv
  <1> QED  BY <1>1, RecvInvariant, PTL

(* No unit of the stream is lost, kept twice or read past the end of its   *)
(* message.                                                                *)
THEOREM StreamIsConserved == PeerSpec => []StreamConserved
  <1>1. RecvInv => StreamConserved
    <2> SUFFICES ASSUME RecvInv, Alive
                 PROVE  /\ IsPrefix(Rest, Due(supplied, Len(got)))
                        /\ ~sock.eof => Rest = Due(supplied, Len(got))
      BY DEF StreamConserved, Alive, Rest, Due, Frames
    <2> DEFINE due == Due(supplied, Len(got))
               rest == Rest
    <2>1. Begins(rest, due, ~sock.eof)
      BY DEF RecvInv, InStream
    <2>2. rest \in Seq(PeerUnit)
      <3> DEFINE held == Partial
                 buf == sock.buf
      <3>1. held \in Seq(PeerUnit) /\ buf \in Seq(PeerUnit)
        BY PartialType DEF RecvInv, TypeOK
      <3>2. rest = held \o buf
        BY DEF Rest
      <3> HIDE DEF held, buf, rest
      <3> QED  BY <3>1, <3>2, ConcatProperties
    <2>3. due \in Seq(PeerUnit)
      <3>1. supplied \in Seq(Shapes) /\ Len(got) \in 0..Len(supplied)
        BY DEF RecvInv, TypeOK, ReceivedIsSent
      <3> QED  BY <3>1, FramesType
    <2> HIDE DEF due, rest
    <2>4. Len(rest) <= Len(due) /\ \A i \in 1..Len(rest) : rest[i] = due[i]
      BY <2>1 DEF Begins
    <2>5. IsPrefix(rest, due)
      <3> DEFINE a == SubSeq(rest, 1, Len(rest))
                 b == SubSeq(due, 1, Len(rest))
      <3>1. Len(rest) \in Nat /\ Len(due) \in Nat
        BY <2>2, <2>3
      <3>2. /\ a \in Seq(PeerUnit) /\ Len(a) = Len(rest)
            /\ \A i \in 1..Len(rest) : a[i] = rest[i]
        BY <2>2, <3>1
      <3>3. /\ b \in Seq(PeerUnit) /\ Len(b) = Len(rest)
            /\ \A i \in 1..Len(rest) : b[i] = due[i]
        BY <2>3, <2>4, <3>1
      <3> HIDE DEF a, b
      <3>4. a = b
        BY <2>4, <3>2, <3>3, SeqEqual
      <3> QED  BY <2>4, <3>4 DEF IsPrefix, a, b
    <2> QED  BY <2>1, <2>5 DEF Begins, due, rest
  <1> QED  BY <1>1, RecvInvariant, PTL

(* Between two reads the additional buffer and the unfinished message      *)
(* exist exactly in the phases that use them, and there is room for more.  *)
THEOREM PhasesHold == PeerSpec => []HeldByPhase
  <1>1. RecvInv => HeldByPhase
    <2> SUFFICES ASSUME RecvInv, Alive PROVE HeldByPhase
      BY DEF HeldByPhase, Alive
    <2>1. /\ read_status \in {"INIT_READ", "HDR", "SIMPLE", "IDX", "DATA"} /\ Phases
      BY DEF RecvInv, TypeOK
    <2>2. CASE read_status = "INIT_READ"
      BY <2>1, <2>2 DEF Phases, HeldByPhase
    <2>3. CASE read_status = "HDR"
      BY <2>1, <2>3 DEF Phases, InHeader, HeldByPhase
    <2>4. CASE read_status = "SIMPLE"
      <3>1. InSimple
        BY <2>1, <2>4 DEF Phases
      <3>2. msg # <<>>
        BY <3>1 DEF InSimple
      <3> QED  BY <2>4, <3>1, <3>2 DEF InSimple, HeldByPhase
    <2>5. CASE read_status = "IDX"
      BY <2>1, <2>5 DEF Phases, InIndex, HeldByPhase
    <2>6. CASE read_status = "DATA"
      <3>1. InData
        BY <2>1, <2>6 DEF Phases
      <3>2. msg # <<>>
        <4>1. Len(msg) >= 2
          BY <3>1, StopBitAssumption DEF InData
        <4> QED  BY <4>1
      <3>3. reader_v.lens[1] > 0
        <4>1. reader_v.lens \in Seq(Nat \ {0}) /\ reader_v.lens # <<>>
          BY <3>1 DEF InData
        <4> DEFINE lens == reader_v.lens
        <4>2. lens \in Seq(Nat \ {0}) /\ lens # <<>>
          BY <4>1
        <4> HIDE DEF lens
        <4>3. lens[1] \in Nat \ {0}
          BY <4>2
        <4> QED  BY <4>3 DEF lens
      <3> QED  BY <2>6, <3>1, <3>2, <3>3 DEF InData, HeldByPhase
    <2> QED  BY <2>1, <2>2, <2>3, <2>4, <2>5, <2>6
  <1> QED  BY <1>1, RecvInvariant, PTL

(* The change of an unfinished message and of the additional buffer that   *)
(* NothingLost allows.                                                     *)
Keeps ==
  /\ msg # <<>> /\ msg' # msg =>
          msg' = <<>> /\ (in_status' = "freed" \/ Len(got') = Len(got) + 1)
  /\ mem # "none" /\ mem' # mem =>
          \/ mem = "index" /\ mem' = "iovec" /\ Len(msg') = header_data.size
          \/ mem' = "none" /\ msg' = <<>>
  /\ in_status' = "freed" => mem' = "none" /\ msg' = <<>>

(* A read loses nothing.                                                   *)
LEMMA ReadKeeps ==
  ASSUME RecvInv, Receive, supplied' = supplied, fault' \in BOOLEAN
  PROVE  Keeps
  <1>1. TypeOK /\ Phases /\ in_status = "open" /\ Alive /\ got \in Seq(Messages)
    BY DEF RecvInv, Receive, Alive
  <1>2. ReadStep
    BY <1>1, ReceiveStep
  <1>3. in_status' # "freed"
    BY <1>2 DEF ReadStep, Kept, Done, GivenUp
  <1>4. ASSUME NEW data, NEW next, ReturnMsgThen(data, next)
        PROVE  msg' = <<>> /\ Len(got') = Len(got) + 1
    BY <1>1, <1>4, AppendProperties DEF ReturnMsgThen
  <1>5. CASE ReadHeader
    <2>1. mem = "none" /\ msg = <<>>
      BY <1>1, <1>5 DEF ReadHeader, Phases, InHeader
    <2> QED  BY <1>3, <2>1 DEF Keeps
  <1>6. CASE ReadSimple
    <2>1. mem = "none"
      BY <1>1, <1>6 DEF ReadSimple, Phases, InSimple
    <2>2. msg' = msg \/ (msg' = <<>> /\ Len(got') = Len(got) + 1)
      BY <1>4, <1>6 DEF ReadSimple, BailOut, ReturnMsg
    <2> QED  BY <1>3, <2>1, <2>2 DEF Keeps
  <1>7. CASE ReadIndex
    <2>1. InIndex /\ read_status = "IDX"
      BY <1>1, <1>7 DEF ReadIndex, Phases
    <2>2. \/ mem' = mem
          \/ /\ mem' = "iovec" /\ read_status' = "DATA" /\ in_status' = in_status
             /\ header_data' = header_data
      BY <1>7 DEF ReadIndex, BailOut, Fail, IndexAccepted
    <2>3. ASSUME mem' = "iovec", read_status' = "DATA", in_status' = in_status,
                 header_data' = header_data
          PROVE  Len(msg') = header_data.size
      <3>1. Phases'
        BY <1>1, <1>2, <2>3 DEF ReadStep, Kept, Done, GivenUp
      <3>2. InData'
        BY <1>1, <2>3, <3>1 DEF Phases, Alive
      <3> QED  BY <2>3, <3>2 DEF InData
    <2> QED  BY <1>3, <2>1, <2>2, <2>3 DEF Keeps, InIndex
  <1>8. CASE ReadData
    <2>1. mem = "iovec" /\ mem' = "none" => msg' = <<>>
      BY <1>4, <1>8 DEF ReadData, BailOut, ReturnMsg
    <2>2. \/ mem' = mem /\ msg' = msg
          \/ mem' = "none" /\ msg' = <<>> /\ Len(got') = Len(got) + 1
      BY <1>4, <1>8 DEF ReadData, BailOut, ReturnMsg
    <2> QED  BY <1>3, <2>2 DEF Keeps
  <1> QED  BY <1>5, <1>6, <1>7, <1>8 DEF Receive

(* Nothing that was allocated is overwritten, or dropped by anything but   *)
(* the return of its message, its conversion to the IO vector and          *)
(* mtc_fd_link_finalize; after the latter nothing is left.                 *)
THEOREM AllocatedIsKept == PeerSpec => NothingLost
  <1>1. RecvInv /\ RecvInv' /\ [PeerNext]_peerVars => [Keeps]_vars
    <2> SUFFICES ASSUME RecvInv, RecvInv', [PeerNext]_peerVars, ~(UNCHANGED vars)
                 PROVE  Keeps
      OBVIOUS
    <2>1. in_status' = "freed" => mem' = "none" /\ msg' = <<>>
      BY DEF RecvInv
    <2>2. CASE Next /\ fault' = (fault \/ ~Clean!Next) /\ UNCHANGED supplied
      <3>1. fault' \in BOOLEAN /\ supplied' = supplied
        BY <2>2
      <3>2. CASE Receive
        BY <3>1, <3>2, ReadKeeps
      <3>3. CASE ResumeIn
        BY <2>1, <3>3 DEF ResumeIn, Keeps
      <3>4. CASE Finalize
        BY <2>1, <3>4 DEF Finalize, Keeps
      <3> QED  BY <2>2, <3>2, <3>3, <3>4 DEF Next
    <2>3. CASE \E f \in Shapes : Supply(f)
      BY <2>1, <2>3 DEF Supply, recvVars, Keeps
    <2>4. CASE PeerDies
      BY <2>1, <2>4 DEF PeerDies, recvVars, Keeps
    <2> QED  BY <2>2, <2>3, <2>4 DEF PeerNext, peerVars
  <1> QED  BY <1>1, RecvInvariant, PTL DEF PeerSpec, NothingLost, Keeps

=============================================================================
