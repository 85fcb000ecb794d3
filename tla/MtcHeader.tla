----------------------------- MODULE MtcHeader -----------------------------
(***************************************************************************)
(* The header that MtcFDLink puts before every message.                    *)
(*                                                                         *)
(* The stream of a link is a sequence of UNITS.  A unit is four header     *)
(* bytes (the magic "MTC\0", or one little-endian uint32_t) or one byte of *)
(* a memory block.  Words keep the width of uint32_t: StopBit stands for   *)
(* 1 << 31, so a word lies in 0..(2 * StopBit - 1).                        *)
(***************************************************************************)
EXTENDS Integers, Sequences

CONSTANT StopBit

ASSUME StopBitAssumption == StopBit \in Nat \ {0, 1}

WordLimit == 2 * StopBit

Magic == <<"MTC">>
Word(n) == <<"word", n>>

(* What a header field holds when the unit there is not a header word: no  *)
(* number the model gives a meaning to.                                    *)
ValueOf(unit) == IF unit[1] = "word" THEN unit[2] ELSE 0

(* mtc_header_sizeof: 8 + 4 * size bytes, in units.                        *)
mtc_header_sizeof(size) == 2 + size
mtc_header_min_size == mtc_header_sizeof(1)

(* size |= (1 << 31) on a uint32_t.                                        *)
WithStopBit(size) == IF size < StopBit THEN size + StopBit ELSE size

(* sizes is the sequence of the sizes of the blocks of the message; a size *)
(* is a size_t, cut to 32 bits as it is stored.                            *)
mtc_header_write(sizes, stop) ==
  LET size == IF stop THEN WithStopBit(Len(sizes)) ELSE Len(sizes)
  IN  <<Magic, Word(size)>> \o
        [i \in 1..Len(sizes) |-> Word(sizes[i] % WordLimit)]

(* A mutant: the stop bit is left in the number of blocks.                 *)
HeaderReadUnmasked(buf) ==
  LET word == ValueOf(buf[2])
  IN  [ok     |-> buf[1] = Magic /\ word # 0,
       size   |-> word,
       data_1 |-> ValueOf(buf[3]),
       stop   |-> word \div StopBit = 1]

(* Reads the first mtc_header_min_size units; ok is FALSE for a format     *)
(* error.                                                                  *)
mtc_header_read(buf) ==
  LET word == ValueOf(buf[2])
      size == word % StopBit
  IN  [ok     |-> buf[1] = Magic /\ size # 0,
       size   |-> size,
       data_1 |-> ValueOf(buf[3]),
       stop   |-> word \div StopBit = 1]

-----------------------------------------------------------------------------
(* Does the receiver read back what the sender writes: the number of       *)
(* blocks, the stop signal, the size of the first block, and in the index  *)
(* that follows the size of every other one.                               *)
RoundTrip(sizes, stop) ==
  LET header == mtc_header_write(sizes, stop)
  IN  /\ mtc_header_read(SubSeq(header, 1, mtc_header_min_size))
           = [ok |-> TRUE, size |-> Len(sizes), data_1 |-> sizes[1], stop |-> stop]
      /\ \A b \in 2..Len(sizes) :
           ValueOf(header[mtc_header_min_size + b - 1]) = sizes[b]

(* What a header has room for.                                             *)
FitsHeader(sizes) ==
  /\ Len(sizes) < StopBit
  /\ \A b \in 1..Len(sizes) : sizes[b] < WordLimit

(* A header carries exactly the messages that fit: a count that reaches    *)
(* the stop bit, or a block of WordLimit bytes, is never reported by the   *)
(* sender (fd_link.c:79, 87) but always misread by the receiver.           *)
HeaderCarries(sizes, stop) ==
  sizes # <<>> /\ Len(sizes) < WordLimit =>
    (RoundTrip(sizes, stop) <=> FitsHeader(sizes))

=============================================================================
