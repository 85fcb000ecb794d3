------------------------------- MODULE MtcIo -------------------------------
(***************************************************************************)
(* The readers of io.c and the vector bookkeeping they share with the      *)
(* sending side of fd_link.c.                                              *)
(*                                                                         *)
(* read(2), readv(2) and writev(2) are external.  An ANSWER is what one    *)
(* call of read or readv gives: some units, end of file, or an errno that  *)
(* MTC_IO_TEMP_ERROR accepts ("temp") or not ("severe").                   *)
(***************************************************************************)
EXTENDS Integers, Sequences, SequencesExt

MTC_IO_OK     == 0
MTC_IO_TEMP   == -1
MTC_IO_EOF    == -2
MTC_IO_SEVERE == -3

Data(units) == [kind |-> "data", units |-> units]
Temp   == [kind |-> "temp",   units |-> <<>>]
Eof    == [kind |-> "eof",    units |-> <<>>]
Severe == [kind |-> "severe", units |-> <<>>]

ErrorStatus(answer) ==
  CASE answer.kind = "temp"   -> MTC_IO_TEMP
    [] answer.kind = "eof"    -> MTC_IO_EOF
    [] answer.kind = "severe" -> MTC_IO_SEVERE

(***************************************************************************)
(* MtcReader: buf is what has been stored in the memory so far, len the    *)
(* room that is left in it.                                                *)
(***************************************************************************)
mtc_reader_init(len) == [buf |-> <<>>, len |-> len]

mtc_reader_read(reader, answer) ==
  IF reader.len = 0
  THEN [reader |-> reader, io |-> MTC_IO_OK]
  ELSE IF answer.kind # "data"
  THEN [reader |-> reader, io |-> ErrorStatus(answer)]
  ELSE LET left == reader.len - Len(answer.units)
       IN  [reader |-> [buf |-> reader.buf \o answer.units, len |-> left],
            io     |-> IF left > 0 THEN MTC_IO_TEMP ELSE MTC_IO_OK]

(***************************************************************************)
(* Moving n bytes into or out of a vector of blocks.  lens holds the bytes *)
(* each block still has.  The loops of the code take blocks from the front *)
(* and subtract their lengths from n: Left(lens, n, k) is what that counter*)
(* holds after k blocks.                                                   *)
(***************************************************************************)
Through(lens) ==
  LET t[i \in 0..Len(lens)] == IF i = 0 THEN 0 ELSE t[i - 1] + lens[i]
  IN  t

Left(lens, n, k) == n - Through(lens)[k]

(* A mutant: the part of a block that is done is not cut off.              *)
DropBlocksWhole(lens, k, r) == [i \in 1..(Len(lens) - k) |-> lens[k + i]]

(* The vector without its first k blocks and the next r bytes.             *)
DropBlocks(lens, k, r) ==
  [i \in 1..(Len(lens) - k) |-> IF i = 1 THEN lens[k + 1] - r ELSE lens[k + i]]

(* A mutant: a block that is just used up is kept.                         *)
StopsLate(lens, n, k) == k = Len(lens) \/ Left(lens, n, k) <= lens[k + 1]

(* The loop of mtc_fd_link_pop_iov, and that of the collection of finished *)
(* jobs in mtc_fd_link_send: it takes blocks while there are any and what  *)
(* is left of n, possibly nothing, covers the next one.                    *)
ConsumeStops(lens, n, k) == k = Len(lens) \/ Left(lens, n, k) < lens[k + 1]

Consumed(lens, n) ==
  CHOOSE k \in 0..Len(lens) :
    /\ ConsumeStops(lens, n, k)
    /\ \A i \in 0..(k - 1) : ~ConsumeStops(lens, n, i)

ConsumeRest(lens, n) ==
  LET k == Consumed(lens, n) IN DropBlocks(lens, k, Left(lens, n, k))

(* The loop of mtc_reader_v_read: it ends as soon as nothing is left of n. *)
FillStops(lens, n, k) == Left(lens, n, k) = 0 \/ Left(lens, n, k) < lens[k + 1]

Filled(lens, n) ==
  CHOOSE k \in 0..Len(lens) :
    /\ FillStops(lens, n, k)
    /\ \A i \in 0..(k - 1) : ~FillStops(lens, n, i)

FillRest(lens, n) ==
  LET k == Filled(lens, n) IN DropBlocks(lens, k, Left(lens, n, k))

(* MtcReaderV: lens is the room left in each block, buf what was stored.   *)
mtc_reader_v_init(lens) == [buf |-> <<>>, lens |-> lens]

mtc_reader_v_read(reader, answer) ==
  IF reader.lens = <<>>
  THEN [reader |-> reader, io |-> MTC_IO_OK]
  ELSE IF answer.kind # "data"
  THEN [reader |-> reader, io |-> ErrorStatus(answer)]
  ELSE LET lens == FillRest(reader.lens, Len(answer.units))
       IN  [reader |-> [buf |-> reader.buf \o answer.units, lens |-> lens],
            io     |-> IF lens # <<>> THEN MTC_IO_TEMP ELSE MTC_IO_OK]

=============================================================================
