------------------------------ MODULE MCMtcIo ------------------------------
(***************************************************************************)
(* The header functions, the vector loops and the readers, on a vector of  *)
(* blocks that one stream of bytes is moved through in pieces of every     *)
(* size: mtc_fd_link_pop_iov writes it out, mtc_reader_v_read reads it into*)
(* the blocks, and mtc_reader_read reads it into one block of the same     *)
(* total size.                                                             *)
(***************************************************************************)
EXTENDS MtcHeader, MtcIo, FiniteSets

CONSTANTS MaxLen, MaxBlocks

ASSUME BoundAssumption == MaxLen \in Nat /\ MaxBlocks \in Nat

VARIABLES
  lens,    \* the sizes of the blocks at the beginning
  popped,  \* what is left of them in the IO vector of the sender
  rv,      \* the MtcReaderV of the receiver, and its last result
  r        \* the MtcReader, and its last result

Total == Through(lens)[Len(lens)]
Moved == Len(r.reader.buf)

Init ==
  /\ lens \in UNION {[1..n -> 0..MaxLen] : n \in 1..MaxBlocks}
  /\ lens[1] > 0  \* a header, or the main block
  /\ popped = lens
  /\ rv = [reader |-> mtc_reader_v_init(lens), io |-> MTC_IO_TEMP]
  /\ r = [reader |-> mtc_reader_init(Total), io |-> MTC_IO_TEMP]

Move(n) ==
  LET units == [i \in 1..n |-> Moved + i]
  IN  /\ popped' = ConsumeRest(popped, n)
      /\ rv' = mtc_reader_v_read(rv.reader, Data(units))
      /\ r' = mtc_reader_read(r.reader, Data(units))
      /\ UNCHANGED lens

Fails(answer) ==
  /\ rv' = mtc_reader_v_read(rv.reader, answer)
  /\ r' = mtc_reader_read(r.reader, answer)
  /\ UNCHANGED <<lens, popped>>

Next ==
  \/ \E n \in 1..(Total - Moved) : Move(n)
  \/ \E answer \in {Temp, Eof, Severe} : Moved < Total /\ Fails(answer)

Spec == Init /\ [][Next]_<<lens, popped, rv, r>>

(* What moving the first m bytes leaves of the blocks: those that reach    *)
(* past byte m, the first of them without what lies before it.             *)
Rest(m) ==
  LET done == Cardinality({b \in 1..Len(lens) : Through(lens)[b] <= m})
  IN  [i \in 1..(Len(lens) - done) |->
         IF i = 1 THEN Through(lens)[done + 1] - m ELSE lens[done + i]]

(* HeaderCarries for every message, those with the stop bit set by their   *)
(* count and with truncated sizes among them (fd_link.c:78, 103).          *)
AllHeadersCarry == \A stop \in BOOLEAN : HeaderCarries(lens, stop)

(* Pieces add up: the IO vector after any sequence of short writes is what *)
(* one write of the same bytes leaves, without a finished or an empty      *)
(* block at its head, so that mtc_fd_link_send never hands writev a vector *)
(* it cannot move anything of (fd_link.c:230).                             *)
PopAddsUp == popped = Rest(Moved)

(* The same for the vector of the receiver, if no block is empty: the      *)
(* reason why a size of zero in a received index breaks the link.  And,    *)
(* whatever the pieces and the errors between them, both readers say the   *)
(* same and have stored the same, and say MTC_IO_OK exactly when all of it *)
(* is there (io.c:39, 83, 106, fd_link.c:598).                             *)
NoEmptyBlock == \A b \in 1..Len(lens) : lens[b] > 0
ReadersAgree ==
  NoEmptyBlock =>
    /\ rv.reader.lens = Rest(Moved)
    /\ rv.io = r.io /\ rv.reader.buf = r.reader.buf
    /\ r.reader.buf = [i \in 1..Moved |-> i]
    /\ (r.io = MTC_IO_OK) = (Moved = Total)

=============================================================================
