----------------------------- MODULE FdLinkRecv -----------------------------
(***************************************************************************)
(* The receiving half of an MtcFDLink: mtc_fd_link_receive, which reads a  *)
(* message in phases and may leave at every read and come back later.      *)
(*                                                                         *)
(* A step is one read or readv and what the code does with its result up   *)
(* to the next one.  A call of mtc_fd_link_receive is some of these steps  *)
(* in a row; each phase saves its status before its read, so what lies     *)
(* between two steps of a call is also what a call may leave behind.       *)
(***************************************************************************)
EXTENDS MtcHeader, MtcIo

CONSTANTS
  IovMax,  \* the most entries readv takes, 0 where there is no limit
  Faults   \* the failures that may happen: "severe" (read, readv), "alloc"
           \* (memory for a received message)

VARIABLES
  read_status,  \* MtcFDLinkReadStatus
  reader,       \* MtcReader of the header, of a single block, of the index
  reader_v,     \* MtcReaderV of the blocks of a message that has several
  header_data,  \* MtcHeaderData
  mem,          \* the additional buffer: "none", "index" or "iovec"
  msg,          \* the sizes of the message being read, <<>> for NULL
  in_status,    \* the status MtcLink keeps, or "freed"
  got,          \* history: what mtc_fd_link_receive has returned
  sock          \* the socket: bytes in it, writer gone, reader gone

recvVars == <<read_status, reader, reader_v, header_data, mem, msg, in_status,
              got>>
vars == <<recvVars, sock>>

Init ==
  /\ read_status = "INIT_READ"
  /\ reader = mtc_reader_init(0) /\ reader_v = mtc_reader_v_init(<<>>)
  /\ header_data = [size |-> 0, data_1 |-> 0, stop |-> FALSE]
  /\ mem = "none" /\ msg = <<>>
  /\ in_status = "open"
  /\ got = <<>>
  /\ sock = [buf |-> <<>>, eof |-> FALSE, hup |-> FALSE]

-----------------------------------------------------------------------------
(* read and readv, on a buffer that has room for some units.               *)
Answers(room) ==
  {Data(SubSeq(sock.buf, 1, n)) : n \in {k \in 1..room : k <= Len(sock.buf)}}
    \cup {Temp}
    \cup (IF sock.buf = <<>> /\ sock.eof THEN {Eof} ELSE {})
    \cup (IF "severe" \in Faults THEN {Severe} ELSE {})

(* readv refuses a vector that is longer than it can take.                 *)
AnswersV(lens) ==
  IF IovMax > 0 /\ Len(lens) > IovMax
  THEN {Severe}
  ELSE Answers(Through(lens)[Len(lens)])

Takes(answer) ==
  sock' = [sock EXCEPT !.buf = SubSeq(@, Len(answer.units) + 1, Len(@))]

(* A mutant: a read that would block breaks the link.                      *)
BailOutAlways(io) ==
  /\ io # MTC_IO_OK
  /\ in_status' = "broken"
  /\ UNCHANGED <<header_data, mem, msg, got>>

(* The end of the function for a read that did not finish its phase; what  *)
(* MtcLink makes of MTC_LINK_IO_FAIL is a broken link.                     *)
BailOut(io) ==
  /\ io # MTC_IO_OK
  /\ in_status' = IF io \in {MTC_IO_SEVERE, MTC_IO_EOF} THEN "broken" ELSE "open"
  /\ UNCHANGED <<header_data, mem, msg, got>>

(* return MTC_LINK_IO_FAIL, in the middle of a phase.                      *)
Fail(phase) ==
  /\ in_status' = "broken"
  /\ read_status' = phase
  /\ UNCHANGED <<reader_v, mem, msg, got>>

(* mtc_msg_try_new_allocd and mtc_tryalloc may return NULL.                *)
AllocMayFail == "alloc" \in Faults

(* return_msg: what was stored in the blocks is the message, the next one  *)
(* begins with the phase next.                                             *)
ReturnMsgThen(data, next) ==
  /\ got' = Append(got, [sizes |-> msg, data |-> data, stop |-> header_data.stop])
  /\ in_status' = IF header_data.stop THEN "stopped" ELSE "open"
  /\ read_status' = next
  /\ msg' = <<>>
  /\ UNCHANGED header_data

(* A mutant: read_status is not set back.                                  *)
ReturnMsgAgain(data) == ReturnMsgThen(data, read_status)
ReturnMsg(data) == ReturnMsgThen(data, "INIT_READ")

-----------------------------------------------------------------------------
(* What mtc_header_read stores.  (Before a format error it may store a part *)
(* of it; the link breaks and nobody looks at it again.)                   *)
HeaderData(h) == [size |-> h.size, data_1 |-> h.data_1, stop |-> h.stop]

HeaderRejected(h) ==
  /\ ~h.ok \/ h.data_1 = 0
  /\ Fail("HDR")

SimpleBegins(h) ==
  /\ h.ok /\ h.data_1 # 0 /\ h.size = 1
  /\ msg' = <<h.data_1>>
  /\ reader' = mtc_reader_init(h.data_1)
  /\ read_status' = "SIMPLE"
  /\ UNCHANGED <<reader_v, mem, in_status, got>>

ComplexBegins(h) ==
  /\ h.ok /\ h.data_1 # 0 /\ h.size # 1
  /\ mem' = "index"
  /\ reader' = mtc_reader_init(h.size - 1)
  /\ read_status' = "IDX"
  /\ UNCHANGED <<reader_v, msg, in_status, got>>

(* A mutant: every call begins the header anew.                            *)
HeaderReaderAnew == mtc_reader_init(mtc_header_min_size)
HeaderReader ==
  IF read_status = "INIT_READ" THEN mtc_reader_init(mtc_header_min_size) ELSE reader

ReadHeader ==
  LET from == HeaderReader
  IN  /\ read_status \in {"INIT_READ", "HDR"}
      /\ \E answer \in Answers(from.len) :
           LET res == mtc_reader_read(from, answer)
               h   == mtc_header_read(res.reader.buf)
           IN  /\ Takes(answer)
               /\ \/ /\ BailOut(res.io)
                     /\ reader' = res.reader
                     /\ read_status' = "HDR"
                     /\ UNCHANGED reader_v
                  \/ /\ res.io = MTC_IO_OK
                     /\ header_data' = IF h.ok THEN HeaderData(h) ELSE header_data
                     /\ \/ HeaderRejected(h) /\ reader' = res.reader
                        \/ SimpleBegins(h) /\ UNCHANGED mem
                        \/ ComplexBegins(h)
                        \/ /\ AllocMayFail /\ h.ok /\ h.data_1 # 0
                           /\ Fail("HDR") /\ reader' = res.reader

ReadSimple ==
  /\ read_status = "SIMPLE"
  /\ \E answer \in Answers(reader.len) :
       LET res == mtc_reader_read(reader, answer)
       IN  /\ Takes(answer)
           /\ reader' = res.reader
           /\ \/ BailOut(res.io) /\ UNCHANGED read_status
              \/ res.io = MTC_IO_OK /\ ReturnMsg(res.reader.buf) /\ UNCHANGED mem
  /\ UNCHANGED reader_v

(* A mutant: the sizes in the index are not looked at.                     *)
IndexTaken(idx) ==
  /\ msg' = <<header_data.data_1>> \o idx
  /\ mem' = "iovec"
  /\ reader_v' = mtc_reader_v_init(msg')
  /\ read_status' = "DATA"
  /\ UNCHANGED <<in_status, got>>

(* The index has been read: idx holds the sizes of the extra blocks.       *)
IndexAccepted(idx) ==
  /\ \A i \in 1..Len(idx) : idx[i] # 0
  /\ msg' = <<header_data.data_1>> \o idx
  /\ mem' = "iovec"
  /\ reader_v' = mtc_reader_v_init(msg')
  /\ read_status' = "DATA"
  /\ UNCHANGED <<in_status, got>>

ReadIndex ==
  /\ read_status = "IDX"
  /\ \E answer \in Answers(reader.len) :
       LET res == mtc_reader_read(reader, answer)
           buf == res.reader.buf
           idx == [i \in 1..Len(buf) |-> ValueOf(buf[i])]
       IN  /\ Takes(answer)
           /\ reader' = res.reader
           /\ \/ BailOut(res.io) /\ UNCHANGED <<read_status, reader_v>>
              \/ /\ res.io = MTC_IO_OK
                 /\ UNCHANGED header_data
                 /\ \/ IndexAccepted(idx)
                    \/ /\ AllocMayFail \/ \E i \in 1..Len(idx) : idx[i] = 0
                       /\ Fail("IDX")

ReadData ==
  /\ read_status = "DATA"
  /\ \E answer \in AnswersV(reader_v.lens) :
       LET res == mtc_reader_v_read(reader_v, answer)
       IN  /\ Takes(answer)
           /\ reader_v' = res.reader
           /\ \/ BailOut(res.io) /\ UNCHANGED read_status
              \/ res.io = MTC_IO_OK /\ ReturnMsg(res.reader.buf) /\ mem' = "none"
  /\ UNCHANGED reader

Receive ==
  /\ in_status = "open"
  /\ ReadHeader \/ ReadSimple \/ ReadIndex \/ ReadData

(* MtcLink: the application lets a stopped link receive again.             *)
ResumeIn ==
  /\ in_status = "stopped"
  /\ in_status' = "open"
  /\ UNCHANGED <<read_status, reader, reader_v, header_data, mem, msg, got, sock>>

(* A mutant: the additional buffer is left.                                *)
FinalizeLeaks ==
  /\ in_status # "freed"
  /\ in_status' = "freed"
  /\ msg' = <<>>
  /\ \E close_fd \in BOOLEAN : sock' = [sock EXCEPT !.hup = @ \/ close_fd]
  /\ UNCHANGED <<read_status, reader, reader_v, header_data, mem, got>>

(* mtc_fd_link_finalize.                                                   *)
Finalize ==
  /\ in_status # "freed"
  /\ in_status' = "freed"
  /\ mem' = "none" /\ msg' = <<>>
  /\ \E close_fd \in BOOLEAN : sock' = [sock EXCEPT !.hup = @ \/ close_fd]
  /\ UNCHANGED <<read_status, reader, reader_v, header_data, got>>

Next == Receive \/ ResumeIn \/ Finalize

-----------------------------------------------------------------------------
(* What the receiver has taken from the stream since the last message.     *)
Word2 == IF header_data.stop THEN WithStopBit(header_data.size) ELSE header_data.size
Partial ==
  CASE read_status = "INIT_READ" -> <<>>
    [] read_status = "HDR"       -> reader.buf
    [] read_status \in {"SIMPLE", "IDX"} ->
         <<Magic, Word(Word2), Word(header_data.data_1)>> \o reader.buf
    [] read_status = "DATA"      ->
         mtc_header_write(msg, header_data.stop) \o reader_v.buf

(* Whoever writes to the socket: the additional buffer and the unfinished  *)
(* message exist exactly in the phases that use them, so that no return    *)
(* from the middle of a message loses one (fd_link.c:521, 560, 610).       *)
HeldByPhase ==
  in_status \in {"open", "stopped"} =>
    /\ (mem = "index") = (read_status = "IDX")
    /\ (mem = "iovec") = (read_status = "DATA")
    /\ (msg # <<>>) = (read_status \in {"SIMPLE", "DATA"})
    /\ read_status \in {"HDR", "SIMPLE", "IDX"} => reader.len > 0
    /\ read_status = "DATA" => reader_v.lens # <<>> /\ reader_v.lens[1] > 0

(* Nothing that was allocated is overwritten, or dropped by anything but   *)
(* the return of its message, its conversion to the IO vector and          *)
(* mtc_fd_link_finalize; after the latter nothing is left                  *)
(* (fd_link.c:864).                                                        *)
NothingLost ==
  [][/\ msg # <<>> /\ msg' # msg =>
          msg' = <<>> /\ (in_status' = "freed" \/ Len(got') = Len(got) + 1)
     /\ mem # "none" /\ mem' # mem =>
          \/ mem = "index" /\ mem' = "iovec" /\ Len(msg') = header_data.size
          \/ mem' = "none" /\ msg' = <<>>
     /\ in_status' = "freed" => mem' = "none" /\ msg' = <<>>]_vars

=============================================================================
