---------------------------- MODULE FdLinkProofs ----------------------------
(***************************************************************************)
(* The link implements the channel, for every set of messages that fit a   *)
(* header, every size of the socket and every place where the two sides    *)
(* are cut. What is known of each half (FdLinkSendProofs, and              *)
(* FdLinkRecvProofs with the messages that were queued as what the peer    *)
(* supplied) is kept by the steps of the other; what joins the halves is   *)
(* Stream, that nothing is lost between them.                              *)
(***************************************************************************)
EXTENDS FdLink, VectorLemmas

(* The frames a peer may write, as the receiver's proofs have them: one    *)
(* for each message, with a stop signal or without.                        *)
FrameOf(m, stop) == [magic |-> TRUE, sizes |-> Blocks[m], stop |-> stop]
Frames == {FrameOf(m, stop) : m \in Msgs, stop \in BOOLEAN}
(* What the peer has supplied: the messages that were queued.              *)
Supplied == [k \in 1..Len(queued) |-> FrameOf(queued[k].msg, queued[k].stop)]

S == INSTANCE FdLinkSendProofs
R == INSTANCE FdLinkRecvProofs WITH
       supplied <- Supplied, fault <- TRUE, MaxFrames <- MaxQueue,
       Shapes <- Frames

(* What the sender's lemmas are stated under holds of the constants of the *)
(* link: a message that a header can carry has fewer blocks than a word    *)
(* counts.                                                                 *)
LEMMA SAssumed ==
  /\ StopBit \in Nat \ {0, 1}
  /\ IovMin \in Nat \ {0}
  /\ IovMax \in Nat
  /\ SockCap \in Nat
  /\ MaxQueue \in Nat
  /\ Blocks \in [Msgs -> Seq(Nat \ {0})]
  /\ \A m \in Msgs : Blocks[m] # <<>> /\ Len(Blocks[m]) < S!WordLimit
<1>1. \A m \in Msgs : Len(Blocks[m]) < StopBit /\ Len(Blocks[m]) \in Nat
  BY LinkAssumptions DEF Sender!FitsHeader
<1>2. \A m \in Msgs : Len(Blocks[m]) < S!WordLimit
  BY <1>1, LinkAssumptions DEF S!WordLimit
<1> QED BY <1>2, LinkAssumptions

-----------------------------------------------------------------------------
(* Both halves are instantiated twice, in FdLink and here with their       *)
(* lemmas. The lemmas of this part say that the two are the same operator  *)
(* by operator, so that what was proved of a half is known of the link.    *)
(* First the sums by which a vector is consumed (io.c:124-160).            *)
LEMMA SameSums ==
  /\ \A lens : Sender!Through(lens) = S!Through(lens)
  /\ \A lens, n, k : Sender!Left(lens, n, k) = S!Left(lens, n, k)
  /\ \A lens, k, r : Sender!DropBlocks(lens, k, r) = S!DropBlocks(lens, k, r)
  /\ \A lens, n, k : Sender!ConsumeStops(lens, n, k) <=> S!ConsumeStops(lens, n, k)
<1>1. \A lens : Sender!Through(lens) = S!Through(lens)
  BY DEF Sender!Through, S!Through
<1>2. \A lens, n, k : Sender!Left(lens, n, k) = S!Left(lens, n, k)
  BY <1>1 DEF Sender!Left, S!Left
<1>3. \A lens, k, r : Sender!DropBlocks(lens, k, r) = S!DropBlocks(lens, k, r)
  BY DEF Sender!DropBlocks, S!DropBlocks
<1>4. \A lens, n, k : Sender!ConsumeStops(lens, n, k) <=> S!ConsumeStops(lens, n, k)
  BY <1>2 DEF Sender!ConsumeStops, S!ConsumeStops
<1> QED  BY <1>1, <1>2, <1>3, <1>4

(* The same of what mtc_reader_v_read leaves of a vector and of its first  *)
(* entry.                                                                  *)
LEMMA SameConsumed ==
  /\ \A lens, n : Sender!Consumed(lens, n) = S!Consumed(lens, n)
  /\ \A lens, n : Sender!ConsumeRest(lens, n) = S!ConsumeRest(lens, n)
<1>1. \A lens, n : Sender!Consumed(lens, n) = S!Consumed(lens, n)
  BY SameSums DEF Sender!Consumed, S!Consumed
<1>2. \A lens, n : Sender!ConsumeRest(lens, n) = S!ConsumeRest(lens, n)
  BY <1>1, SameSums DEF Sender!ConsumeRest, S!ConsumeRest
<1> QED  BY <1>1, <1>2

(* The same of the header and of the entries that mtc_fd_link_queue makes  *)
(* of a message.                                                           *)
LEMMA SameHeader ==
  /\ \A sizes, stop : Sender!mtc_header_write(sizes, stop) = S!mtc_header_write(sizes, stop)
  /\ \A id, m, stop : Sender!Entries(id, m, stop) = S!Entries(id, m, stop)
<1>1. \A sizes, stop : Sender!mtc_header_write(sizes, stop) = S!mtc_header_write(sizes, stop)
  BY DEF Sender!mtc_header_write, S!mtc_header_write, Sender!WithStopBit, S!WithStopBit,
         Sender!Word, S!Word, Sender!Magic, S!Magic, Sender!WordLimit, S!WordLimit
<1>2. \A id, m, b : Sender!BlockUnits(id, m, b) = S!BlockUnits(id, m, b)
  BY DEF Sender!BlockUnits, S!BlockUnits, Sender!Byte, S!Byte
<1>3. \A id, m, stop : Sender!Entries(id, m, stop) = S!Entries(id, m, stop)
  BY <1>1, <1>2 DEF Sender!Entries, S!Entries
<1> QED  BY <1>1, <1>3

(* The same of mtc_fd_link_queue.                                          *)
LEMMA SameQueue ==
  ASSUME NEW m, NEW stop
  PROVE  Sender!Queue(m, stop) <=> S!Queue(m, stop)
<1>1. Sender!NewJob(Len(queued) + 1, m, stop) = S!NewJob(Len(queued) + 1, m, stop)
  BY DEF Sender!NewJob, S!NewJob
<1>2. \A n : Sender!AllocIov(n) <=> S!AllocIov(n)
  BY DEF Sender!AllocIov, S!AllocIov
<1>3. \A n : Sender!QueuedClip(stop, n) = S!QueuedClip(stop, n)
  BY DEF Sender!QueuedClip, S!QueuedClip
<1> QED  BY <1>1, <1>2, <1>3, SameHeader DEF Sender!Queue, S!Queue

(* The same of what a round of mtc_fd_link_send takes off the vector and   *)
(* off the job queue, and of the search for the next stop signal.          *)
LEMMA SamePop ==
  /\ \A n : Sender!PopIov(n) = S!PopIov(n)
  /\ \A out : Sender!LeftJobs(out) = S!LeftJobs(out)
  /\ \A js : Sender!NextStop(js) = S!NextStop(js)
  /\ Sender!n_blocks_out = S!n_blocks_out /\ (Sender!repeat <=> S!repeat)
  /\ Sender!Lens(vec) = S!Lens(vec) /\ Sender!Units(vec) = S!Units(vec)
<1>1. \A v : Sender!Lens(v) = S!Lens(v)
  BY DEF Sender!Lens, S!Lens
<1>2. \A s, n : Sender!LastUnits(s, n) = S!LastUnits(s, n)
  BY DEF Sender!LastUnits, S!LastUnits
<1>3. \A n : Sender!PopIov(n) = S!PopIov(n)
  BY <1>1, <1>2, SameConsumed DEF Sender!PopIov, S!PopIov
<1>4. \A js : Sender!Counts(js) = S!Counts(js)
  BY DEF Sender!Counts, S!Counts
<1>5. \A out : Sender!LeftJobs(out) = S!LeftJobs(out)
  BY <1>4, SameConsumed DEF Sender!LeftJobs, S!LeftJobs
<1>6. \A js : Sender!StopJobs(js) = S!StopJobs(js)
  BY DEF Sender!StopJobs, S!StopJobs
<1>7. \A js : Sender!FirstStop(js) = S!FirstStop(js)
  BY <1>6 DEF Sender!FirstStop, S!FirstStop
<1>8. \A js : Sender!NextStop(js) = S!NextStop(js)
  BY <1>4, <1>6, <1>7, SameSums DEF Sender!NextStop, S!NextStop
<1>9. Sender!n_blocks_out = S!n_blocks_out /\ (Sender!repeat <=> S!repeat)
  BY DEF Sender!n_blocks_out, S!n_blocks_out, Sender!repeat, S!repeat,
         Sender!n_blocks_to_send, S!n_blocks_to_send
<1>10. Sender!Units(vec) = S!Units(vec)
  BY DEF Sender!Units, S!Units, Sender!FlattenSeq, S!FlattenSeq
<1> QED  BY <1>1, <1>3, <1>5, <1>8, <1>9, <1>10

(* The same of mtc_fd_link_send, in each of the ways it ends.              *)
LEMMA SameSend ==
  /\ Sender!SendWrites <=> S!SendWrites
  /\ Sender!SendGivesUp <=> S!SendGivesUp
  /\ Sender!SendFails <=> S!SendFails
  /\ Sender!Send <=> S!Send
<1>1. \A v, c, out : Sender!Finish(v, c, out) <=> S!Finish(v, c, out)
  BY SamePop DEF Sender!Finish, S!Finish, Sender!NextClip, S!NextClip,
                 Sender!StopReached, S!StopReached
<1>2. Sender!SendWrites <=> S!SendWrites
  BY <1>1, SamePop, SameSums DEF Sender!SendWrites, S!SendWrites
<1>3. Sender!SendGivesUp <=> S!SendGivesUp
  BY <1>1 DEF Sender!SendGivesUp, S!SendGivesUp
<1>4. Sender!SendFails <=> S!SendFails
  BY SamePop DEF Sender!SendFails, S!SendFails
<1> QED  BY <1>2, <1>3, <1>4 DEF Sender!Send, S!Send

(* The same of the first state, of resuming, and of mtc_fd_link_finalize,  *)
(* for the sending half.                                                   *)
LEMMA SameOthers ==
  /\ Sender!Init <=> S!Init
  /\ Sender!ResumeOut <=> S!ResumeOut
  /\ Sender!Finalize <=> S!Finalize
<1>1. Sender!Init <=> S!Init
  BY DEF Sender!Init, S!Init
<1>2. Sender!ResumeOut <=> S!ResumeOut
  BY DEF Sender!ResumeOut, S!ResumeOut, Sender!iov, S!iov
<1>3. Sender!Finalize <=> S!Finalize
  BY DEF Sender!Finalize, S!Finalize, Sender!iov, S!iov
<1> QED  BY <1>1, <1>2, <1>3

(* The same of the readers of the receiving half, of the answers the       *)
(* kernel may give them, and of mtc_header_read.                           *)
LEMMA SameReaders ==
  /\ \A room : Receiver!Answers(room) = R!Answers(room)
  /\ \A lens : Receiver!AnswersV(lens) = R!AnswersV(lens)
  /\ \A from, answer : Receiver!mtc_reader_read(from, answer) = R!mtc_reader_read(from, answer)
  /\ \A from, answer : Receiver!mtc_reader_v_read(from, answer) = R!mtc_reader_v_read(from, answer)
  /\ \A n : Receiver!mtc_reader_init(n) = R!mtc_reader_init(n)
  /\ \A lens : Receiver!mtc_reader_v_init(lens) = R!mtc_reader_v_init(lens)
  /\ \A buf : Receiver!mtc_header_read(buf) = R!mtc_header_read(buf)
  /\ \A unit : Receiver!ValueOf(unit) = R!ValueOf(unit)
  /\ Receiver!MTC_IO_OK = R!MTC_IO_OK /\ Receiver!MTC_IO_SEVERE = R!MTC_IO_SEVERE
  /\ Receiver!MTC_IO_EOF = R!MTC_IO_EOF
<1>1. /\ \A units : Receiver!Data(units) = R!Data(units)
      /\ Receiver!Temp = R!Temp /\ Receiver!Eof = R!Eof /\ Receiver!Severe = R!Severe
  BY DEF Receiver!Data, R!Data, Receiver!Temp, R!Temp, Receiver!Eof, R!Eof,
         Receiver!Severe, R!Severe
<1>2. \A room : Receiver!Answers(room) = R!Answers(room)
  BY <1>1 DEF Receiver!Answers, R!Answers
<1>3. \A lens : Receiver!Through(lens) = R!Through(lens)
  BY DEF Receiver!Through, R!Through
<1>4. \A lens : Receiver!AnswersV(lens) = R!AnswersV(lens)
  BY <1>1, <1>2, <1>3 DEF Receiver!AnswersV, R!AnswersV
<1>5. /\ Receiver!MTC_IO_OK = R!MTC_IO_OK /\ Receiver!MTC_IO_SEVERE = R!MTC_IO_SEVERE
      /\ Receiver!MTC_IO_EOF = R!MTC_IO_EOF /\ Receiver!MTC_IO_TEMP = R!MTC_IO_TEMP
  BY DEF Receiver!MTC_IO_OK, R!MTC_IO_OK, Receiver!MTC_IO_SEVERE, R!MTC_IO_SEVERE,
         Receiver!MTC_IO_EOF, R!MTC_IO_EOF, Receiver!MTC_IO_TEMP, R!MTC_IO_TEMP
<1>6. \A answer : Receiver!ErrorStatus(answer) = R!ErrorStatus(answer)
  BY <1>5 DEF Receiver!ErrorStatus, R!ErrorStatus
<1>7. \A from, answer : Receiver!mtc_reader_read(from, answer) = R!mtc_reader_read(from, answer)
  BY <1>5, <1>6 DEF Receiver!mtc_reader_read, R!mtc_reader_read
<1>8. \A lens, n, k : Receiver!Left(lens, n, k) = R!Left(lens, n, k)
  BY <1>3 DEF Receiver!Left, R!Left
<1>9. \A lens, n, k : Receiver!FillStops(lens, n, k) <=> R!FillStops(lens, n, k)
  BY <1>8 DEF Receiver!FillStops, R!FillStops
<1>10. \A lens, n : Receiver!Filled(lens, n) = R!Filled(lens, n)
  BY <1>9 DEF Receiver!Filled, R!Filled
<1>11. \A lens, k, r : Receiver!DropBlocks(lens, k, r) = R!DropBlocks(lens, k, r)
  BY DEF Receiver!DropBlocks, R!DropBlocks
<1>12. \A lens, n : Receiver!FillRest(lens, n) = R!FillRest(lens, n)
  BY <1>8, <1>10, <1>11 DEF Receiver!FillRest, R!FillRest
<1>13. \A from, answer : Receiver!mtc_reader_v_read(from, answer) = R!mtc_reader_v_read(from, answer)
  BY <1>5, <1>6, <1>12 DEF Receiver!mtc_reader_v_read, R!mtc_reader_v_read
<1>14. /\ \A n : Receiver!mtc_reader_init(n) = R!mtc_reader_init(n)
       /\ \A lens : Receiver!mtc_reader_v_init(lens) = R!mtc_reader_v_init(lens)
  BY DEF Receiver!mtc_reader_init, R!mtc_reader_init, Receiver!mtc_reader_v_init,
         R!mtc_reader_v_init
<1>15. \A unit : Receiver!ValueOf(unit) = R!ValueOf(unit)
  BY DEF Receiver!ValueOf, R!ValueOf
<1>16. \A buf : Receiver!mtc_header_read(buf) = R!mtc_header_read(buf)
  BY <1>15 DEF Receiver!mtc_header_read, R!mtc_header_read, Receiver!Magic, R!Magic
<1> QED  BY <1>2, <1>4, <1>5, <1>7, <1>13, <1>14, <1>15, <1>16

(* The same of mtc_fd_link_receive, phase by phase.                        *)
LEMMA SameReceive ==
  /\ Receiver!Receive <=> R!Receive
<1>1. \A io : Receiver!BailOut(io) <=> R!BailOut(io)
  BY SameReaders DEF Receiver!BailOut, R!BailOut
<1>2. \A answer : Receiver!Takes(answer) <=> R!Takes(answer)
  BY DEF Receiver!Takes, R!Takes
<1>3. \A phase : Receiver!Fail(phase) <=> R!Fail(phase)
  BY DEF Receiver!Fail, R!Fail
<1>4. Receiver!AllocMayFail <=> R!AllocMayFail
  BY DEF Receiver!AllocMayFail, R!AllocMayFail
<1>5. \A data : Receiver!ReturnMsg(data) <=> R!ReturnMsg(data)
  BY DEF Receiver!ReturnMsg, R!ReturnMsg, Receiver!ReturnMsgThen, R!ReturnMsgThen
<1>6. /\ \A h : Receiver!HeaderRejected(h) <=> R!HeaderRejected(h)
      /\ \A h : Receiver!SimpleBegins(h) <=> R!SimpleBegins(h)
      /\ \A h : Receiver!ComplexBegins(h) <=> R!ComplexBegins(h)
      /\ \A h : Receiver!HeaderData(h) = R!HeaderData(h)
  BY <1>3, SameReaders DEF Receiver!HeaderRejected, R!HeaderRejected, Receiver!SimpleBegins,
         R!SimpleBegins, Receiver!ComplexBegins, R!ComplexBegins, Receiver!HeaderData, R!HeaderData
<1>7. Receiver!HeaderReader = R!HeaderReader
  BY SameReaders DEF Receiver!HeaderReader, R!HeaderReader, Receiver!mtc_header_min_size,
         R!mtc_header_min_size, Receiver!mtc_header_sizeof, R!mtc_header_sizeof
<1>8. Receiver!ReadHeader <=> R!ReadHeader
  BY <1>1, <1>2, <1>3, <1>4, <1>6, <1>7, SameReaders DEF Receiver!ReadHeader, R!ReadHeader
<1>9. Receiver!ReadSimple <=> R!ReadSimple
  BY <1>1, <1>2, <1>5, SameReaders DEF Receiver!ReadSimple, R!ReadSimple
<1>10. \A idx : Receiver!IndexAccepted(idx) <=> R!IndexAccepted(idx)
  BY SameReaders DEF Receiver!IndexAccepted, R!IndexAccepted
<1>11. Receiver!ReadIndex <=> R!ReadIndex
  <2> DEFINE theirs(buf) == [i \in 1..Len(buf) |-> Receiver!ValueOf(buf[i])]
             ours(buf)   == [i \in 1..Len(buf) |-> R!ValueOf(buf[i])]
  <2>1. \A buf : theirs(buf) = ours(buf)
    BY SameReaders
  <2>2. Receiver!ReadIndex <=>
          /\ read_status = "IDX"
          /\ \E answer \in Receiver!Answers(reader.len) :
               LET res == Receiver!mtc_reader_read(reader, answer)
                   idx == theirs(res.reader.buf)
               IN  /\ Receiver!Takes(answer)
                   /\ reader' = res.reader
                   /\ \/ Receiver!BailOut(res.io) /\ UNCHANGED <<read_status, reader_v>>
                      \/ /\ res.io = Receiver!MTC_IO_OK
                         /\ UNCHANGED header_data
                         /\ \/ Receiver!IndexAccepted(idx)
                            \/ /\ Receiver!AllocMayFail \/ \E i \in 1..Len(idx) : idx[i] = 0
                               /\ Receiver!Fail("IDX")
    BY DEF Receiver!ReadIndex
  <2>3. R!ReadIndex <=>
          /\ read_status = "IDX"
          /\ \E answer \in R!Answers(reader.len) :
               LET res == R!mtc_reader_read(reader, answer)
                   idx == ours(res.reader.buf)
               IN  /\ R!Takes(answer)
                   /\ reader' = res.reader
                   /\ \/ R!BailOut(res.io) /\ UNCHANGED <<read_status, reader_v>>
                      \/ /\ res.io = R!MTC_IO_OK
                         /\ UNCHANGED header_data
                         /\ \/ R!IndexAccepted(idx)
                            \/ /\ R!AllocMayFail \/ \E i \in 1..Len(idx) : idx[i] = 0
                               /\ R!Fail("IDX")
    BY DEF R!ReadIndex
  <2> HIDE DEF theirs, ours
  <2> QED
    BY <1>1, <1>2, <1>3, <1>4, <1>10, <2>1, <2>2, <2>3, SameReaders
<1>12. Receiver!ReadData <=> R!ReadData
  BY <1>1, <1>2, <1>5, SameReaders DEF Receiver!ReadData, R!ReadData
<1> QED  BY <1>8, <1>9, <1>11, <1>12 DEF Receiver!Receive, R!Receive

(* The same of the first state, of resuming, and of mtc_fd_link_finalize,  *)
(* for the receiving half.                                                 *)
LEMMA SameReceiver ==
  /\ Receiver!Init <=> R!Init
  /\ Receiver!ResumeIn <=> R!ResumeIn
  /\ Receiver!Finalize <=> R!Finalize
<1>1. Receiver!Init <=> R!Init
  BY SameReaders DEF Receiver!Init, R!Init
<1>2. Receiver!ResumeIn <=> R!ResumeIn
  BY DEF Receiver!ResumeIn, R!ResumeIn
<1>3. Receiver!Finalize <=> R!Finalize
  BY DEF Receiver!Finalize, R!Finalize
<1> QED  BY <1>1, <1>2, <1>3

-----------------------------------------------------------------------------
(* What the receiver's lemmas are stated under holds of the frames that    *)
(* the sender may queue.                                                   *)
LEMMA RAssumed ==
  /\ StopBit \in Nat \ {0, 1}
  /\ Frames \subseteq [magic : BOOLEAN, sizes : Seq(Nat), stop : BOOLEAN]
  /\ \A f \in Frames : R!FitsHeader(f.sizes)
  /\ IovMax \in Nat /\ MaxQueue \in Nat
<1>1. \A m \in Msgs : R!FitsHeader(Blocks[m])
  BY LinkAssumptions DEF Sender!FitsHeader, R!FitsHeader, Sender!WordLimit, R!WordLimit
<1>2. \A m \in Msgs : Blocks[m] \in Seq(Nat)
  BY LinkAssumptions
<1>3. \A f \in Frames : f \in [magic : BOOLEAN, sizes : Seq(Nat), stop : BOOLEAN]
  <2> SUFFICES ASSUME NEW m \in Msgs, NEW stop \in BOOLEAN
               PROVE  FrameOf(m, stop) \in [magic : BOOLEAN, sizes : Seq(Nat), stop : BOOLEAN]
    BY DEF Frames
  <2> QED  BY <1>2 DEF FrameOf
<1>4. \A f \in Frames : R!FitsHeader(f.sizes)
  BY <1>1 DEF Frames, FrameOf
<1> QED  BY <1>3, <1>4, LinkAssumptions

(* What the sender writes is what a peer of the receiver may write.        *)
LEMMA UnitTypes == S!Unit \subseteq R!PeerUnit
<1>1. S!Magic = R!Magic /\ \A n : S!Word(n) = R!Word(n)
  BY DEF S!Magic, R!Magic, S!Word, R!Word
<1>2. S!WordLimit = R!WordLimit
  BY DEF S!WordLimit, R!WordLimit
<1> QED  BY <1>1, <1>2 DEF S!Unit, R!PeerUnit

(* The units that mtc_fd_link_queue puts in the vector for message k are   *)
(* frame k as the receiver expects it, and the message in it is the        *)
(* content the channel is to deliver.                                      *)
LEMMA QueuedFrame ==
  ASSUME NEW k \in Nat, NEW m \in Msgs, NEW stop \in BOOLEAN
  PROVE  /\ R!Frame(FrameOf(m, stop), k) = S!Units(S!Entries(k, m, stop))
         /\ R!Message(FrameOf(m, stop), k) = Content(k, m, stop)
<1> DEFINE h  == S!mtc_header_write(Blocks[m], stop)
           ds == [b \in 1..Len(Blocks[m]) |-> S!BlockUnits(k, m, b)]
<1>1. h \in Seq(S!Unit) /\ S!Units(S!Entries(k, m, stop)) = h \o S!FlattenSeq(ds)
  BY SAssumed, S!EntriesUnits
<1>2. R!mtc_header_write(Blocks[m], stop) = h
  BY DEF R!mtc_header_write, S!mtc_header_write, R!WithStopBit, S!WithStopBit,
         R!Word, S!Word, R!Magic, S!Magic, R!WordLimit, S!WordLimit
<1>3. [b \in 1..Len(Blocks[m]) |-> [i \in 1..Blocks[m][b] |-> <<"byte", k, b, i>>]] = ds
  BY DEF S!BlockUnits, S!Byte
<1>4. R!PayloadOf(Blocks[m], k) = S!FlattenSeq(ds)
  <2>1. R!PayloadOf(Blocks[m], k)
          = R!FlattenSeq([b \in 1..Len(Blocks[m]) |->
                            [i \in 1..Blocks[m][b] |-> <<"byte", k, b, i>>]])
    BY DEF R!PayloadOf
  <2>2. R!FlattenSeq(ds) = S!FlattenSeq(ds)
    BY DEF R!FlattenSeq, S!FlattenSeq
  <2> HIDE DEF ds
  <2> QED  BY <1>3, <2>1, <2>2
<1>5. Blocks[m] # <<>>
  BY LinkAssumptions
<1>6. FrameOf(m, stop).magic = TRUE /\ FrameOf(m, stop).sizes = Blocks[m]
      /\ FrameOf(m, stop).stop = stop
  BY DEF FrameOf
<1> HIDE DEF h, ds
<1>7. h \o <<>> = h
  BY <1>1, ConcatEmptySeq
<1>8. R!Header(FrameOf(m, stop)) = h
  BY <1>2, <1>5, <1>6, <1>7 DEF R!Header
<1>9. R!Frame(FrameOf(m, stop), k) = h \o S!FlattenSeq(ds)
  BY <1>4, <1>6, <1>8 DEF R!Frame
<1>10. Content(k, m, stop).data = S!FlattenSeq(ds)
  <2>1. \A b : Sender!BlockUnits(k, m, b) = S!BlockUnits(k, m, b)
    BY DEF Sender!BlockUnits, S!BlockUnits, Sender!Byte, S!Byte
  <2>2. [b \in 1..Len(Blocks[m]) |-> Sender!BlockUnits(k, m, b)] = ds
    BY <2>1 DEF ds
  <2>3. FlattenSeq(ds) = S!FlattenSeq(ds)
    BY DEF FlattenSeq, S!FlattenSeq
  <2> QED  BY <2>2, <2>3 DEF Content
<1>11. R!Message(FrameOf(m, stop), k) = Content(k, m, stop)
  BY <1>4, <1>6, <1>10 DEF R!Message, Content
<1> QED  BY <1>1, <1>9, <1>11


-----------------------------------------------------------------------------
(* The queued messages, as the receiver's proofs see them, are frames.     *)
LEMMA SuppliedFacts ==
  ASSUME queued \in Seq([msg : Msgs, stop : BOOLEAN])
  PROVE  /\ Supplied \in Seq(Frames) /\ Len(Supplied) = Len(queued)
         /\ \A k \in 1..Len(queued) : Supplied[k] = FrameOf(queued[k].msg, queued[k].stop)
<1>1. \A k \in 1..Len(queued) : queued[k] \in [msg : Msgs, stop : BOOLEAN]
  BY ElementOfSeq
<1>2. \A k \in 1..Len(queued) : FrameOf(queued[k].msg, queued[k].stop) \in Frames
  BY <1>1 DEF Frames
<1>3. Len(queued) \in Nat
  OBVIOUS
<1> HIDE DEF Frames
<1> QED  BY <1>2, <1>3 DEF Supplied

(* A message that is queued is one more of them.                           *)
LEMMA QueueSupplies ==
  ASSUME queued \in Seq([msg : Msgs, stop : BOOLEAN]),
         NEW m \in Msgs, NEW stop \in BOOLEAN,
         queued' = Append(queued, [msg |-> m, stop |-> stop])
  PROVE  /\ FrameOf(m, stop) \in Frames /\ Supplied \in Seq(Frames)
         /\ Len(Supplied) = Len(queued) /\ Len(queued') = Len(queued) + 1
         /\ Supplied' = Append(Supplied, FrameOf(m, stop))
<1> DEFINE new == Append(Supplied, FrameOf(m, stop))
           n == Len(queued)
<1>1. /\ Supplied \in Seq(Frames) /\ Len(Supplied) = n
      /\ \A k \in 1..n : Supplied[k] = FrameOf(queued[k].msg, queued[k].stop)
  BY SuppliedFacts
<1>2. FrameOf(m, stop) \in Frames
  BY DEF Frames
<1> HIDE DEF Frames
<1>3. n \in Nat /\ Len(queued') = n + 1 /\ queued'[n + 1] = [msg |-> m, stop |-> stop]
      /\ \A k \in 1..n : queued'[k] = queued[k]
  OBVIOUS
<1>4. Supplied' = [k \in 1..(n + 1) |-> FrameOf(queued'[k].msg, queued'[k].stop)]
  BY <1>3 DEF Supplied, FrameOf
<1>5. new \in Seq(Frames) /\ Len(new) = n + 1 /\ new[n + 1] = FrameOf(m, stop)
      /\ \A k \in 1..n : new[k] = Supplied[k]
  BY <1>1, <1>2, AppendProperties
<1>6. new = [k \in 1..(n + 1) |-> new[k]]
  <2> HIDE DEF new, n
  <2> QED  BY <1>3, <1>5
<1>7. \A k \in 1..(n + 1) : new[k] = FrameOf(queued'[k].msg, queued'[k].stop)
  <2> HIDE DEF new
  <2>1. \A k \in 1..(n + 1) : k \in 1..n \/ k = n + 1
    BY <1>3
  <2> QED  BY <1>1, <1>3, <1>5, <2>1
<1> QED  BY <1>1, <1>2, <1>3, <1>4, <1>6, <1>7

-----------------------------------------------------------------------------
(* The inductive invariant of the link: both halves are in theirs; as long *)
(* as the receiver is not given up, what it holds, what the socket has and *)
(* what the sender has not written are the messages that are to come; and  *)
(* behind an entry of the vector there is room for all messages that were  *)
(* queued after its own.                                                   *)
Stream == R!Alive => R!Rest \o S!Units(vec) = R!Due(Supplied, Len(got))
Ends == S!Through(S!Lens(vec))
Behindhand ==
  \A i \in 1..Len(vec) : \A j \in vec[i].own..Len(queued) :
    Len(R!Due(Supplied, j)) <= Ends[Len(vec)] - Ends[i]

SendSide == S!SendInv /\ S!HistInv
RecvSide == R!TypeOK /\ got \in Seq(R!Messages) /\ R!Phases /\ R!ReceivedIsSent
LinkInv == SendSide /\ RecvSide /\ Stream /\ Behindhand

(* A new link is in it: nothing is queued, sent or held.                   *)
LEMMA LinkInit == Init => LinkInv
<1> SUFFICES ASSUME Init PROVE LinkInv
  OBVIOUS
<1>1. S!Init /\ R!Init
  BY SameOthers, SameReceiver DEF Init
<1>2. SendSide
  BY <1>1, SAssumed, S!InitInv, S!InitHist DEF SendSide
<1>3. vec = <<>> /\ queued = <<>>
  BY <1>1 DEF S!Init
<1>4. Supplied = <<>>
  BY <1>3 DEF Supplied
<1>5. /\ RecvSide /\ R!Rest = <<>> /\ R!Due(Supplied, Len(got)) = <<>>
  BY <1>1, <1>4, RAssumed, R!FreshFacts DEF RecvSide
<1>6. S!Units(vec) = <<>>
  <2>1. vec \in Seq(S!Entry)
    BY <1>2 DEF SendSide, S!SendInv, S!TypeOK
  <2>2. /\ S!Units(vec) \in Seq(S!Unit) /\ S!Lens(vec) \in Seq(Nat)
        /\ Len(S!Units(vec)) = S!Through(S!Lens(vec))[Len(vec)]
    BY <2>1, SAssumed, S!UnitsOf
  <2>3. S!Through(S!Lens(vec))[0] = 0
    BY <2>2, SAssumed, S!ThroughFacts
  <2>4. Len(S!Units(vec)) = 0
    BY <1>3, <2>2, <2>3
  <2> QED  BY <2>2, <2>4, EmptySeq
<1>7. Stream
  BY <1>5, <1>6 DEF Stream
<1>8. Behindhand
  BY <1>3 DEF Behindhand
<1> QED  BY <1>2, <1>5, <1>7, <1>8 DEF LinkInv

-----------------------------------------------------------------------------
(* The units of the sender are units to the receiver, in any number.       *)
LEMMA UnitsAreUnits == \A s \in Seq(S!Unit) : s \in Seq(R!PeerUnit)
<1> TAKE s \in Seq(S!Unit)
<1>1. \A i \in 1..Len(s) : s[i] \in R!PeerUnit
  BY UnitTypes
<1> QED  BY <1>1, RAssumed, R!Narrow

(* What the invariant says of the parts of the stream.                     *)
LEMMA LinkTypes ==
  ASSUME LinkInv
  PROVE  /\ vec \in Seq(S!Entry) /\ S!NoEmptyEntry
         /\ S!Lens(vec) \in Seq(Nat \ {0}) /\ S!Lens(vec) \in Seq(Nat)
         /\ Len(S!Lens(vec)) = Len(vec)
         /\ S!Units(vec) \in Seq(S!Unit) /\ S!Units(vec) \in Seq(R!PeerUnit)
         /\ Len(S!Units(vec)) = Ends[Len(vec)]
         /\ queued \in Seq([msg : Msgs, stop : BOOLEAN])
         /\ Supplied \in Seq(Frames) /\ Len(Supplied) = Len(queued)
         /\ Len(got) \in 0..Len(queued)
         /\ sock \in [buf : Seq(S!Unit), eof : BOOLEAN, hup : BOOLEAN]
         /\ sock.buf \in Seq(R!PeerUnit)
         /\ R!Alive => R!Partial \in Seq(R!PeerUnit)
<1>1. S!TypeOK /\ S!NoEmptyEntry /\ RecvSide
  BY DEF LinkInv, SendSide, S!SendInv
<1>2. /\ vec \in Seq(S!Entry) /\ queued \in Seq([msg : Msgs, stop : BOOLEAN])
      /\ sock \in [buf : Seq(S!Unit), eof : BOOLEAN, hup : BOOLEAN]
  BY <1>1 DEF S!TypeOK
<1>3. /\ S!Lens(vec) \in Seq(Nat \ {0}) /\ Len(S!Lens(vec)) = Len(vec)
      /\ S!Units(vec) \in Seq(S!Unit) /\ S!Lens(vec) \in Seq(Nat)
      /\ Len(S!Units(vec)) = Ends[Len(vec)]
  BY <1>1, <1>2, SAssumed, S!LensType, S!UnitsOf DEF Ends
<1>4. Supplied \in Seq(Frames) /\ Len(Supplied) = Len(queued)
  BY <1>2, SuppliedFacts
<1>5. Len(got) \in 0..Len(queued)
  BY <1>1, <1>4 DEF RecvSide, R!ReceivedIsSent
<1>6. S!Units(vec) \in Seq(R!PeerUnit) /\ sock.buf \in Seq(R!PeerUnit)
  BY <1>2, <1>3, UnitsAreUnits
<1>7. R!Alive => R!Partial \in Seq(R!PeerUnit)
  BY <1>1, RAssumed, R!PartialType DEF RecvSide
<1> QED  BY <1>1, <1>2, <1>3, <1>4, <1>5, <1>6, <1>7

-----------------------------------------------------------------------------
(* mtc_link_queue: the message is one more of those that are to come, and  *)
(* its units are behind all others.                                        *)
LEMMA QueueGrows ==
  ASSUME LinkInv, NEW m \in Msgs, NEW stop \in BOOLEAN, S!Queue(m, stop)
  PROVE  LET f   == FrameOf(m, stop)
             k   == Len(queued) + 1
             new == S!Entries(k, m, stop)
         IN  /\ f \in Frames /\ Supplied' = Append(Supplied, f)
             /\ Len(queued') = k
             /\ new \in Seq(S!Entry) /\ vec' = vec \o new
             /\ S!Units(new) \in Seq(S!Unit) /\ R!Frame(f, k) = S!Units(new)
             /\ S!Units(vec') = S!Units(vec) \o S!Units(new)
             /\ \A i \in 1..Len(new) : new[i].own = k
             /\ sock' = sock
<1> DEFINE k == Len(queued) + 1
           new == S!Entries(k, m, stop)
<1>1. S!SendInv
  BY DEF LinkInv, SendSide
<1>2. /\ new \in Seq(S!Entry) /\ vec' = vec \o new
      /\ S!Units(new) \in Seq(S!Unit)
      /\ S!Units(vec') = S!Units(vec) \o S!Units(new)
  BY <1>1, SAssumed, S!QueueUnits
<1>3. queued \in Seq([msg : Msgs, stop : BOOLEAN]) /\ k \in Nat
  BY LinkTypes
<1>4. queued' = Append(queued, [msg |-> m, stop |-> stop]) /\ sock' = sock
  BY DEF S!Queue
<1>5. FrameOf(m, stop) \in Frames /\ Supplied' = Append(Supplied, FrameOf(m, stop))
      /\ Len(queued') = k
  BY <1>3, <1>4, QueueSupplies
<1>6. R!Frame(FrameOf(m, stop), k) = S!Units(new)
  BY <1>3, QueuedFrame
<1>7. \A i \in 1..Len(new) : new[i].own = k
  BY DEF S!Entries
<1> QED  BY <1>2, <1>4, <1>5, <1>6, <1>7

(* ... which keeps what the receiver knows of the stream.                  *)
LEMMA QueueStream ==
  ASSUME LinkInv, NEW m \in Msgs, NEW stop \in BOOLEAN, S!Queue(m, stop),
         R!Partial' = R!Partial, R!Alive' <=> R!Alive, got' = got
  PROVE  Stream'
<1> DEFINE f == FrameOf(m, stop)
           k == Len(queued) + 1
           new == S!Units(S!Entries(k, m, stop))
           old == S!Units(vec)
           rest == R!Rest
           due == R!Due(Supplied, Len(got))
<1>1. /\ f \in Frames /\ Supplied' = Append(Supplied, f) /\ sock' = sock
      /\ new \in Seq(S!Unit) /\ R!Frame(f, k) = new
      /\ S!Units(vec') = old \o new
  BY QueueGrows
<1>2. /\ Supplied \in Seq(Frames) /\ Len(Supplied) + 1 = k /\ Len(got) \in 0..Len(Supplied)
      /\ old \in Seq(R!PeerUnit) /\ sock.buf \in Seq(R!PeerUnit)
      /\ R!Alive => R!Partial \in Seq(R!PeerUnit)
  BY LinkTypes
<1>3. new \in Seq(R!PeerUnit)
  BY <1>1, UnitsAreUnits
<1>4. SUFFICES ASSUME R!Alive PROVE R!Rest' \o S!Units(vec') = R!Due(Supplied', Len(got'))
  BY DEF Stream
<1>5. R!Due(Supplied', Len(got')) = due \o R!Frame(f, Len(Supplied) + 1)
  BY <1>1, <1>2, RAssumed, R!DueGrows
<1>6. R!Rest' = rest
  BY <1>1 DEF R!Rest
<1>7. rest \o old = due
  BY <1>4 DEF LinkInv, Stream
<1>8. rest \in Seq(R!PeerUnit)
  <2> DEFINE held == R!Partial
             buf == sock.buf
  <2>1. held \in Seq(R!PeerUnit) /\ buf \in Seq(R!PeerUnit)
    BY <1>2, <1>4
  <2> HIDE DEF held, buf
  <2>2. held \o buf \in Seq(R!PeerUnit)
    BY ONLY <2>1, ConcatProperties
  <2> QED  BY <2>2 DEF held, buf, R!Rest
<1> DEFINE U == R!PeerUnit
<1>9. rest \in Seq(U) /\ old \in Seq(U) /\ new \in Seq(U)
  BY <1>2, <1>3, <1>8
<1>10. R!Due(Supplied', Len(got')) = due \o new
  BY <1>1, <1>2, <1>5
<1>11. S!Units(vec') = old \o new
  BY <1>1
<1> HIDE DEF rest, old, new, due, U
<1>12. \A t \in Seq(U), u \in Seq(U) : rest \o (t \o u) = (rest \o t) \o u
  BY ONLY <1>9, Reassociate
<1>13. rest \o (old \o new) = (rest \o old) \o new
  BY ONLY <1>9, <1>12
<1> QED  BY <1>6, <1>7, <1>10, <1>11, <1>13

(* ... and leaves room behind every entry for one message more.            *)
LEMMA QueueBehind ==
  ASSUME LinkInv, NEW m \in Msgs, NEW stop \in BOOLEAN, S!Queue(m, stop)
  PROVE  Behindhand'
<1> DEFINE f == FrameOf(m, stop)
           n == Len(queued)
           k == n + 1
           new == S!Entries(k, m, stop)
           units == S!Units(new)
           lens == S!Lens(vec)
           lens2 == S!Lens(vec')
           E == S!Through(lens)
           E2 == S!Through(lens2)
           L == Len(vec)
           L2 == Len(vec')
           due(j) == Len(R!Due(Supplied, j))
           due2(j) == Len(R!Due(Supplied', j))
<1>1. /\ f \in Frames /\ Supplied' = Append(Supplied, f) /\ Len(queued') = k
      /\ new \in Seq(S!Entry) /\ vec' = vec \o new
      /\ units \in Seq(S!Unit) /\ R!Frame(f, k) = units
      /\ S!Units(vec') = S!Units(vec) \o units
      /\ \A i \in 1..Len(new) : new[i].own = k
  BY QueueGrows
<1>2. /\ vec \in Seq(S!Entry) /\ lens \in Seq(Nat) /\ Len(lens) = L
      /\ S!Units(vec) \in Seq(S!Unit) /\ Len(S!Units(vec)) = E[L]
      /\ Supplied \in Seq(Frames) /\ Len(Supplied) = n /\ n \in Nat
  BY LinkTypes DEF Ends
<1>3. /\ vec' \in Seq(S!Entry) /\ L2 = L + Len(new) /\ L \in Nat /\ Len(new) \in Nat
      /\ \A i \in 1..L : vec'[i] = vec[i]
      /\ \A i \in 1..Len(new) : vec'[L + i] = new[i]
  <2> DEFINE s == new
             v == vec'
  <2>1. s \in Seq(S!Entry) /\ vec \in Seq(S!Entry) /\ v = vec \o s
    BY <1>1, <1>2
  <2> HIDE DEF s, v
  <2>2. /\ v \in Seq(S!Entry) /\ Len(v) = Len(vec) + Len(s)
        /\ \A i \in 1..Len(vec) : v[i] = vec[i]
        /\ \A i \in 1..Len(s) : v[Len(vec) + i] = s[i]
    BY ONLY <2>1, Joins
  <2>3. Len(vec) \in Nat /\ Len(s) \in Nat
    BY <2>1
  <2> QED  BY <2>2, <2>3 DEF s, v
<1>4. /\ lens2 \in Seq(Nat) /\ Len(lens2) = L2
      /\ \A i \in 1..L2 : lens2[i] = Len(vec'[i].data)
      /\ Len(S!Units(vec')) = E2[L2]
  BY <1>3, SAssumed, S!UnitsOf
<1>5. \A i \in 1..L : lens[i] = Len(vec[i].data)
  BY <1>2, SAssumed, S!UnitsOf
<1>6. \A i \in 1..L : E2[i] = E[i]
  <2> TAKE i \in 1..L
  <2>1. i \in 0..Len(lens) /\ Len(lens) <= Len(lens2)
    BY <1>2, <1>3, <1>4
  <2>2. \A x \in 1..i : lens2[x] = lens[x]
    <3> TAKE x \in 1..i
    <3>1. x \in 1..L /\ x \in 1..L2
      BY <1>3
    <3> QED  BY <1>3, <1>4, <1>5, <3>1
  <2> HIDE DEF lens, lens2
  <2> QED  BY <1>2, <1>4, <2>1, <2>2, SAssumed, S!ThroughPrefix DEF E, E2
<1>7. E2[L2] = E[L] + Len(units) /\ Len(units) \in Nat
  <2> DEFINE u == S!Units(vec)
             w == units
             both == S!Units(vec')
  <2>1. u \in Seq(S!Unit) /\ w \in Seq(S!Unit) /\ both = u \o w
    BY <1>1, <1>2
  <2>2. Len(u) = E[L] /\ Len(both) = E2[L2]
    BY <1>2, <1>4
  <2> HIDE DEF u, w, both
  <2>3. Len(both) = Len(u) + Len(w) /\ Len(w) \in Nat
    BY ONLY <2>1, Joins
  <2> QED  BY <2>2, <2>3 DEF w
<1>8. \A j \in 0..n : due2(j) = due(j) + Len(units) /\ due(j) \in Nat
  <2> TAKE j \in 0..n
  <2> DEFINE d == R!Due(Supplied, j)
             w == units
             both == R!Due(Supplied', j)
  <2>5. j \in 0..Len(Supplied) /\ Supplied \in Seq(Frames) /\ f \in Frames
        /\ Supplied' = Append(Supplied, f)
    BY <1>1, <1>2
  <2>6. R!Due(Supplied', j) = R!Due(Supplied, j) \o R!Frame(f, Len(Supplied) + 1)
    <3> HIDE DEF f
    <3> QED  BY <2>5, RAssumed, R!DueGrows
  <2>1. both = d \o w
    BY <1>1, <1>2, <2>6
  <2>2. d \in Seq(R!PeerUnit)
    BY <1>2, RAssumed, R!FramesType
  <2>3. w \in Seq(R!PeerUnit)
    BY <1>1, UnitsAreUnits
  <2> HIDE DEF d, w, both
  <2>4. Len(both) = Len(d) + Len(w) /\ Len(d) \in Nat
    BY ONLY <2>1, <2>2, <2>3, Joins
  <2> QED  BY <2>4 DEF d, w, both
<1>9. due2(k) = 0
  <2>1. Supplied' \in Seq(Frames) /\ Len(Supplied') = k
    BY <1>1, <1>2, AppendProperties
  <2>2. R!Due(Supplied', k) = <<>>
    BY <2>1, RAssumed, R!DueNone
  <2> QED  BY <2>2
<1>10. \A i \in 1..L2 : E2[i] <= E2[L2] /\ E2[i] \in Nat /\ E2[L2] \in Nat
  <2> HIDE DEF lens2
  <2>1. L2 \in Nat
    BY <1>3
  <2>2. \A i \in 1..L2 : E2[i] <= E2[L2]
    BY <1>4, <2>1, SAssumed, S!ThroughMonotone
  <2>3. \A i \in 0..L2 : E2[i] \in Nat
    BY <1>4, SAssumed, S!ThroughFacts
  <2> QED  BY <2>1, <2>2, <2>3
<1>11. E[L] \in Nat /\ \A i \in 1..L : E[i] \in Nat
  <2> HIDE DEF lens
  <2>1. \A i \in 0..L : E[i] \in Nat
    BY <1>2, SAssumed, S!ThroughFacts
  <2> QED  BY <1>3, <2>1
<1>12. \A i \in 1..L : \A j \in vec[i].own..n : due(j) <= E[L] - E[i]
  BY DEF LinkInv, Behindhand, Ends
<1>13. \A i \in 1..L : vec[i].own \in Nat
  <2>1. \A i \in 1..L : vec[i] \in S!Entry
    BY <1>2
  <2> QED  BY <2>1 DEF S!Entry
<1>14. \A i \in 1..L2 : \A j \in vec'[i].own..k : due2(j) <= E2[L2] - E2[i]
  <2> TAKE i \in 1..L2
  <2> TAKE j \in vec'[i].own..k
  <2> HIDE DEF E, E2, L, L2, due, due2, units, k
  <2>1. CASE j = k
    BY <1>9, <1>10, <2>1
  <2>2. CASE j # k
    <3>1. i \in 1..L
      <4>1. CASE i > L
        <5>1. i - L \in 1..Len(new) /\ L + (i - L) = i
          BY <1>3, <4>1
        <5>2. vec'[i].own = k
          BY <1>1, <1>3, <5>1
        <5>3. k \in Nat
          BY <1>2 DEF k
        <5> QED  BY <2>2, <5>2, <5>3
      <4> QED  BY <1>3, <4>1
    <3>2. vec'[i].own = vec[i].own /\ vec[i].own \in Nat
      BY <1>3, <1>13, <3>1
    <3>3. j \in vec[i].own..n /\ j \in 0..n
      BY <1>2, <2>2, <3>2 DEF k
    <3>4. due2(j) = due(j) + Len(units) /\ due(j) \in Nat /\ due(j) <= E[L] - E[i]
      BY <1>8, <1>12, <3>1, <3>3
    <3> QED  BY <1>6, <1>7, <1>11, <3>1, <3>4
  <2> QED  BY <2>1, <2>2
<1> QED
  <2>1. Ends' = E2 /\ Len(queued') = k
    BY <1>1 DEF Ends
  <2> QED  BY <1>14, <2>1 DEF Behindhand

-----------------------------------------------------------------------------
(* What the sender does leaves the receiver alone.                         *)
LEMMA RecvQuiet ==
  ASSUME LinkInv, UNCHANGED recvVars,
         sock' \in [buf : Seq(S!Unit), eof : BOOLEAN, hup : BOOLEAN],
         Supplied' \in Seq(Frames), Len(Supplied) <= Len(Supplied'),
         \A k \in 1..Len(Supplied) : Supplied'[k] = Supplied[k]
  PROVE  RecvSide' /\ got' = got /\ R!Partial' = R!Partial /\ (R!Alive' <=> R!Alive)
<1>1. R!TypeOK /\ got \in Seq(R!Messages) /\ R!Phases /\ R!ReceivedIsSent
  BY DEF LinkInv, RecvSide
<1>2. sock' \in [buf : Seq(R!PeerUnit), eof : BOOLEAN, hup : BOOLEAN]
  BY UnitsAreUnits
<1>3. UNCHANGED R!recvVars
  BY DEF recvVars, R!recvVars
<1>4. TRUE' \in BOOLEAN
  OBVIOUS
<1> HIDE DEF Frames
<1>5. /\ R!TypeOK' /\ got' \in Seq(R!Messages) /\ R!Phases' /\ R!ReceivedIsSent'
      /\ got' = got /\ R!Partial' = R!Partial /\ (R!Alive' <=> R!Alive)
  BY <1>1, <1>2, <1>3, <1>4, RAssumed, R!QuietRecv
<1> QED  BY <1>5 DEF RecvSide

(* The frames do not change as long as nothing is queued.                  *)
LEMMA SameSupplied ==
  ASSUME LinkInv, queued' = queued
  PROVE  /\ Supplied' = Supplied /\ Supplied' \in Seq(Frames)
         /\ Len(Supplied) <= Len(Supplied')
         /\ \A k \in 1..Len(Supplied) : Supplied'[k] = Supplied[k]
<1>1. Supplied \in Seq(Frames)
  BY LinkTypes
<1>2. Supplied' = Supplied
  BY DEF Supplied, FrameOf
<1>3. Len(Supplied) \in Nat
  BY <1>1
<1> QED  BY <1>1, <1>2, <1>3

(* A step of the sender that neither queues nor writes.                    *)
LEMMA SenderQuiet ==
  ASSUME LinkInv, UNCHANGED recvVars, vec' = vec, queued' = queued,
         sock' \in [buf : Seq(S!Unit), eof : BOOLEAN, hup : BOOLEAN],
         sock'.buf = sock.buf
  PROVE  RecvSide' /\ Stream' /\ Behindhand'
<1>1. /\ Supplied' = Supplied /\ Supplied' \in Seq(Frames)
      /\ Len(Supplied) <= Len(Supplied')
      /\ \A k \in 1..Len(Supplied) : Supplied'[k] = Supplied[k]
  BY SameSupplied
<1>2. RecvSide' /\ got' = got /\ R!Partial' = R!Partial /\ (R!Alive' <=> R!Alive)
  BY <1>1, RecvQuiet
<1>3. R!Rest' = R!Rest
  BY <1>2 DEF R!Rest
<1>4. S!Units(vec') = S!Units(vec) /\ Ends' = Ends
  BY DEF Ends
<1>5. Stream'
  <2>1. R!Due(Supplied', Len(got')) = R!Due(Supplied, Len(got))
    BY <1>1, <1>2
  <2> QED  BY <1>2, <1>3, <1>4, <2>1 DEF LinkInv, Stream
<1>6. Behindhand'
  <2>1. \A j : R!Due(Supplied', j) = R!Due(Supplied, j)
    BY <1>1
  <2> QED  BY <1>4, <2>1 DEF LinkInv, Behindhand
<1> QED  BY <1>2, <1>5, <1>6

(* mtc_link_queue.                                                         *)
LEMMA QueueLink ==
  ASSUME LinkInv, Queue, UNCHANGED recvVars
  PROVE  LinkInv'
<1>1. PICK m \in Msgs, stop \in BOOLEAN : S!Queue(m, stop)
  BY SameQueue DEF Queue
<1>2. SendSide'
  BY <1>1, SAssumed, S!QueueInv, S!QueueHist DEF LinkInv, SendSide
<1>3. /\ FrameOf(m, stop) \in Frames /\ Supplied' = Append(Supplied, FrameOf(m, stop))
      /\ sock' = sock
  BY <1>1, QueueGrows
<1>4. /\ sock \in [buf : Seq(S!Unit), eof : BOOLEAN, hup : BOOLEAN]
      /\ Supplied \in Seq(Frames) /\ Len(Supplied) \in Nat
  BY LinkTypes
<1>5. /\ Supplied' \in Seq(Frames) /\ Len(Supplied) <= Len(Supplied')
      /\ \A k \in 1..Len(Supplied) : Supplied'[k] = Supplied[k]
  BY <1>3, <1>4, AppendProperties
<1>6. RecvSide' /\ got' = got /\ R!Partial' = R!Partial /\ (R!Alive' <=> R!Alive)
  BY <1>3, <1>4, <1>5, RecvQuiet
<1>7. Stream' /\ Behindhand'
  BY <1>1, <1>6, QueueStream, QueueBehind
<1> QED  BY <1>2, <1>6, <1>7 DEF LinkInv

-----------------------------------------------------------------------------
(* A round of mtc_fd_link_send that writes moves units from the vector to  *)
(* the socket: they stay in the stream, where they were.                   *)
LEMMA WriteLink ==
  ASSUME LinkInv, S!SendWrites, UNCHANGED recvVars
  PROVE  LinkInv'
<1> DEFINE U == R!PeerUnit
           old == S!Units(vec)
           L == Len(vec)
<1>1. S!SendInv /\ S!HistInv
  BY DEF LinkInv, SendSide
<1>2. SendSide'
  BY <1>1, SAssumed, S!SendWritesInv, S!SendWritesHist DEF SendSide
<1>3. PICK n \in Nat, k \in Nat, c \in Int, v \in Seq(S!Entry) :
        /\ vec' = v /\ queued' = queued /\ out_status = "open"
        /\ k <= L /\ Len(v) = L - k
        /\ SubSeq(old, 1, n) \in Seq(S!Unit)
        /\ old = SubSeq(old, 1, n) \o S!Units(v)
        /\ sock' = [sock EXCEPT !.buf = @ \o SubSeq(old, 1, n)]
        /\ \A i \in 1..Len(v) :
             /\ v[i].own = vec[k + i].own
             /\ S!Through(S!Lens(v))[i] = S!Through(S!Lens(vec))[k + i] - n
        /\ c = S!ClipFor(jobs, blocks_out + k) /\ (clip >= 0 => c >= 0)
        /\ IF S!repeat
           THEN /\ c # 0 /\ jobs' = jobs /\ out_status' = out_status
                /\ blocks_out' = blocks_out + k
           ELSE S!Finish(v, c, blocks_out + k)
  BY <1>1, SAssumed, S!WriteShift
<1> DEFINE taken == SubSeq(old, 1, n)
           left == S!Units(v)
           E2 == S!Through(S!Lens(v))
<1>4. /\ vec \in Seq(S!Entry) /\ old \in Seq(U)
      /\ sock \in [buf : Seq(S!Unit), eof : BOOLEAN, hup : BOOLEAN]
      /\ sock.buf \in Seq(U) /\ (R!Alive => R!Partial \in Seq(U))
      /\ L \in Nat
  BY LinkTypes
<1>5. taken \in Seq(S!Unit) /\ taken \in Seq(U) /\ left \in Seq(S!Unit) /\ left \in Seq(U)
  <2>1. left \in Seq(S!Unit)
    BY SAssumed, S!UnitsOf
  <2> QED  BY <1>3, <2>1, UnitsAreUnits
<1>6. sock'.buf = sock.buf \o taken
      /\ sock' \in [buf : Seq(S!Unit), eof : BOOLEAN, hup : BOOLEAN]
  <2> DEFINE b == sock.buf
             t == taken
  <2>1. b \in Seq(S!Unit) /\ t \in Seq(S!Unit)
    BY <1>4, <1>5
  <2>2. sock' = [sock EXCEPT !.buf = b \o t]
    BY <1>3
  <2> HIDE DEF b, t
  <2>3. b \o t \in Seq(S!Unit)
    BY ONLY <2>1, ConcatProperties
  <2>4. sock'.buf = b \o t
        /\ sock' \in [buf : Seq(S!Unit), eof : BOOLEAN, hup : BOOLEAN]
    BY ONLY <1>4, <2>2, <2>3
  <2> QED  BY <2>4 DEF b, t
<1>7. /\ Supplied' = Supplied /\ Supplied' \in Seq(Frames)
      /\ Len(Supplied) <= Len(Supplied')
      /\ \A i \in 1..Len(Supplied) : Supplied'[i] = Supplied[i]
  BY <1>3, SameSupplied
<1>8. RecvSide' /\ got' = got /\ R!Partial' = R!Partial /\ (R!Alive' <=> R!Alive)
  BY <1>6, <1>7, RecvQuiet
<1>9. Stream'
  <2> SUFFICES ASSUME R!Alive PROVE R!Rest' \o S!Units(vec') = R!Due(Supplied', Len(got'))
    BY <1>8 DEF Stream
  <2> DEFINE held == R!Partial
             b == sock.buf
             due == R!Due(Supplied, Len(got))
  <2>1. held \in Seq(U) /\ b \in Seq(U) /\ taken \in Seq(U) /\ left \in Seq(U)
    BY <1>4, <1>5
  <2>2. R!Rest' = held \o (b \o taken) /\ R!Rest = held \o b
    BY <1>6, <1>8 DEF R!Rest
  <2>3. R!Due(Supplied', Len(got')) = due /\ S!Units(vec') = left
    BY <1>3, <1>7, <1>8
  <2>4. R!Rest \o old = due
    BY DEF LinkInv, Stream
  <2>5. old = taken \o left
    BY <1>3
  <2> HIDE DEF held, b, due, taken, left, old, U
  <2>6. held \o (b \o taken) = (held \o b) \o taken
    <3>1. held \in Seq(U)
      BY ONLY <2>1
    <3>2. \A t \in Seq(U), u \in Seq(U) : held \o (t \o u) = (held \o t) \o u
      BY ONLY <3>1, Reassociate
    <3> QED  BY ONLY <2>1, <3>2
  <2>7. held \o b \in Seq(U)
    BY ONLY <2>1, ConcatProperties
  <2> DEFINE r == held \o b
  <2>8. r \in Seq(U)
    BY ONLY <2>7
  <2> HIDE DEF r
  <2>9. r \o (taken \o left) = (r \o taken) \o left
    <3>1. \A t \in Seq(U), u \in Seq(U) : r \o (t \o u) = (r \o t) \o u
      BY ONLY <2>8, Reassociate
    <3> QED  BY ONLY <2>1, <3>1
  <2>10. R!Rest = r /\ R!Rest' = r \o taken
    BY <2>2, <2>6 DEF r
  <2> QED  BY <2>3, <2>4, <2>5, <2>9, <2>10
<1>10. Behindhand'
  <2>1. \A j : R!Due(Supplied', j) = R!Due(Supplied, j)
    BY <1>7
  <2>2. Ends' = E2
    BY <1>3 DEF Ends
  <2>3. \A i \in 1..L : \A j \in vec[i].own..Len(queued) :
          Len(R!Due(Supplied, j)) <= Ends[L] - Ends[i]
    BY DEF LinkInv, Behindhand
  <2>4. \A i \in 0..L : Ends[i] \in Nat
    <3>1. S!Lens(vec) \in Seq(Nat) /\ Len(S!Lens(vec)) = L
      BY LinkTypes
    <3> QED  BY <3>1, SAssumed, S!ThroughFacts DEF Ends
  <2> DEFINE l == Len(v)
             size(j) == Len(R!Due(Supplied, j))
  <2>5. \A i \in 1..l : \A j \in v[i].own..Len(queued) : size(j) <= E2[l] - E2[i]
    <3> TAKE i \in 1..l
    <3> TAKE j \in v[i].own..Len(queued)
    <3>1. l \in Nat /\ l = L - k /\ k <= L
      BY <1>3
    <3>2. i \in 1..l /\ l \in 1..l /\ k + i \in 1..L /\ k + l = L /\ k + i \in 0..L
          /\ L \in 0..L
      <4>1. i \in 1..l /\ L \in Nat /\ k \in Nat
        BY <1>4
      <4> HIDE DEF l, L
      <4> QED  BY ONLY <3>1, <4>1
    <3>3. v[i].own = vec[k + i].own /\ E2[i] = Ends[k + i] - n /\ E2[l] = Ends[k + l] - n
      BY <1>3, <3>2 DEF Ends
    <3>4. size(j) <= Ends[L] - Ends[k + i]
      BY <2>3, <3>2, <3>3
    <3>5. Ends[L] \in Nat /\ Ends[k + i] \in Nat /\ Ends[k + l] = Ends[L]
      BY <2>4, <3>2
    <3> DEFINE a == Ends[L]
               b == Ends[k + i]
    <3>6. a \in Nat /\ b \in Nat /\ n \in Nat
      BY <3>5
    <3>7. E2[i] = b - n /\ E2[l] = a - n /\ size(j) <= a - b
      BY <3>3, <3>4, <3>5
    <3> HIDE DEF a, b, size, E2, l
    <3>8. (a - n) - (b - n) = a - b
      BY ONLY <3>6
    <3> QED  BY <3>7, <3>8
  <2> QED  BY <1>3, <2>1, <2>2, <2>5 DEF Behindhand
<1> QED  BY <1>2, <1>8, <1>9, <1>10 DEF LinkInv

(* The other steps of the sender, and its end.                             *)
LEMMA SenderLink ==
  ASSUME LinkInv, UNCHANGED recvVars,
         S!SendGivesUp \/ S!SendFails \/ S!Finalize \/ S!ResumeOut
  PROVE  LinkInv'
<1>1. S!SendInv /\ S!HistInv
  BY DEF LinkInv, SendSide
<1>2. SendSide'
  <2>1. CASE S!SendGivesUp
    BY <1>1, <2>1, SAssumed, S!SendGivesUpInv, S!SendGivesUpHist DEF SendSide
  <2>2. CASE S!SendFails \/ S!Finalize \/ S!ResumeOut
    BY <1>1, <2>2, SAssumed, S!OtherInv, S!OtherHist DEF SendSide
  <2> QED  BY <2>1, <2>2
<1>3. sock \in [buf : Seq(S!Unit), eof : BOOLEAN, hup : BOOLEAN]
  BY LinkTypes
<1>4. /\ vec' = vec /\ queued' = queued
      /\ sock' \in [buf : Seq(S!Unit), eof : BOOLEAN, hup : BOOLEAN]
      /\ sock'.buf = sock.buf
  <2>1. CASE S!SendGivesUp
    BY <1>3, <2>1 DEF S!SendGivesUp
  <2>2. CASE S!SendFails
    BY <1>3, <2>2 DEF S!SendFails
  <2>3. CASE S!ResumeOut
    BY <1>3, <2>3 DEF S!ResumeOut, S!iov
  <2>4. CASE S!Finalize
    <3>1. PICK close_fd \in BOOLEAN : sock' = [sock EXCEPT !.eof = @ \/ close_fd]
      BY <2>4 DEF S!Finalize
    <3> QED  BY <1>3, <2>4, <3>1 DEF S!Finalize, S!iov
  <2> QED  BY <2>1, <2>2, <2>3, <2>4
<1>5. RecvSide' /\ Stream' /\ Behindhand'
  BY <1>4, SenderQuiet
<1> QED  BY <1>2, <1>5 DEF LinkInv

(* The process of the sender ends: what it had written stays.              *)
LEMMA SenderDiesLink ==
  ASSUME LinkInv, SenderDies
  PROVE  LinkInv'
<1>1. /\ out_status' = "freed" /\ sock' = [sock EXCEPT !.eof = TRUE]
      /\ UNCHANGED <<vec, start, alen, clip, jobs, busy, blocks_out, aborted, queued, stops>>
      /\ UNCHANGED recvVars
  BY DEF SenderDies
<1>2. sock \in [buf : Seq(S!Unit), eof : BOOLEAN, hup : BOOLEAN]
  BY LinkTypes
<1>3. /\ sock' \in [buf : Seq(S!Unit), eof : BOOLEAN, hup : BOOLEAN]
      /\ sock'.buf = sock.buf
  BY <1>1, <1>2
<1>4. S!SendInv /\ S!HistInv
  BY DEF LinkInv, SendSide
<1>5. out_status' \in S!Status /\ (out_status' = "stopped" => out_status = "stopped")
  BY <1>1 DEF S!Status
<1>6. S!SendInv'
  BY <1>1, <1>3, <1>4, <1>5, SAssumed, S!QuietInv
<1>7. S!HistInv'
  <2>1. UNCHANGED <<vec, jobs, queued, stops>>
    BY <1>1
  <2> QED  BY <1>4, <1>5, <2>1, SAssumed, S!QuietHist
<1>8. RecvSide' /\ Stream' /\ Behindhand'
  BY <1>1, <1>3, SenderQuiet
<1> QED  BY <1>6, <1>7, <1>8 DEF LinkInv, SendSide

-----------------------------------------------------------------------------
(* What the receiver does leaves the sender alone.                         *)
LEMMA SendQuiet ==
  ASSUME LinkInv, UNCHANGED sendVars,
         sock' \in [buf : Seq(S!Unit), eof : BOOLEAN, hup : BOOLEAN]
  PROVE  /\ SendSide' /\ Behindhand' /\ Supplied' = Supplied
         /\ S!Units(vec') = S!Units(vec) /\ vec' = vec /\ queued' = queued
<1>1. UNCHANGED <<vec, start, alen, clip, jobs, busy, blocks_out, aborted, queued, stops>>
      /\ out_status' = out_status
  BY DEF sendVars
<1>2. S!SendInv /\ S!HistInv
  BY DEF LinkInv, SendSide
<1>3. out_status' \in S!Status /\ (out_status' = "stopped" => out_status = "stopped")
  BY <1>1, <1>2 DEF S!SendInv, S!TypeOK
<1>4. S!SendInv'
  BY <1>1, <1>2, <1>3, SAssumed, S!QuietInv
<1>5. S!HistInv'
  <2>1. UNCHANGED <<vec, jobs, queued, stops>>
    BY <1>1
  <2> QED  BY <1>2, <1>3, <2>1, SAssumed, S!QuietHist
<1>6. Supplied' = Supplied
  BY <1>1, SameSupplied
<1>7. Behindhand'
  <2>1. \A j : R!Due(Supplied', j) = R!Due(Supplied, j)
    BY <1>6
  <2>2. Ends' = Ends
    BY <1>1 DEF Ends
  <2> QED  BY <1>1, <2>1, <2>2 DEF LinkInv, Behindhand
<1> QED  BY <1>1, <1>4, <1>5, <1>6, <1>7 DEF SendSide

(* What a read leaves in the socket are still units of the sender.         *)
LEMMA TakesUnits ==
  ASSUME LinkInv, NEW room \in Nat, NEW answer \in R!Answers(room) \cup {R!Severe},
         R!Takes(answer)
  PROVE  sock' \in [buf : Seq(S!Unit), eof : BOOLEAN, hup : BOOLEAN]
<1> DEFINE b == sock.buf
           u == answer.units
           b2 == sock'.buf
           n == Len(u)
           left == SubSeq(b, n + 1, Len(b))
<1>1. R!TypeOK
  BY DEF LinkInv, RecvSide
<1>2. u \in Seq(R!PeerUnit) /\ b = u \o b2
      /\ sock' \in [buf : Seq(R!PeerUnit), eof : BOOLEAN, hup : BOOLEAN]
  BY <1>1, RAssumed, R!Took
<1>3. sock' = [sock EXCEPT !.buf = left]
  BY DEF R!Takes
<1>4. b \in Seq(S!Unit) /\ sock \in [buf : Seq(S!Unit), eof : BOOLEAN, hup : BOOLEAN]
  BY LinkTypes
<1>5. b2 \in Seq(R!PeerUnit)
  BY <1>2
<1> HIDE DEF b, u, b2
<1>6. n \in Nat /\ Len(b) = n + Len(b2) /\ Len(b2) \in Nat
  BY ONLY <1>2, <1>5, Joins DEF n
<1>7. n \in 0..Len(b)
  BY <1>6
<1> HIDE DEF n
<1>8. left \in Seq(S!Unit)
  BY ONLY <1>4, <1>7, Behindmost
<1> HIDE DEF left
<1> QED  BY <1>3, <1>4, <1>8 DEF b

(* Every step of mtc_fd_link_receive is such a read.                       *)
LEMMA ReceiveTakes ==
  ASSUME LinkInv, R!Receive
  PROVE  \E room \in Nat : \E answer \in R!Answers(room) \cup {R!Severe} : R!Takes(answer)
<1>1. R!TypeOK
  BY DEF LinkInv, RecvSide
<1>2. reader.len \in Nat /\ reader_v.lens \in Seq(Nat)
  BY <1>1 DEF R!TypeOK
<1>3. CASE R!ReadHeader
  <2>1. R!HeaderReader.len \in Nat
    BY <1>2 DEF R!HeaderReader, R!mtc_reader_init, R!mtc_header_min_size, R!mtc_header_sizeof
  <2>2. \E answer \in R!Answers(R!HeaderReader.len) : R!Takes(answer)
    BY <1>3 DEF R!ReadHeader
  <2> QED  BY <2>1, <2>2
<1>4. CASE R!ReadSimple
  <2>1. \E answer \in R!Answers(reader.len) : R!Takes(answer)
    BY <1>4 DEF R!ReadSimple
  <2> QED  BY <1>2, <2>1
<1>5. CASE R!ReadIndex
  <2>1. \E answer \in R!Answers(reader.len) : R!Takes(answer)
    BY <1>5 DEF R!ReadIndex
  <2> QED  BY <1>2, <2>1
<1>6. CASE R!ReadData
  <2> DEFINE room == R!Through(reader_v.lens)[Len(reader_v.lens)]
  <2>1. \E answer \in R!AnswersV(reader_v.lens) : R!Takes(answer)
    BY <1>6 DEF R!ReadData
  <2>2. room \in Nat
    <3> DEFINE lens == reader_v.lens
    <3>1. lens \in Seq(Nat)
      BY <1>2
    <3> HIDE DEF lens
    <3>2. R!Through(lens)[Len(lens)] \in Nat
      BY <3>1, RAssumed, R!ThroughFacts
    <3> QED  BY <3>2 DEF lens
  <2>3. R!AnswersV(reader_v.lens) \subseteq R!Answers(room) \cup {R!Severe}
    BY DEF R!AnswersV
  <2> QED  BY <2>1, <2>2, <2>3
<1> QED  BY <1>3, <1>4, <1>5, <1>6 DEF R!Receive

(* The receiver returns the next message that was queued, and what it has  *)
(* read, with what is behind that, are the messages after it.              *)
LEMMA DoneLink ==
  ASSUME LinkInv, in_status = "open", R!Done, R!TypeOK', UNCHANGED sendVars,
         sock' \in [buf : Seq(S!Unit), eof : BOOLEAN, hup : BOOLEAN]
  PROVE  LET n == Len(got)
             m == queued[n + 1]
         IN  /\ LinkInv'
             /\ n < Len(queued) /\ Len(got') = n + 1
             /\ got' = Append(got, Content(n + 1, m.msg, m.stop))
             /\ in_status' = IF m.stop THEN "stopped" ELSE "open"
<1> DEFINE n == Len(got)
           f == Supplied[n + 1]
           tail == S!Units(vec)
           due == R!Due(Supplied, n)
           due2 == R!Due(Supplied', Len(got'))
           all == R!Rest \o tail
           all2 == R!Rest' \o tail
<1>1. /\ SendSide' /\ Behindhand' /\ Supplied' = Supplied
      /\ S!Units(vec') = tail /\ queued' = queued
  BY SendQuiet
<1>2. R!TypeOK /\ got \in Seq(R!Messages) /\ R!ReceivedIsSent
  BY DEF LinkInv, RecvSide
<1>3. /\ tail \in Seq(R!PeerUnit) /\ sock.buf \in Seq(R!PeerUnit)
      /\ (R!Alive => R!Partial \in Seq(R!PeerUnit))
      /\ queued \in Seq([msg : Msgs, stop : BOOLEAN]) /\ n \in Nat
      /\ Supplied \in Seq(Frames) /\ Len(Supplied) = Len(queued)
  BY LinkTypes
<1>4. R!Alive
  BY DEF R!Alive
<1>5. all = due
  BY <1>4 DEF LinkInv, Stream
<1>6. all \in Seq(R!PeerUnit)
  <2> DEFINE b == sock.buf
             held == R!Partial
             r == held \o b
  <2>1. held \in Seq(R!PeerUnit) /\ b \in Seq(R!PeerUnit) /\ tail \in Seq(R!PeerUnit)
    BY <1>3, <1>4
  <2>2. all = r \o tail
    BY DEF R!Rest
  <2> HIDE DEF b, held, tail, all
  <2>3. r \in Seq(R!PeerUnit)
    BY ONLY <2>1, ConcatProperties
  <2> HIDE DEF r
  <2>4. r \o tail \in Seq(R!PeerUnit)
    BY ONLY <2>1, <2>3, ConcatProperties
  <2> QED  BY <2>2, <2>4
<1>7. R!Begins(all, due, TRUE)
  <2> HIDE DEF all, due
  <2> QED  BY <1>5, <1>6 DEF R!Begins
<1>8. /\ got' \in Seq(R!Messages) /\ R!Phases' /\ R!ReceivedIsSent'
      /\ n < Len(Supplied) /\ Len(got') = n + 1
      /\ got' = Append(got, R!Message(f, n + 1))
      /\ in_status' = IF f.stop THEN "stopped" ELSE "open"
      /\ R!Begins(all2, due2, TRUE)
  <2> HIDE DEF Frames
  <2> QED  BY <1>1, <1>2, <1>3, <1>7, RAssumed, R!DoneMeets
<1>9. n + 1 \in 1..Len(queued) /\ queued[n + 1] \in [msg : Msgs, stop : BOOLEAN]
  <2>1. n \in Nat /\ n < Len(queued) /\ Len(queued) \in Nat
    BY <1>3, <1>8
  <2> HIDE DEF n
  <2>2. n + 1 \in 1..Len(queued)
    BY ONLY <2>1
  <2> QED  BY <1>3, <2>2, ElementOfSeq
<1>10. f = FrameOf(queued[n + 1].msg, queued[n + 1].stop)
  BY <1>3, <1>9, SuppliedFacts
<1>11. f.stop = queued[n + 1].stop
  BY <1>10 DEF FrameOf
<1>12. R!Message(f, n + 1) = Content(n + 1, queued[n + 1].msg, queued[n + 1].stop)
  BY <1>3, <1>9, <1>10, QueuedFrame
<1>13. Stream'
  <2>1. all2 = due2
    BY <1>8 DEF R!Begins
  <2> QED  BY <1>1, <2>1 DEF Stream
<1>14. RecvSide'
  BY <1>8 DEF RecvSide
<1> HIDE DEF f
<1> QED  BY <1>1, <1>3, <1>8, <1>11, <1>12, <1>13, <1>14 DEF LinkInv

(* A read returns a message, or leaves all that was sent and is not        *)
(* returned yet where it can be read, or breaks the link.                  *)
LEMMA ReceiveLink ==
  ASSUME LinkInv, R!Receive, UNCHANGED sendVars
  PROVE  /\ LinkInv' /\ in_status = "open"
         /\ \/ in_status' = "open" /\ got' = got
            \/ /\ Len(got) < Len(queued) /\ Len(got') = Len(got) + 1
               /\ got' = Append(got, Content(Len(got) + 1, queued[Len(got) + 1].msg,
                                             queued[Len(got) + 1].stop))
               /\ in_status' = IF queued[Len(got) + 1].stop THEN "stopped" ELSE "open"
            \/ in_status' = "broken" /\ got' = got
<1>1. in_status = "open" /\ R!TypeOK /\ R!Phases /\ got \in Seq(R!Messages)
      /\ R!ReceivedIsSent
  BY DEF LinkInv, RecvSide, R!Receive
<1>2. sock' \in [buf : Seq(S!Unit), eof : BOOLEAN, hup : BOOLEAN]
  <2>1. PICK room \in Nat : \E answer \in R!Answers(room) \cup {R!Severe} : R!Takes(answer)
    BY ReceiveTakes
  <2> QED  BY <2>1, TakesUnits
<1>3. /\ SendSide' /\ Behindhand' /\ Supplied' = Supplied
      /\ S!Units(vec') = S!Units(vec) /\ vec' = vec /\ queued' = queued
  BY <1>2, SendQuiet
<1>4. R!ReadStep
  <2> HIDE DEF Frames
  <2>1. TRUE' \in BOOLEAN
    OBVIOUS
  <2> QED  BY <1>1, <1>3, <2>1, RAssumed, R!ReceiveStep
<1>5. R!TypeOK' /\ (R!Kept \/ R!Done \/ R!GivenUp)
  BY <1>4 DEF R!ReadStep
<1>6. CASE R!Kept
  <2>1. in_status' = "open" /\ got' = got /\ R!Rest' = R!Rest /\ R!Phases'
    BY <1>6 DEF R!Kept
  <2>2. R!Alive
    BY <1>1 DEF R!Alive
  <2>3. Stream'
    BY <1>3, <2>1, <2>2 DEF LinkInv, Stream
  <2>4. RecvSide'
    BY <1>1, <1>3, <1>5, <2>1 DEF RecvSide, R!ReceivedIsSent
  <2> QED  BY <1>1, <1>3, <2>1, <2>3, <2>4 DEF LinkInv
<1>7. CASE R!Done
  BY <1>1, <1>2, <1>5, <1>7, DoneLink
<1>8. CASE R!GivenUp
  <2>1. in_status' = "broken" /\ got' = got
    BY <1>8 DEF R!GivenUp
  <2>2. Stream' /\ R!Phases'
    BY <2>1 DEF Stream, R!Phases, R!Alive
  <2>3. RecvSide'
    BY <1>1, <1>3, <1>5, <2>1, <2>2 DEF RecvSide, R!ReceivedIsSent
  <2> QED  BY <1>1, <1>3, <2>1, <2>2, <2>3 DEF LinkInv
<1> QED  BY <1>5, <1>6, <1>7, <1>8

(* The other steps of the receiver.                                        *)
LEMMA ResumeInLink ==
  ASSUME LinkInv, R!ResumeIn, UNCHANGED sendVars
  PROVE  LinkInv'
<1>1. /\ in_status = "stopped" /\ in_status' = "open" /\ got' = got /\ sock' = sock
      /\ UNCHANGED <<read_status, reader, reader_v, header_data, mem, msg>>
  BY DEF R!ResumeIn
<1>2. sock \in [buf : Seq(S!Unit), eof : BOOLEAN, hup : BOOLEAN]
  BY LinkTypes
<1>3. /\ SendSide' /\ Behindhand' /\ Supplied' = Supplied
      /\ S!Units(vec') = S!Units(vec)
  BY <1>1, <1>2, SendQuiet
<1>4. R!Alive /\ R!Alive'
  BY <1>1 DEF R!Alive
<1>5. R!TypeOK /\ got \in Seq(R!Messages) /\ R!Phases /\ R!ReceivedIsSent
  BY DEF LinkInv, RecvSide
<1>6. R!Partial' = R!Partial /\ R!Phases'
  <2> HIDE DEF Frames
  <2> QED  BY <1>1, <1>4, <1>5, RAssumed, R!SameHeld
<1>7. Stream'
  BY <1>1, <1>3, <1>4, <1>6 DEF LinkInv, Stream, R!Rest
<1>8. R!TypeOK'
  <2> HIDE DEF Frames
  <2> QED  BY <1>1, <1>3, <1>5 DEF R!TypeOK
<1>9. R!ReceivedIsSent'
  BY <1>1, <1>3, <1>5 DEF R!ReceivedIsSent
<1> QED  BY <1>1, <1>3, <1>5, <1>6, <1>7, <1>8, <1>9 DEF LinkInv, RecvSide

(* So does mtc_fd_link_finalize of the receiving link, which closes its    *)
(* end of the socket or leaves it open, and keeps what it had returned.    *)
LEMMA FinalizeInLink ==
  ASSUME LinkInv, R!Finalize, UNCHANGED sendVars
  PROVE  LinkInv'
<1>1. PICK close_fd \in BOOLEAN : sock' = [sock EXCEPT !.hup = @ \/ close_fd]
  BY DEF R!Finalize
<1>2. /\ in_status' = "freed" /\ mem' = "none" /\ msg' = <<>> /\ got' = got
      /\ UNCHANGED <<read_status, reader, reader_v, header_data>>
  BY DEF R!Finalize
<1>3. sock \in [buf : Seq(S!Unit), eof : BOOLEAN, hup : BOOLEAN]
  BY LinkTypes
<1>4. sock' \in [buf : Seq(S!Unit), eof : BOOLEAN, hup : BOOLEAN]
  BY <1>1, <1>3
<1>5. SendSide' /\ Behindhand' /\ Supplied' = Supplied
  BY <1>4, SendQuiet
<1>6. R!TypeOK /\ got \in Seq(R!Messages) /\ R!ReceivedIsSent
  BY DEF LinkInv, RecvSide
<1>7. sock' \in [buf : Seq(R!PeerUnit), eof : BOOLEAN, hup : BOOLEAN]
  BY <1>4, UnitsAreUnits
<1>8. R!TypeOK'
  <2> HIDE DEF Frames
  <2>1. <<>> \in Seq(Nat \ {0})
    OBVIOUS
  <2> QED  BY <1>2, <1>5, <1>6, <1>7, <2>1 DEF R!TypeOK
<1>9. Stream' /\ R!Phases'
  BY <1>2 DEF Stream, R!Phases, R!Alive
<1>10. R!ReceivedIsSent'
  BY <1>2, <1>5, <1>6 DEF R!ReceivedIsSent
<1> QED  BY <1>2, <1>5, <1>6, <1>8, <1>9, <1>10 DEF LinkInv, RecvSide

(* A step that changes nothing.                                            *)
LEMMA StutterLink ==
  ASSUME LinkInv, UNCHANGED linkVars
  PROVE  LinkInv'
<1>1. UNCHANGED sendVars /\ UNCHANGED recvVars /\ sock' = sock
  BY DEF linkVars
<1>2. vec' = vec /\ queued' = queued
  BY <1>1 DEF sendVars
<1>3. sock \in [buf : Seq(S!Unit), eof : BOOLEAN, hup : BOOLEAN]
  BY LinkTypes
<1>4. SendSide'
  BY <1>1, <1>3, SendQuiet
<1>5. RecvSide' /\ Stream' /\ Behindhand'
  BY <1>1, <1>2, <1>3, SenderQuiet
<1> QED  BY <1>4, <1>5 DEF LinkInv

(* Every step of the link keeps the invariant.                             *)
LEMMA LinkStep == LinkInv /\ [Next]_linkVars => LinkInv'
<1> SUFFICES ASSUME LinkInv, [Next]_linkVars PROVE LinkInv'
  OBVIOUS
<1>1. CASE Queue /\ UNCHANGED recvVars
  BY <1>1, QueueLink
<1>2. CASE Send
  <2>1. UNCHANGED recvVars /\ (S!SendWrites \/ S!SendGivesUp \/ S!SendFails)
    BY <1>2, SameSend DEF Send, S!Send
  <2> QED  BY <2>1, WriteLink, SenderLink
<1>3. CASE Receive
  BY <1>3, SameReceive, ReceiveLink DEF Receive
<1>4. CASE ResumeOut
  BY <1>4, SameOthers, SenderLink DEF ResumeOut
<1>5. CASE ResumeIn
  BY <1>5, SameReceiver, ResumeInLink DEF ResumeIn
<1>6. CASE Sender!Finalize /\ UNCHANGED recvVars
  BY <1>6, SameOthers, SenderLink
<1>7. CASE Receiver!Finalize /\ UNCHANGED sendVars
  BY <1>7, SameReceiver, FinalizeInLink
<1>8. CASE SenderDies
  BY <1>8, SenderDiesLink
<1>9. CASE UNCHANGED linkVars
  BY <1>9, StutterLink
<1> QED  BY <1>1, <1>2, <1>3, <1>4, <1>5, <1>6, <1>7, <1>8, <1>9 DEF Next

(* In every reachable state of the link both halves keep what they promise *)
(* alone, and nothing of the stream between them is lost.                  *)
THEOREM LinkInvariant == Spec => []LinkInv
<1>1. Init => LinkInv
  BY LinkInit
<1>2. LinkInv /\ [Next]_linkVars => LinkInv'
  BY LinkStep
<1> QED  BY <1>1, <1>2, PTL DEF Spec

-----------------------------------------------------------------------------
(* What the channel sees of the link, and which of its actions each step   *)
(* is.                                                                     *)
AnyContent == {Content(k, m, stop) : k \in Nat, m \in Msgs, stop \in BOOLEAN}

(* The accepted messages are those that were queued.                       *)
LEMMA AcceptedFacts ==
  ASSUME queued \in Seq([msg : Msgs, stop : BOOLEAN])
  PROVE  /\ Accepted \in Seq(AnyContent) /\ Len(Accepted) = Len(queued)
         /\ \A k \in 1..Len(queued) :
              /\ Accepted[k] = Content(k, queued[k].msg, queued[k].stop)
              /\ Accepted[k].stop = queued[k].stop
<1>1. \A k \in 1..Len(queued) : queued[k] \in [msg : Msgs, stop : BOOLEAN]
  BY ElementOfSeq
<1>2. Len(queued) \in Nat
  OBVIOUS
<1>3. \A k \in 1..Len(queued) : Content(k, queued[k].msg, queued[k].stop) \in AnyContent
  BY <1>1 DEF AnyContent
<1>4. \A k, m, stop : Content(k, m, stop).stop = stop
  BY DEF Content
<1> HIDE DEF AnyContent
<1> QED  BY <1>2, <1>3, <1>4 DEF Accepted

(* One more of them.                                                       *)
LEMMA QueueAccepts ==
  ASSUME queued \in Seq([msg : Msgs, stop : BOOLEAN]),
         NEW m \in Msgs, NEW stop \in BOOLEAN,
         queued' = Append(queued, [msg |-> m, stop |-> stop])
  PROVE  Accepted' = Append(Accepted, Content(Len(queued) + 1, m, stop))
<1> DEFINE n == Len(queued)
           c == Content(n + 1, m, stop)
           new == Append(Accepted, c)
<1>1. /\ Accepted \in Seq(AnyContent) /\ Len(Accepted) = n
      /\ \A k \in 1..n : Accepted[k] = Content(k, queued[k].msg, queued[k].stop)
  BY AcceptedFacts
<1>2. n \in Nat /\ Len(queued') = n + 1 /\ queued'[n + 1] = [msg |-> m, stop |-> stop]
      /\ \A k \in 1..n : queued'[k] = queued[k]
  OBVIOUS
<1>3. c \in AnyContent
  <2>1. n + 1 \in Nat
    BY <1>2
  <2> QED  BY <2>1 DEF AnyContent
<1> HIDE DEF AnyContent
<1>4. Accepted' = [k \in 1..(n + 1) |-> Content(k, queued'[k].msg, queued'[k].stop)]
  <2>1. \A k : Content(k, queued[k].msg, queued[k].stop)'
                 = Content(k, queued'[k].msg, queued'[k].stop)
    BY DEF Content, Sender!BlockUnits, Sender!Byte
  <2> QED  BY <1>2, <2>1 DEF Accepted
<1>5. new \in Seq(AnyContent) /\ Len(new) = n + 1 /\ new[n + 1] = c
      /\ \A k \in 1..n : new[k] = Accepted[k]
  <2> HIDE DEF c
  <2> QED  BY <1>1, <1>3, AppendProperties
<1>6. new = [k \in 1..(n + 1) |-> new[k]]
  <2> HIDE DEF new, n
  <2> QED  BY <1>2, <1>5
<1>7. \A k \in 1..(n + 1) : new[k] = Content(k, queued'[k].msg, queued'[k].stop)
  <2> HIDE DEF new
  <2>1. \A k \in 1..(n + 1) : k \in 1..n \/ k = n + 1
    BY <1>2
  <2> QED  BY <1>1, <1>2, <1>5, <2>1
<1> HIDE DEF new
<1>8. Accepted' = new
  BY <1>4, <1>6, <1>7
<1> QED  BY <1>8 DEF new, c, n

(* None more.                                                              *)
LEMMA SameAccepted ==
  ASSUME queued' = queued
  PROVE  Accepted' = Accepted
<1>1. \A k, m, stop : Content(k, m, stop)' = Content(k, m, stop)
  BY DEF Content, Sender!BlockUnits, Sender!Byte
<1> QED  BY <1>1 DEF Accepted

(* A new link is a new channel.                                            *)
LEMMA ChannelInit == Init => Channel!Init
<1> SUFFICES ASSUME Init PROVE Channel!Init
  OBVIOUS
<1>1. vec = <<>> /\ queued = <<>> /\ out_status = "open" /\ got = <<>> /\ in_status = "open"
  BY DEF Init, Sender!Init, Receiver!Init
<1>2. Accepted = <<>> /\ Passed = 0
  BY <1>1 DEF Accepted, Passed
<1> QED  BY <1>1, <1>2 DEF Channel!Init, End

(* mtc_link_queue accepts a message, which has not left.                   *)
LEMMA QueueAccept ==
  ASSUME LinkInv, Queue, UNCHANGED recvVars
  PROVE  \E c \in Contents : Channel!Accept(c)
<1>1. PICK m \in Msgs, stop \in BOOLEAN : S!Queue(m, stop)
  BY SameQueue DEF Queue
<1> DEFINE k == Len(queued) + 1
           new == S!Entries(k, m, stop)
           c == Content(k, m, stop)
<1>2. /\ out_status \notin {"broken", "freed"} /\ Len(queued) < MaxQueue
      /\ queued' = Append(queued, [msg |-> m, stop |-> stop])
      /\ out_status' = out_status
  BY <1>1 DEF S!Queue
<1>3. /\ queued \in Seq([msg : Msgs, stop : BOOLEAN]) /\ vec \in Seq(S!Entry)
      /\ Len(queued) \in Nat
  BY LinkTypes
<1>4. Accepted' = Append(Accepted, c)
  BY <1>2, <1>3, QueueAccepts
<1>5. c \in Contents
  <2>1. k \in 1..MaxQueue
    BY <1>2, <1>3, LinkAssumptions
  <2> QED  BY <2>1 DEF Contents
<1>6. out_status \in S!Status
  BY DEF LinkInv, SendSide, S!SendInv, S!TypeOK
<1>7. End(out_status) # "down" /\ End(out_status') = End(out_status)
      /\ End(in_status') = End(in_status) /\ got' = got
  BY <1>2, <1>6 DEF End, S!Status, recvVars
<1>8. Passed' = Passed
  <2>1. /\ new \in Seq(S!Entry) /\ vec' = vec \o new /\ Len(queued') = k
        /\ \A i \in 1..Len(new) : new[i].own = k
    BY <1>1, QueueGrows
  <2>2. Len(new) > 0
    <3>1. k \in Nat
      BY <1>3
    <3>2. Len(new) = Len(Blocks[m]) + 1
      BY <3>1, SAssumed, S!EntriesType
    <3>3. Len(Blocks[m]) \in Nat
      BY LinkAssumptions
    <3> QED  BY <3>2, <3>3
  <2> DEFINE s == new
             v == vec'
  <2>3. s \in Seq(S!Entry) /\ vec \in Seq(S!Entry) /\ v = vec \o s
    BY <1>3, <2>1
  <2> HIDE DEF s, v
  <2>4. /\ v \in Seq(S!Entry) /\ Len(v) = Len(vec) + Len(s)
        /\ \A i \in 1..Len(vec) : v[i] = vec[i]
        /\ \A i \in 1..Len(s) : v[Len(vec) + i] = s[i]
    BY ONLY <2>3, Joins
  <2>5. Len(s) > 0 /\ Len(s) \in Nat /\ Len(vec) \in Nat /\ s[1].own = k
    BY <1>3, <2>1, <2>2 DEF s
  <2>6. v # <<>>
    BY <2>4, <2>5
  <2>7. CASE vec = <<>>
    <3>1. Len(vec) + 1 = 1 /\ 1 \in 1..Len(s)
      BY <2>5, <2>7
    <3>2. v[1].own = k
      BY <2>4, <2>5, <3>1
    <3>3. Passed' = k - 1 /\ Passed = Len(queued)
      BY <2>6, <2>7, <3>2 DEF Passed, v
    <3> QED  BY <1>3, <3>3
  <2>8. CASE vec # <<>>
    <3>1. 1 \in 1..Len(vec)
      BY <1>3, <2>8
    <3>2. v[1] = vec[1]
      BY <2>4, <3>1
    <3> QED  BY <2>6, <2>8, <3>2 DEF Passed, v
  <2> QED  BY <2>7, <2>8
<1> HIDE DEF c
<1>9. Channel!Accept(c)
  BY <1>4, <1>7, <1>8 DEF Channel!Accept
<1> QED  BY <1>5, <1>9

(* A round of mtc_fd_link_send lets messages pass, or none; after one with *)
(* a stop signal the sender is stopped.                                    *)
LEMMA SendPass ==
  ASSUME LinkInv, LinkInv', S!SendWrites \/ S!SendGivesUp, UNCHANGED recvVars
  PROVE  \/ \E n \in 1..Len(Accepted) : Channel!Pass(n)
         \/ UNCHANGED Channel!chanVars
<1>1. S!SendInv /\ S!HistInv /\ S!SendInv' /\ S!HistInv'
  BY DEF LinkInv, SendSide
<1>2. /\ out_status = "open" /\ queued' = queued
      /\ S!Gone \in 0..Len(queued) /\ S!Gone' \in S!Gone..Len(queued)
      /\ \A i \in (S!Gone + 1)..(S!Gone' - 1) : ~queued[i].stop
      /\ out_status' = IF S!Gone' # S!Gone /\ queued[S!Gone'].stop
                       THEN "stopped" ELSE "open"
  BY <1>1, SAssumed, S!SendPasses
<1>3. S!Gone = Passed /\ S!Gone' = Passed'
  BY DEF S!Gone, Passed
<1>4. queued \in Seq([msg : Msgs, stop : BOOLEAN]) /\ Len(queued) \in Nat
  BY LinkTypes
<1>5. /\ Accepted' = Accepted /\ Len(Accepted) = Len(queued)
      /\ \A k \in 1..Len(queued) : Accepted[k].stop = queued[k].stop
  BY <1>2, <1>4, AcceptedFacts, SameAccepted
<1>6. got' = got /\ End(in_status') = End(in_status)
  BY DEF recvVars, End
<1> DEFINE p == Passed
           n == Passed'
           q == Len(queued)
<1>7. /\ p \in 0..q /\ n \in p..q /\ \A i \in (p + 1)..(n - 1) : ~queued[i].stop
      /\ out_status' = IF n # p /\ queued[n].stop THEN "stopped" ELSE "open"
  BY <1>2, <1>3
<1> HIDE DEF p, n, q
<1>8. CASE n = p
  <2>1. End(out_status) = "open" /\ End(out_status') = "open"
    BY <1>2, <1>7, <1>8 DEF End
  <2> QED  BY <1>5, <1>6, <1>8, <2>1 DEF Channel!chanVars, n, p
<1>9. CASE n # p
  <2>1. q \in Nat
    BY <1>4 DEF q
  <2>2. n \in 1..q /\ p < n
    BY ONLY <1>7, <1>9, <2>1
  <2>3. \A i \in (p + 1)..(n - 1) : i \in 1..q
    BY ONLY <1>7, <2>1
  <2>4. \A i \in (p + 1)..(n - 1) : ~Accepted[i].stop
    BY <1>5, <1>7, <2>3 DEF q
  <2>5. Accepted[n].stop = queued[n].stop
    BY <1>5, <2>2 DEF q
  <2>6. End(out_status) = "open" /\ End(out_status') = IF Accepted[n].stop THEN "stopped" ELSE "open"
    BY <1>2, <1>7, <1>9, <2>5 DEF End
  <2>7. Channel!Pass(n)
    BY <1>5, <1>6, <2>2, <2>4, <2>6 DEF Channel!Pass, n, p
  <2> QED  BY <1>5, <2>2, <2>7 DEF q
<1> QED  BY <1>8, <1>9

(* What the receiver holds are units.                                      *)
LEMMA HeldUnits == LinkInv /\ R!Alive => R!Partial \in Seq(R!PeerUnit)
  BY LinkTypes

(* A message that is returned has passed: were one of its entries, or one  *)
(* of an earlier message, still in the vector, the vector would cover more *)
(* units than the messages behind it have.                                 *)
LEMMA ReturnedHasPassed ==
  ASSUME LinkInv, LinkInv', R!Alive', vec' = vec, queued' = queued,
         Len(got) < Len(queued), Len(got') = Len(got) + 1, sock'.buf \in Seq(R!PeerUnit)
  PROVE  Len(got) < Passed
<1> DEFINE n == Len(got)
           units == S!Units(vec)
           E == Ends
           L == Len(vec)
           due == R!Due(Supplied, n + 1)
<1>1. /\ vec \in Seq(S!Entry) /\ S!NoEmptyEntry /\ S!Lens(vec) \in Seq(Nat \ {0})
      /\ Len(S!Lens(vec)) = L /\ L \in Nat
      /\ Len(units) = E[L] /\ n \in Nat /\ Len(queued) \in Nat
      /\ Supplied \in Seq(Frames) /\ Len(Supplied) = Len(queued)
      /\ units \in Seq(R!PeerUnit)
  BY LinkTypes
<1>2. CASE vec = <<>>
  BY <1>1, <1>2 DEF Passed
<1>3. CASE vec # <<>>
  <2>1. 1 \in 1..L /\ vec[1] \in S!Entry
    BY <1>1, <1>3
  <2>2. Passed = vec[1].own - 1 /\ vec[1].own \in Nat
    BY <1>3, <2>1 DEF Passed, S!Entry
  <2>3. SUFFICES ASSUME vec[1].own <= n + 1 PROVE FALSE
    BY <1>1, <2>2
  <2>4. n + 1 \in vec[1].own..Len(queued)
    BY <1>1, <2>2, <2>3
  <2>5. Len(due) <= E[L] - E[1]
    BY <2>1, <2>4 DEF LinkInv, Behindhand
  <2>6. E[1] \in Nat \ {0} /\ E[L] \in Nat
    <3> DEFINE lens == S!Lens(vec)
    <3>1. lens \in Seq(Nat \ {0}) /\ lens \in Seq(Nat) /\ Len(lens) = L
      BY LinkTypes
    <3>2. 0 \in 0..Len(lens) /\ 1 \in 0..Len(lens) /\ L \in 0..Len(lens)
      BY <1>1, <2>1, <3>1
    <3> HIDE DEF lens
    <3>3. S!Through(lens)[0] < S!Through(lens)[1]
      BY <3>1, <3>2, SAssumed, S!ThroughStrict
    <3>4. /\ S!Through(lens)[0] \in Nat /\ S!Through(lens)[1] \in Nat
          /\ S!Through(lens)[L] \in Nat
      BY <3>1, <3>2, SAssumed, S!ThroughFacts
    <3>5. E = S!Through(lens)
      BY DEF Ends, lens
    <3> QED  BY <3>3, <3>4, <3>5
  <2>7. Len(units) <= Len(due)
    <3> DEFINE rest == R!Rest'
    <3>1. Supplied' = Supplied
      BY SameSupplied
    <3>2. rest \o units = due
      BY <3>1 DEF LinkInv, Stream
    <3>3. rest \in Seq(R!PeerUnit)
      <4> DEFINE held == R!Partial'
                 b == sock'.buf
      <4>1. held \in Seq(R!PeerUnit) /\ b \in Seq(R!PeerUnit)
        <5>1. (LinkInv /\ R!Alive => R!Partial \in Seq(R!PeerUnit))'
          BY HeldUnits, PTL
        <5> QED  BY <5>1
      <4> HIDE DEF held, b
      <4>2. held \o b \in Seq(R!PeerUnit)
        BY ONLY <4>1, ConcatProperties
      <4> QED  BY <4>2 DEF held, b, R!Rest
    <3>4. units \in Seq(R!PeerUnit)
      BY <1>1
    <3> HIDE DEF rest, units, due
    <3>5. Len(due) = Len(rest) + Len(units) /\ Len(rest) \in Nat /\ Len(units) \in Nat
      BY ONLY <3>2, <3>3, <3>4, Joins
    <3> QED  BY <3>5
  <2> DEFINE a == E[L]
             b == E[1]
             x == Len(due)
  <2>8. a <= x /\ x <= a - b /\ a \in Nat /\ b \in Nat \ {0} /\ x \in Nat
    <3>1. due \in Seq(R!PeerUnit)
      <4>1. n + 1 \in 0..Len(Supplied)
        BY <1>1
      <4> HIDE DEF n, Frames
      <4> QED  BY <1>1, <4>1, RAssumed, R!FramesType
    <3>2. x \in Nat
      <4> HIDE DEF due
      <4> QED  BY <3>1
    <3> QED  BY <1>1, <2>5, <2>6, <2>7, <3>2
  <2> HIDE DEF a, b, x
  <2> QED  BY ONLY <2>8
<1> QED  BY <1>2, <1>3

(* mtc_fd_link_receive delivers a message, or goes down, or nothing is to  *)
(* be seen of it.                                                          *)
LEMMA ReceiveDelivers ==
  ASSUME LinkInv, R!Receive, UNCHANGED sendVars
  PROVE  Channel!Deliver \/ Channel!GoesDown \/ UNCHANGED Channel!chanVars
<1> DEFINE n == Len(got)
           m == queued[n + 1]
<1>1. /\ LinkInv' /\ in_status = "open"
      /\ \/ in_status' = "open" /\ got' = got
         \/ /\ n < Len(queued) /\ Len(got') = n + 1
            /\ got' = Append(got, Content(n + 1, m.msg, m.stop))
            /\ in_status' = IF m.stop THEN "stopped" ELSE "open"
         \/ in_status' = "broken" /\ got' = got
  BY ReceiveLink
<1>2. vec' = vec /\ queued' = queued /\ out_status' = out_status
  BY DEF sendVars
<1>3. Accepted' = Accepted /\ Passed' = Passed /\ End(out_status') = End(out_status)
  BY <1>2, SameAccepted DEF Passed
<1>4. CASE in_status' = "open" /\ got' = got
  BY <1>1, <1>3, <1>4 DEF Channel!chanVars
<1>5. CASE in_status' = "broken" /\ got' = got
  BY <1>3, <1>5 DEF Channel!GoesDown, End
<1>6. CASE /\ n < Len(queued) /\ Len(got') = n + 1
           /\ got' = Append(got, Content(n + 1, m.msg, m.stop))
           /\ in_status' = IF m.stop THEN "stopped" ELSE "open"
  <2>1. /\ queued \in Seq([msg : Msgs, stop : BOOLEAN]) /\ Len(queued) \in Nat /\ n \in Nat
    BY LinkTypes
  <2>2. n + 1 \in 1..Len(queued)
    BY <1>6, <2>1
  <2>3. Accepted[n + 1] = Content(n + 1, m.msg, m.stop) /\ Accepted[n + 1].stop = m.stop
    BY <2>1, <2>2, AcceptedFacts
  <2>4. R!Alive'
    BY <1>6 DEF R!Alive
  <2>5. sock'.buf \in Seq(R!PeerUnit)
    BY <1>1 DEF LinkInv, RecvSide, R!TypeOK
  <2>6. n < Passed
    BY <1>1, <1>2, <1>6, <2>4, <2>5, ReturnedHasPassed
  <2>7. End(in_status) = "open"
        /\ End(in_status') = IF Accepted[n + 1].stop THEN "stopped" ELSE "open"
    BY <1>1, <1>6, <2>3 DEF End
  <2>8. got' = Append(got, Accepted[n + 1])
    BY <1>6, <2>3
  <2> QED  BY <1>3, <2>6, <2>7, <2>8 DEF Channel!Deliver
<1> QED  BY <1>1, <1>4, <1>5, <1>6

(* Every step of the link is one of the channel, or is not seen there.     *)
LEMMA ChannelStep ==
  LinkInv /\ LinkInv' /\ [Next]_linkVars => [Channel!Next]_Channel!chanVars
<1> SUFFICES ASSUME LinkInv, LinkInv', [Next]_linkVars
             PROVE  Channel!Next \/ UNCHANGED Channel!chanVars
  OBVIOUS
<1>1. CASE Queue /\ UNCHANGED recvVars
  BY <1>1, QueueAccept DEF Channel!Next
<1>2. CASE Send
  <2>1. UNCHANGED recvVars /\ (S!SendWrites \/ S!SendGivesUp \/ S!SendFails)
    BY <1>2, SameSend DEF Send, S!Send
  <2>2. CASE S!SendFails
    <3>1. /\ out_status' = "broken" /\ vec' = vec /\ queued' = queued
          /\ got' = got /\ in_status' = in_status
      BY <2>1, <2>2 DEF S!SendFails, recvVars
    <3>2. Accepted' = Accepted /\ Passed' = Passed
      BY <3>1, SameAccepted DEF Passed
    <3>3. Channel!GoesDown
      BY <3>1, <3>2 DEF Channel!GoesDown, End
    <3> QED  BY <3>3 DEF Channel!Next
  <2> QED  BY <2>1, <2>2, SendPass DEF Channel!Next
<1>3. CASE Receive
  BY <1>3, SameReceive, ReceiveDelivers DEF Receive, Channel!Next
<1>4. CASE ResumeOut
  <2>1. /\ out_status = "stopped" /\ out_status' = "open" /\ vec' = vec
        /\ queued' = queued /\ got' = got /\ in_status' = in_status
    BY <1>4, SameOthers DEF ResumeOut, S!ResumeOut, S!iov, recvVars
  <2>2. Accepted' = Accepted /\ Passed' = Passed
    BY <2>1, SameAccepted DEF Passed
  <2>3. Channel!ResumeOut
    BY <2>1, <2>2 DEF Channel!ResumeOut, End
  <2> QED  BY <2>3 DEF Channel!Next
<1>5. CASE ResumeIn
  <2>1. /\ in_status = "stopped" /\ in_status' = "open" /\ got' = got /\ vec' = vec
        /\ queued' = queued /\ out_status' = out_status
    BY <1>5, SameReceiver DEF ResumeIn, R!ResumeIn, sendVars
  <2>2. Accepted' = Accepted /\ Passed' = Passed
    BY <2>1, SameAccepted DEF Passed
  <2>3. Channel!ResumeIn
    BY <2>1, <2>2 DEF Channel!ResumeIn, End
  <2> QED  BY <2>3 DEF Channel!Next
<1>6. CASE (Sender!Finalize /\ UNCHANGED recvVars) \/ SenderDies
  <2>1. /\ out_status' = "freed" /\ vec' = vec /\ queued' = queued
        /\ got' = got /\ in_status' = in_status
    BY <1>6, SameOthers DEF S!Finalize, S!iov, SenderDies, recvVars
  <2>2. Accepted' = Accepted /\ Passed' = Passed
    BY <2>1, SameAccepted DEF Passed
  <2>3. Channel!GoesDown
    BY <2>1, <2>2 DEF Channel!GoesDown, End
  <2> QED  BY <2>3 DEF Channel!Next
<1>7. CASE Receiver!Finalize /\ UNCHANGED sendVars
  <2>1. /\ in_status' = "freed" /\ got' = got /\ vec' = vec
        /\ queued' = queued /\ out_status' = out_status
    BY <1>7, SameReceiver DEF R!Finalize, sendVars
  <2>2. Accepted' = Accepted /\ Passed' = Passed
    BY <2>1, SameAccepted DEF Passed
  <2>3. Channel!GoesDown
    BY <2>1, <2>2 DEF Channel!GoesDown, End
  <2> QED  BY <2>3 DEF Channel!Next
<1>8. CASE UNCHANGED linkVars
  <2>1. /\ vec' = vec /\ queued' = queued /\ out_status' = out_status
        /\ in_status' = in_status /\ got' = got
    BY <1>8 DEF linkVars, sendVars, recvVars
  <2> QED  BY <2>1, SameAccepted DEF Channel!chanVars, Passed, End
<1> QED  BY <1>1, <1>2, <1>3, <1>4, <1>5, <1>6, <1>7, <1>8 DEF Next

(* The two halves of fd_link.c and the socket between them implement the   *)
(* channel: what is queued comes out in order, once and whole, and nothing *)
(* passes a stop signal that was not resumed, whatever the messages, the   *)
(* sizes of the writes and reads, and whenever an end is lost.             *)
THEOREM LinkImplementsChannel == Spec => ImplementsChannel
<1>1. Spec => []LinkInv
  BY LinkInvariant
<1>2. Init => Channel!Init
  BY ChannelInit
<1>3. LinkInv /\ LinkInv' /\ [Next]_linkVars => [Channel!Next]_Channel!chanVars
  BY ChannelStep
<1> QED  BY <1>1, <1>2, <1>3, PTL DEF Spec, ImplementsChannel, Channel!Spec

-----------------------------------------------------------------------------
(* What breaks a link.                                                     *)

(* No call fails by itself, and readv takes every message.                 *)
NoFailures ==
  /\ Faults = {}
  /\ \A m \in Msgs : IovMax > 0 => Len(Blocks[m]) <= IovMax \/ Len(Blocks[m]) = 1

(* The receiver takes whatever is queued, as long as the sender lives.     *)
LEMMA ReceiveBreaks ==
  ASSUME NoFailures, LinkInv, R!Receive, in_status' = "broken", ~sock.eof
  PROVE  FALSE
<1> DEFINE n == Len(got)
           rest == R!Rest
           units == S!Units(vec)
           due == R!Due(Supplied, n)
<1>1. in_status = "open" /\ R!Alive
  BY DEF R!Receive, R!Alive
<1>2. R!TypeOK /\ got \in Seq(R!Messages) /\ R!Phases /\ R!ReceivedIsSent
  BY DEF LinkInv, RecvSide
<1>3. /\ units \in Seq(R!PeerUnit) /\ sock.buf \in Seq(R!PeerUnit)
      /\ R!Partial \in Seq(R!PeerUnit)
      /\ queued \in Seq([msg : Msgs, stop : BOOLEAN]) /\ n \in Nat
      /\ Len(queued) \in Nat /\ Len(Supplied) = Len(queued)
  BY <1>1, LinkTypes
<1>4. R!Begins(rest, due, FALSE)
  <2>1. rest \o units = due
    BY <1>1 DEF LinkInv, Stream
  <2>2. rest \in Seq(R!PeerUnit)
    <3> DEFINE held == R!Partial
               b == sock.buf
    <3>1. held \in Seq(R!PeerUnit) /\ b \in Seq(R!PeerUnit)
      BY <1>3
    <3> HIDE DEF held, b
    <3>2. held \o b \in Seq(R!PeerUnit)
      BY ONLY <3>1, ConcatProperties
    <3> QED  BY <3>2 DEF held, b, R!Rest
  <2>3. units \in Seq(R!PeerUnit)
    BY <1>3
  <2> HIDE DEF rest, units, due
  <2>4. /\ Len(due) = Len(rest) + Len(units) /\ Len(rest) \in Nat /\ Len(units) \in Nat
        /\ \A i \in 1..Len(rest) : due[i] = rest[i]
    BY ONLY <2>1, <2>2, <2>3, Joins
  <2> QED  BY <2>4 DEF R!Begins
<1>5. R!Reading
  <2> HIDE DEF Frames
  <2> QED  BY <1>2, <1>4 DEF R!Reading
<1>6. n < Len(Supplied) /\ ~R!Good(Supplied[n + 1])
  <2>1. Faults = {}
    BY DEF NoFailures
  <2> HIDE DEF Frames, n
  <2> QED  BY <1>5, <2>1, RAssumed, R!GoodFramesBreakNothing DEF n
<1>7. n + 1 \in 1..Len(queued) /\ queued[n + 1] \in [msg : Msgs, stop : BOOLEAN]
  <2> HIDE DEF n
  <2>1. n + 1 \in 1..Len(queued)
    BY <1>3, <1>6
  <2> QED  BY <1>3, <2>1, ElementOfSeq
<1> DEFINE m == queued[n + 1].msg
           stop == queued[n + 1].stop
<1>8. Supplied[n + 1] = FrameOf(m, stop) /\ m \in Msgs
  BY <1>3, <1>7, SuppliedFacts
<1>9. R!Good(FrameOf(m, stop))
  <2>1. /\ Blocks[m] # <<>> /\ Blocks[m] \in Seq(Nat \ {0})
        /\ IovMax > 0 => Len(Blocks[m]) <= IovMax \/ Len(Blocks[m]) = 1
    BY <1>8, LinkAssumptions DEF NoFailures
  <2>2. \A b \in 1..Len(Blocks[m]) : Blocks[m][b] # 0
    BY <2>1
  <2> QED  BY <2>1, <2>2 DEF R!Good, FrameOf
<1> QED  BY <1>6, <1>8, <1>9

(* A link breaks only because of the other end: neither side gives up over *)
(* a message that fits, or over a short read or write.                     *)
THEOREM OnlyLossBreaks ==
  ASSUME NoFailures
  PROVE  Spec => []BrokenByLossOnly
<1>1. Init => BrokenByLossOnly
  BY DEF Init, Sender!Init, Receiver!Init, BrokenByLossOnly
<1>2. LinkInv /\ LinkInv' /\ BrokenByLossOnly /\ [Next]_linkVars => BrokenByLossOnly'
  <2> SUFFICES ASSUME LinkInv, LinkInv', BrokenByLossOnly, [Next]_linkVars
               PROVE  BrokenByLossOnly'
    OBVIOUS
  <2>1. /\ sock \in [buf : Seq(S!Unit), eof : BOOLEAN, hup : BOOLEAN]
        /\ S!SendInv /\ S!HistInv /\ S!SendInv' /\ S!HistInv'
    BY LinkTypes DEF LinkInv, SendSide
  <2>2. CASE Queue /\ UNCHANGED recvVars
    <3>1. PICK m \in Msgs, stop \in BOOLEAN : S!Queue(m, stop)
      BY <2>2, SameQueue DEF Queue
    <3>2. sock' = sock /\ out_status' = out_status /\ in_status' = in_status
      BY <2>2, <3>1 DEF S!Queue, recvVars
    <3> QED  BY <3>2 DEF BrokenByLossOnly
  <2>3. CASE S!SendWrites /\ UNCHANGED recvVars
    <3>1. sock'.eof = sock.eof /\ sock'.hup = sock.hup /\ in_status' = in_status
      BY <2>1, <2>3 DEF S!SendWrites, recvVars
    <3>2. out_status' \in {"stopped", "open"}
      BY <2>1, <2>3, SAssumed, S!SendPasses
    <3> QED  BY <3>1, <3>2 DEF BrokenByLossOnly
  <2>4. CASE S!SendGivesUp /\ UNCHANGED recvVars
    <3>1. sock' = sock /\ in_status' = in_status
      BY <2>4 DEF S!SendGivesUp, recvVars
    <3>2. out_status' \in {"stopped", "open"}
      BY <2>1, <2>4, SAssumed, S!SendPasses
    <3> QED  BY <3>1, <3>2 DEF BrokenByLossOnly
  <2>5. CASE S!SendFails /\ UNCHANGED recvVars
    <3>1. sock' = sock /\ in_status' = in_status /\ sock.hup
      BY <2>5 DEF S!SendFails, recvVars, NoFailures
    <3> QED  BY <3>1 DEF BrokenByLossOnly
  <2>6. CASE Receive
    <3>1. R!Receive /\ UNCHANGED sendVars
      BY <2>6, SameReceive DEF Receive
    <3>2. sock'.eof = sock.eof /\ sock'.hup = sock.hup
      <4>1. PICK room \in Nat : \E answer \in R!Answers(room) \cup {R!Severe} : R!Takes(answer)
        BY <3>1, ReceiveTakes
      <4> QED  BY <2>1, <4>1 DEF R!Takes
    <3>3. out_status' = out_status
      BY <3>1 DEF sendVars
    <3>4. in_status' = "broken" => sock.eof
      BY <3>1, ReceiveBreaks
    <3> QED  BY <3>2, <3>3, <3>4 DEF BrokenByLossOnly
  <2>7. CASE ResumeOut
    <3>1. out_status' = "open" /\ in_status' = in_status /\ sock' = sock
      BY <2>7 DEF ResumeOut, Sender!ResumeOut, recvVars
    <3> QED  BY <3>1 DEF BrokenByLossOnly
  <2>8. CASE ResumeIn
    <3>1. in_status' = "open" /\ out_status' = out_status /\ sock' = sock
      BY <2>8 DEF ResumeIn, Receiver!ResumeIn, sendVars
    <3> QED  BY <3>1 DEF BrokenByLossOnly
  <2>9. CASE (Sender!Finalize /\ UNCHANGED recvVars) \/ SenderDies
    <3>1. /\ out_status' = "freed" /\ in_status' = in_status
          /\ \E closed \in BOOLEAN : sock' = [sock EXCEPT !.eof = @ \/ closed]
      <4>1. CASE Sender!Finalize /\ UNCHANGED recvVars
        BY <4>1 DEF Sender!Finalize, recvVars
      <4>2. CASE SenderDies
        BY <2>1, <4>2 DEF SenderDies, recvVars
      <4> QED  BY <2>9, <4>1, <4>2
    <3> QED  BY <2>1, <3>1 DEF BrokenByLossOnly
  <2>10. CASE Receiver!Finalize /\ UNCHANGED sendVars
    <3>1. /\ in_status' = "freed" /\ out_status' = out_status
          /\ \E closed \in BOOLEAN : sock' = [sock EXCEPT !.hup = @ \/ closed]
      BY <2>10 DEF Receiver!Finalize, sendVars
    <3> QED  BY <2>1, <3>1 DEF BrokenByLossOnly
  <2>11. CASE UNCHANGED linkVars
    BY <2>11 DEF linkVars, sendVars, recvVars, BrokenByLossOnly
  <2>12. Send => \/ S!SendWrites /\ UNCHANGED recvVars
                 \/ S!SendGivesUp /\ UNCHANGED recvVars
                 \/ S!SendFails /\ UNCHANGED recvVars
    BY SameSend DEF Send, S!Send
  <2> QED  BY <2>2, <2>3, <2>4, <2>5, <2>6, <2>7, <2>8, <2>9, <2>10, <2>11, <2>12 DEF Next
<1> QED  BY <1>1, <1>2, LinkInvariant, PTL DEF Spec

=============================================================================
