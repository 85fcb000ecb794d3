------------------------------- MODULE FdLink -------------------------------
(***************************************************************************)
(* One direction between two MtcFDLinks at the ends of a stream socket:    *)
(* the sending half of the one, the socket, the receiving half of the      *)
(* other.  (The other direction is the same with the ends exchanged.)      *)
(***************************************************************************)
EXTENDS Integers, Sequences, SequencesExt

CONSTANTS StopBit, Msgs, Blocks, IovMin, IovMax, SockCap, MaxQueue, Faults

VARIABLES
  vec, start, alen, clip, jobs, busy, blocks_out, out_status, aborted, queued,
  stops,
  read_status, reader, reader_v, header_data, mem, msg, in_status, got,
  sock

Sender == INSTANCE FdLinkSend
Receiver == INSTANCE FdLinkRecv

(* Messages of blocks that are not empty and that a header can carry.      *)
ASSUME LinkAssumptions ==
  /\ StopBit \in Nat \ {0, 1}
  /\ IovMin \in Nat \ {0}
  /\ IovMax \in Nat /\ SockCap \in Nat /\ MaxQueue \in Nat
  /\ Blocks \in [Msgs -> Seq(Nat \ {0})]
  /\ \A m \in Msgs : Blocks[m] # <<>> /\ Sender!FitsHeader(Blocks[m])

sendVars == <<vec, start, alen, clip, jobs, busy, blocks_out, out_status,
              aborted, queued, stops>>
recvVars == <<read_status, reader, reader_v, header_data, mem, msg, in_status,
              got>>
linkVars == <<sendVars, recvVars, sock>>

Init == Sender!Init /\ Receiver!Init

Queue == \E m \in Msgs, stop \in BOOLEAN : Sender!Queue(m, stop)
Send == Sender!Send /\ UNCHANGED recvVars
Receive == Receiver!Receive /\ UNCHANGED sendVars
ResumeOut == Sender!ResumeOut /\ UNCHANGED recvVars
ResumeIn == Receiver!ResumeIn /\ UNCHANGED sendVars

(* The process of the sender ends, perhaps between two writes: the kernel  *)
(* closes its end.                                                         *)
SenderDies ==
  /\ out_status # "freed"
  /\ out_status' = "freed"
  /\ sock' = [sock EXCEPT !.eof = TRUE]
  /\ UNCHANGED <<vec, start, alen, clip, jobs, busy, blocks_out, aborted,
                 queued, stops, recvVars>>

Next ==
  \/ Queue /\ UNCHANGED recvVars
  \/ Send
  \/ Receive
  \/ ResumeOut
  \/ ResumeIn
  \/ Sender!Finalize /\ UNCHANGED recvVars
  \/ Receiver!Finalize /\ UNCHANGED sendVars
  \/ SenderDies

Spec == Init /\ [][Next]_linkVars

(* The tests of a link ask for POLLOUT while it may send and has unsent    *)
(* data, and for POLLIN while it may receive; the applications resume the  *)
(* links they see stop.                                                    *)
FairSpec ==
  /\ Spec
  /\ WF_linkVars(Send) /\ WF_linkVars(Receive)
  /\ WF_linkVars(ResumeOut) /\ WF_linkVars(ResumeIn)

-----------------------------------------------------------------------------
(* What of the implementation the abstract channel sees.                   *)
Content(k, m, stop) ==
  [sizes |-> Blocks[m],
   data  |-> FlattenSeq([b \in 1..Len(Blocks[m]) |-> Sender!BlockUnits(k, m, b)]),
   stop  |-> stop]
Contents ==
  {Content(k, m, stop) : k \in 1..MaxQueue, m \in Msgs, stop \in BOOLEAN}
Accepted ==
  [k \in 1..Len(queued) |-> Content(k, queued[k].msg, queued[k].stop)]

(* The messages none of whose entries is left in the vector.               *)
Passed == IF vec = <<>> THEN Len(queued) ELSE vec[1].own - 1
End(status) == IF status \in {"broken", "freed"} THEN "down" ELSE status

Channel ==
  INSTANCE MsgChannel WITH Messages <- Contents, accepted <- Accepted,
    passed <- Passed, delivered <- got, out <- End(out_status),
    in <- End(in_status)

(* The two halves of fd_link.c and the socket between them implement the   *)
(* channel: the link delivers the queued messages in order, once and       *)
(* whole, and nothing passes a stop signal that was not resumed, whatever  *)
(* the sizes of the writes and reads and whenever an end is lost.          *)
ImplementsChannel == Channel!Spec

(* Without faults, a message that was queued is received, unless one of    *)
(* the applications lets go of its link: the multi-round writes, the       *)
(* clipping at stop signals and the phases of the receiver never leave the *)
(* two sides waiting on each other (fd_link.c:373, 440, 474).              *)
EverythingArrives ==
  \A k \in 1..MaxQueue :
    Len(queued) >= k ~>
      \/ Len(got) >= k
      \/ out_status \in {"broken", "freed"}
      \/ in_status \in {"broken", "freed"}

(* A link breaks only because of the other end: the receiver takes whatever*)
(* the sender makes of messages that fit, and neither gives up over a short*)
(* read or write (fd_link.c:496-512, 598).                                 *)
BrokenByLossOnly ==
  /\ in_status = "broken" => sock.eof
  /\ out_status = "broken" => sock.hup

=============================================================================
