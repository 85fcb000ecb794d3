--------------------------- MODULE FdLinkRecvPeer ---------------------------
(***************************************************************************)
(* FdLinkRecv against any peer: one that sends well-formed messages and    *)
(* malformed ones, in writes that the reads of the receiver split at will, *)
(* and that may die in the middle of a message.                            *)
(***************************************************************************)
EXTENDS FdLinkRecv

CONSTANTS
  Shapes,    \* the frames a peer may send: magic, sizes, stop
  MaxFrames  \* bound: frames supplied in a behaviour

ASSUME PeerAssumptions ==
  /\ Shapes \subseteq [magic : BOOLEAN, sizes : Seq(Nat), stop : BOOLEAN]
  /\ \A f \in Shapes : FitsHeader(f.sizes)
  /\ IovMax \in Nat /\ MaxFrames \in Nat

VARIABLES
  supplied,  \* history: the frames that were written to the socket
  fault      \* history: the peer died, or a call of the receiver failed

peerVars == <<vars, supplied, fault>>

(* The k-th frame on the stream.  One whose header is shorter than what the *)
(* receiver reads first goes on with something else.                       *)
PayloadOf(sizes, k) ==
  FlattenSeq([b \in 1..Len(sizes) |-> [i \in 1..sizes[b] |-> <<"byte", k, b, i>>]])
Header(f) ==
  LET h == mtc_header_write(f.sizes, f.stop)
             \o (IF f.sizes = <<>> THEN <<Word(1)>> ELSE <<>>)
  IN  IF f.magic THEN h ELSE [h EXCEPT ![1] = <<"not MTC">>]
Frame(f, k) == Header(f) \o PayloadOf(f.sizes, k)

(* A frame the receiver has to accept.                                     *)
Good(f) ==
  /\ f.magic
  /\ f.sizes # <<>>
  /\ \A b \in 1..Len(f.sizes) : f.sizes[b] # 0
  /\ IovMax > 0 => Len(f.sizes) <= IovMax \/ Len(f.sizes) = 1

PeerInit == Init /\ supplied = <<>> /\ fault = FALSE

Supply(f) ==
  /\ Len(supplied) < MaxFrames
  /\ ~sock.eof
  /\ supplied' = Append(supplied, f)
  /\ sock' = [sock EXCEPT !.buf = @ \o Frame(f, Len(supplied) + 1)]
  /\ UNCHANGED <<recvVars, fault>>

(* The peer dies: what it had not written yet never arrives.               *)
PeerDies ==
  /\ ~sock.eof
  /\ \E n \in 0..Len(sock.buf) :
       sock' = [sock EXCEPT !.buf = SubSeq(@, 1, n), !.eof = TRUE]
  /\ fault' = TRUE
  /\ UNCHANGED <<recvVars, supplied>>

(* The receiver without failures of its own.                               *)
Clean == INSTANCE FdLinkRecv WITH Faults <- {}

PeerNext ==
  \/ Next /\ fault' = (fault \/ ~Clean!Next) /\ UNCHANGED supplied
  \/ \E f \in Shapes : Supply(f)
  \/ PeerDies

(* mtc_fd_link_calc_events polls an open link for input all the time, and  *)
(* the application resumes a link it has seen stop.                        *)
PeerSpec == PeerInit /\ [][PeerNext]_peerVars
FairPeerSpec ==
  PeerSpec /\ WF_peerVars(Clean!Receive /\ UNCHANGED <<supplied, fault>>)
           /\ WF_peerVars(ResumeIn /\ UNCHANGED <<supplied, fault>>)

-----------------------------------------------------------------------------
PeerUnit ==
  {Magic, <<"not MTC">>} \cup {Word(n) : n \in 0..(WordLimit - 1)}
    \cup ({"byte"} \X Nat \X Nat \X Nat)

(* Type invariant.                                                         *)
TypeOK ==
  /\ read_status \in {"INIT_READ", "HDR", "SIMPLE", "IDX", "DATA"}
  /\ reader \in [buf : Seq(PeerUnit), len : Nat]
  /\ reader_v \in [buf : Seq(PeerUnit), lens : Seq(Nat)]
  /\ header_data \in [size : Nat, data_1 : Nat, stop : BOOLEAN]
  /\ mem \in {"none", "index", "iovec"}
  /\ msg \in Seq(Nat \ {0})
  /\ in_status \in {"open", "stopped", "broken", "freed"}
  /\ sock \in [buf : Seq(PeerUnit), eof : BOOLEAN, hup : BOOLEAN]
  /\ supplied \in Seq(Shapes) /\ fault \in BOOLEAN

(* What is received is what was sent: message k is frame k, with its       *)
(* sizes, its stop signal and every byte of its blocks in place, however   *)
(* the stream was cut into reads, and never a malformed or unfinished one  *)
(* (fd_link.c:474-675).                                                    *)
Message(f, k) ==
  [sizes |-> f.sizes, data |-> PayloadOf(f.sizes, k), stop |-> f.stop]
ReceivedIsSent ==
  /\ Len(got) <= Len(supplied)
  /\ \A k \in 1..Len(got) :
       Good(supplied[k]) /\ got[k] = Message(supplied[k], k)

(* Between two reads, no unit of the stream is lost, kept twice or read    *)
(* past the end of its message: what is held of the unfinished message and *)
(* what the socket still has are the rest of what was supplied             *)
(* (io.c:65, 106).                                                         *)
StreamConserved ==
  in_status \in {"open", "stopped"} =>
    LET rest == Partial \o sock.buf
        n    == Len(got)
        due  == FlattenSeq([k \in 1..(Len(supplied) - n) |->
                              Frame(supplied[n + k], n + k)])
    IN  IsPrefix(rest, due) /\ (~sock.eof => rest = due)

(* The link breaks only for a reason: a fault, or a frame that is not well *)
(* formed at the very position where the receiver stands                   *)
(* (fd_link.c:496, 506, 598).                                              *)
BreaksForAReason ==
  in_status = "broken" =>
    \/ fault
    \/ Len(got) < Len(supplied) /\ ~Good(supplied[Len(got) + 1])

(* Every frame is met in the end, and received if it is well-formed, or    *)
(* the link goes.                                                          *)
Answered ==
  \A k \in 1..MaxFrames :
    Len(supplied) >= k ~> Len(got) >= k \/ in_status \in {"broken", "freed"}

=============================================================================
