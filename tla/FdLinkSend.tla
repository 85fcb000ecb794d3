----------------------------- MODULE FdLinkSend -----------------------------
(***************************************************************************)
(* The sending half of an MtcFDLink: the queue of send jobs, the IO vector *)
(* that points into them, and the writev loop of mtc_fd_link_send.         *)
(*                                                                         *)
(* The window of the vector that is in use, iov.mem[start .. start+len-1], *)
(* is the sequence vec: an entry has the job it points into (own) and the  *)
(* units it still covers (data).  Copying the window, as the resizing code *)
(* does, leaves the sequence alone.                                        *)
(*                                                                         *)
(* mtc_fd_link_send makes one writev per round of its loop, and the peer   *)
(* runs between two rounds.  A step of Send is a round; the last one also  *)
(* collects the finished jobs and looks for the next stop signal.          *)
(***************************************************************************)
EXTENDS MtcHeader, MtcIo, FiniteSets

CONSTANTS
  Msgs,      \* the messages an application may queue
  Blocks,    \* the sizes of the memory blocks of each message
  IovMin,    \* MTC_IOV_MIN
  IovMax,    \* sysconf(_SC_IOV_MAX), or 0 where it gives no limit
  SockCap,   \* units the socket buffer holds
  MaxQueue,  \* bound: messages queued in a behaviour
  Faults     \* the failures that may happen: "severe" (writev, read, readv),
             \* "alloc" (memory for a received message)

ASSUME SendAssumptions ==
  /\ IovMin \in Nat \ {0}
  /\ IovMax \in Nat
  /\ SockCap \in Nat
  /\ MaxQueue \in Nat
  /\ Blocks \in [Msgs -> Seq(Nat \ {0})]
  /\ \A m \in Msgs : Blocks[m] # <<>> /\ Len(Blocks[m]) < WordLimit

VARIABLES
  vec,         \* the window of the IO vector
  start,       \* iov.start
  alen,        \* iov.alen
  clip,        \* iov.clip: entries up to the end of the next stop, or -1
  jobs,        \* jobs.head .. jobs.tail
  busy,        \* mtc_fd_link_send is between two rounds of its loop
  blocks_out,  \* its local variable
  out_status,  \* the status MtcLink keeps, or "freed"
  aborted,     \* mtc_error("Assertion failure") was reached
  queued,      \* history: what was handed to mtc_fd_link_queue
  stops,       \* history: how often MTC_LINK_IO_STOP was returned
  sock         \* the socket: bytes in it, writer gone, reader gone

iov == <<vec, start, alen, clip>>
sendVars == <<vec, start, alen, clip, jobs, busy, blocks_out, out_status,
              aborted, queued, stops>>
vars == <<sendVars, sock>>

-----------------------------------------------------------------------------
(* What a message looks like on the stream.                                *)

(* The i-th byte of block b of the message that is queued as number id:    *)
(* every byte of the stream is told apart from every other one.            *)
Byte(id, b, i) == <<"byte", id, b, i>>
BlockUnits(id, m, b) == [i \in 1..Blocks[m][b] |-> Byte(id, b, i)]

(* The vector entries of job id: its header, then the blocks of message m. *)
Entries(id, m, stop) ==
  [e \in 1..(Len(Blocks[m]) + 1) |->
     [own  |-> id,
      data |-> IF e = 1 THEN mtc_header_write(Blocks[m], stop)
                        ELSE BlockUnits(id, m, e - 1)]]

Lens(v) == [i \in 1..Len(v) |-> Len(v[i].data)]
Units(v) == FlattenSeq([i \in 1..Len(v) |-> v[i].data])
LastUnits(s, n) == SubSeq(s, Len(s) - n + 1, Len(s))

-----------------------------------------------------------------------------
Init ==
  /\ vec = <<>> /\ start = 0 /\ alen = IovMin /\ clip = -1   \* init_iov
  /\ jobs = <<>>
  /\ busy = FALSE /\ blocks_out = 0
  /\ out_status = "open"
  /\ aborted = FALSE
  /\ queued = <<>> /\ stops = 0
  /\ sock = [buf |-> <<>>, eof |-> FALSE, hup |-> FALSE]

(* A mutant: what lies before the window is not counted.                   *)
AllocIovFromStart(n_blocks) ==
  LET full == Len(vec) + n_blocks > alen
  IN  /\ alen'  = IF full THEN alen * 2 ELSE alen
      /\ start' = IF full THEN 0 ELSE start

(* mtc_fd_link_alloc_iov: the allocation is doubled, once, and the window  *)
(* moved to its beginning, when the new entries do not fit behind it.      *)
AllocIov(n_blocks) ==
  LET full == start + Len(vec) + n_blocks > alen
  IN  /\ alen'  = IF full THEN alen * 2 ELSE alen
      /\ start' = IF full THEN 0 ELSE start

(* A mutant: the header is not counted.                                    *)
NewJobHeadless(id, m, stop) ==
  [id |-> id, msg |-> m, stop_flag |-> stop, n_blocks |-> Len(Blocks[m])]

(* The entry of the job queue; n_blocks counts the header.                 *)
NewJob(id, m, stop) ==
  [id |-> id, msg |-> m, stop_flag |-> stop, n_blocks |-> Len(Blocks[m]) + 1]

(* The clip, with len entries in the vector once the message is queued; a  *)
(* mutant does not look whether a stop signal is queued already.           *)
QueuedClipAnyway(stop, len) == IF stop THEN len ELSE clip
QueuedClip(stop, len) == IF stop /\ clip < 0 THEN len ELSE clip

(* mtc_fd_link_queue.  MtcLink refuses to queue on a broken link.          *)
Queue(m, stop) ==
  LET id == Len(queued) + 1
      new == Entries(id, m, stop)
  IN  /\ ~busy /\ ~aborted
      /\ out_status \notin {"broken", "freed"}
      /\ Len(queued) < MaxQueue
      /\ jobs' = Append(jobs, NewJob(id, m, stop))
      /\ AllocIov(Len(new))
      /\ vec' = vec \o new
      /\ clip' = QueuedClip(stop, Len(vec) + Len(new))
      /\ queued' = Append(queued, [msg |-> m, stop |-> stop])
      /\ UNCHANGED <<busy, blocks_out, out_status, aborted, stops, sock>>

-----------------------------------------------------------------------------
(* mtc_fd_link_pop_iov: the vector after n_bytes of it were written.       *)
PopIov(n_bytes) ==
  LET lens == ConsumeRest(Lens(vec), n_bytes)
      n    == Len(vec) - Len(lens)
      shrink == alen > IovMin /\ 4 * Len(lens) <= alen
      slide  == start + n >= alen \div 2
  IN  [n_blocks |-> n,
       vec   |-> [i \in 1..Len(lens) |->
                    [vec[n + i] EXCEPT !.data = LastUnits(@, lens[i])]],
       start |-> IF shrink \/ slide THEN 0 ELSE start + n,
       alen  |-> IF shrink THEN alen \div 2 ELSE alen,
       clip  |-> IF clip >= 0 THEN clip - n ELSE clip]

(* The blocks up to the end of the first job with a stop signal, or -1.    *)
StopJobs(js) == {i \in 1..Len(js) : js[i].stop_flag}
FirstStop(js) == CHOOSE i \in StopJobs(js) : \A j \in StopJobs(js) : i <= j
Counts(js) == [i \in 1..Len(js) |-> js[i].n_blocks]
NextStop(js) ==
  IF StopJobs(js) = {} THEN -1 ELSE Through(Counts(js))[FirstStop(js)]

(* The jobs that are left when out more of their blocks are out.           *)
LeftJobs(out) ==
  LET rest == ConsumeRest(Counts(jobs), out)
      done == Len(jobs) - Len(rest)
  IN  [i \in 1..Len(rest) |-> [jobs[done + i] EXCEPT !.n_blocks = rest[i]]]

(* A clip that has run down to 0 is a stop signal; a mutant takes no clip  *)
(* for one.                                                                *)
ClipIsLow(c) == c <= 0
StopReached(c) == c = 0

(* The clip for what is queued behind a stop signal; a mutant does not     *)
(* look for another one.                                                   *)
ClipIsOver(c, js) == IF StopReached(c) THEN -1 ELSE c
NextClip(c, js) == IF StopReached(c) THEN NextStop(js) ELSE c

(* What mtc_fd_link_send does once its loop is over, with the vector v and *)
(* the clip c that the loop has left: the jobs whose blocks are all out    *)
(* are freed, and a stop signal is reported.                               *)
Finish(v, c, out) ==
  LET left == LeftJobs(out)
  IN  /\ jobs' = left
      /\ aborted' = ((left = <<>>) # (v = <<>>) \/ (clip >= 0 /\ c < 0))
      /\ clip' = NextClip(c, left)
      /\ out_status' = IF StopReached(c) THEN "stopped" ELSE out_status
      /\ stops' = IF StopReached(c) THEN stops + 1 ELSE stops
      /\ busy' = FALSE /\ blocks_out' = 0

(* What the loop may send; a mutant does not stop at stop signals.         *)
UnclippedBlocks == Len(vec)
n_blocks_to_send == IF clip >= 0 THEN clip ELSE Len(vec)
repeat == IovMax > 0 /\ n_blocks_to_send > IovMax
n_blocks_out == IF repeat THEN IovMax ELSE n_blocks_to_send

(* One round: writev takes n units of the first n_blocks_out entries, as   *)
(* many as the socket has room for or fewer.                               *)
SendWrites ==
  /\ ~aborted /\ out_status = "open"
  /\ \E n \in 0..(SockCap - Len(sock.buf)) :
       /\ (n = 0) = (n_blocks_out = 0)
       /\ n > 0 => ~sock.hup
       /\ n <= Through(Lens(vec))[n_blocks_out]
       /\ LET pop == PopIov(n)
          IN  /\ sock' = [sock EXCEPT !.buf = @ \o SubSeq(Units(vec), 1, n)]
              /\ vec' = pop.vec /\ start' = pop.start /\ alen' = pop.alen
              /\ IF repeat
                 THEN /\ busy' = TRUE
                      /\ blocks_out' = blocks_out + pop.n_blocks
                      /\ clip' = pop.clip
                      /\ aborted' = (clip >= 0 /\ pop.clip < 0)
                      /\ UNCHANGED <<jobs, out_status, stops>>
                 ELSE Finish(pop.vec, pop.clip, blocks_out + pop.n_blocks)
  /\ UNCHANGED queued

(* A mutant: the blocks of the earlier rounds are forgotten.               *)
SendGivesUpUncounted ==
  /\ ~aborted /\ out_status = "open" /\ busy
  /\ Finish(vec, clip, 0)
  /\ UNCHANGED <<vec, start, alen, queued, sock>>

(* writev fails in a later round: the loop ends and the error is left for  *)
(* the next call to meet.                                                  *)
SendGivesUp ==
  /\ ~aborted /\ out_status = "open" /\ busy
  /\ Finish(vec, clip, blocks_out)
  /\ UNCHANGED <<vec, start, alen, queued, sock>>

(* writev fails for good in the first round: mtc_link_send breaks the link *)
(* (a temporary error in the first round changes nothing).                 *)
SendFails ==
  /\ ~aborted /\ out_status = "open" /\ ~busy
  /\ n_blocks_out > 0
  /\ sock.hup \/ "severe" \in Faults
  /\ out_status' = "broken"
  /\ UNCHANGED <<vec, start, alen, clip, jobs, busy, blocks_out, aborted,
                 queued, stops, sock>>

Send == SendWrites \/ SendGivesUp \/ SendFails

(* mtc_fd_link_finalize: the vector and the jobs are freed (the variables  *)
(* keep what nobody may look at any more), and the descriptor is closed if *)
(* mtc_fd_link_set_close_fd has asked for it.                              *)
Finalize ==
  /\ ~busy /\ ~aborted /\ out_status # "freed"
  /\ out_status' = "freed"
  /\ \E close_fd \in BOOLEAN : sock' = [sock EXCEPT !.eof = @ \/ close_fd]
  /\ UNCHANGED <<iov, jobs, busy, blocks_out, aborted, queued, stops>>

(* MtcLink: the application lets a stopped link send again.                *)
ResumeOut ==
  /\ ~busy /\ ~aborted /\ out_status = "stopped"
  /\ out_status' = "open"
  /\ UNCHANGED <<iov, jobs, busy, blocks_out, aborted, queued, stops, sock>>

-----------------------------------------------------------------------------
(* The other end of the socket, while it is not modelled in detail: it     *)
(* takes units, and may hang up.                                           *)
PeerReads ==
  /\ \E n \in 1..Len(sock.buf) :
       sock' = [sock EXCEPT !.buf = SubSeq(@, n + 1, Len(@))]
  /\ UNCHANGED sendVars

PeerHangsUp ==
  /\ ~sock.hup
  /\ sock' = [sock EXCEPT !.hup = TRUE]
  /\ UNCHANGED sendVars

Next ==
  \/ \E m \in Msgs, stop \in BOOLEAN : Queue(m, stop)
  \/ Send
  \/ ResumeOut
  \/ Finalize
  \/ PeerReads
  \/ PeerHangsUp

Spec == Init /\ [][Next]_vars

-----------------------------------------------------------------------------
(* Properties.                                                             *)

Unit ==
  {Magic} \cup {Word(n) : n \in 0..(WordLimit - 1)}
    \cup ({"byte"} \X Nat \X Nat \X Nat)
Entry == [own : Nat, data : Seq(Unit)]
Job == [id : Nat, msg : Msgs, stop_flag : BOOLEAN, n_blocks : Nat \ {0}]
Status == {"open", "stopped", "broken", "freed"}

(* Type invariant.                                                         *)
TypeOK ==
  /\ vec \in Seq(Entry) /\ start \in Nat /\ alen \in Nat /\ clip \in Int
  /\ jobs \in Seq(Job)
  /\ busy \in BOOLEAN /\ blocks_out \in Nat
  /\ out_status \in Status
  /\ aborted \in BOOLEAN
  /\ queued \in Seq([msg : Msgs, stop : BOOLEAN]) /\ stops \in Nat
  /\ sock \in [buf : Seq(Unit), eof : BOOLEAN, hup : BOOLEAN]

(* The window never reaches past the end of its allocation.  The code      *)
(* doubles the allocation once and then stores the entries (fd_link.c:201),*)
(* so this needs SmallMessages; without it the comment at fd_link.c:197    *)
(* promises what the code does not do.                                     *)
SmallMessages == \A m \in Msgs : Len(Blocks[m]) < IovMin
IovFits == start + Len(vec) <= alen

(* Neither assertion of the sending side fails: the jobs and the vector    *)
(* run empty together, and a write never takes blocks past the clip        *)
(* (fd_link.c:249 and 436).                                                *)
NoAbort == ~aborted

(* What is left of the vector is the tail of what the live jobs were       *)
(* queued with, only its first entry trimmed, and never to nothing: no     *)
(* entry points into a job or a message that was already released          *)
(* (fd_link.c:416).                                                        *)
AllEntries ==
  FlattenSeq([i \in 1..Len(jobs) |->
                Entries(jobs[i].id, jobs[i].msg, jobs[i].stop_flag)])
NoEmptyEntry == \A i \in 1..Len(vec) : vec[i].data # <<>>
VecBacked ==
  LET gone == Len(AllEntries) - Len(vec)
  IN  /\ gone >= 0
      /\ NoEmptyEntry
      /\ \A i \in 1..Len(vec) :
           LET whole == AllEntries[gone + i]
           IN  /\ vec[i].own = whole.own
               /\ vec[i].data = LastUnits(whole.data, Len(vec[i].data))
               /\ i > 1 => vec[i].data = whole.data

(* The block counts of the jobs agree with the vector between any two      *)
(* system calls, so that a job is released exactly when its last block is  *)
(* out (fd_link.c:420).                                                    *)
BlocksCounted == Through(Counts(jobs))[Len(jobs)] = Len(vec) + blocks_out

(* clip, which queue, pop_iov and send each update by a difference of      *)
(* their own, is always the end of the first job with a stop signal        *)
(* (fd_link.c:345, 245, 440), and never at the head of the vector.         *)
ClipAtFirstStop ==
  IF StopJobs(jobs) = {}
  THEN clip = -1
  ELSE clip = NextStop(jobs) - blocks_out /\ clip > 0

(* A stopped link stands exactly between two messages: the last one it     *)
(* released carried the stop signal, and no unit of the next has gone.     *)
StoppedBetweenMessages ==
  out_status = "stopped" =>
    LET released == Len(queued) - Len(jobs)
    IN  released > 0 /\ queued[released].stop /\ vec = AllEntries

(* Every stop signal is reported by exactly one MTC_LINK_IO_STOP, when its *)
(* message is out, however many are in the queue (fd_link.c:440).          *)
StopReportedOnce ==
  stops + Cardinality(StopJobs(jobs))
    = Cardinality({i \in 1..Len(queued) : queued[i].stop})

(* No step of the sender touches an entry behind the next stop signal,     *)
(* whatever the number of rounds, the size of a write and the number of    *)
(* messages behind it (fd_link.c:379): not what they cover, and not how    *)
(* far from the end of the vector they are.                                *)
Behind(v) ==
  LET IsBehind(e) == \E s \in StopJobs(jobs) : e.own > jobs[s].id
  IN  {<<Len(v) - i, v[i]>> : i \in {j \in 1..Len(v) : IsBehind(v[j])}}
StopBarrier == [][Send => Behind(vec') = Behind(vec)]_vars

(* The inductive invariant of the sending half.                            *)
SendInv ==
  TypeOK /\ NoEmptyEntry /\ BlocksCounted /\ ClipAtFirstStop /\ NoAbort

=============================================================================
