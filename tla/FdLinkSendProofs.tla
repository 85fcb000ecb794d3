-------------------------- MODULE FdLinkSendProofs --------------------------
(***************************************************************************)
(* The sending half of fd_link.c, for every set of messages, every limit   *)
(* of writev, every size of the vector and every socket.  SendInv is       *)
(* inductive: no part of it is without the others, since the clip stays    *)
(* inside the vector because both agree with the counts of the jobs, and   *)
(* the counts stay right because a write never takes more than the clip.   *)
(***************************************************************************)
EXTENDS FdLinkSend, VectorLemmas, FiniteSetTheorems

-----------------------------------------------------------------------------
(* The entries of a new job.                                               *)

(* The header of a message, and its length, as the vector takes them. *)
LEMMA HeaderType ==
  ASSUME NEW m \in Msgs, NEW stop \in BOOLEAN
  PROVE  /\ mtc_header_write(Blocks[m], stop) \in Seq(Unit)
         /\ mtc_header_write(Blocks[m], stop) # <<>>
<1> DEFINE sizes == Blocks[m]
           size  == IF stop THEN WithStopBit(Len(sizes)) ELSE Len(sizes)
           front == <<Magic, Word(size)>>
           index == [i \in 1..Len(sizes) |-> Word(sizes[i] % WordLimit)]
<1>1. sizes \in Seq(Nat \ {0}) /\ Len(sizes) < WordLimit /\ Len(sizes) \in Nat
  BY SendAssumptions
<1>2. StopBit \in Nat \ {0} /\ WordLimit = 2 * StopBit /\ WordLimit \in Nat \ {0}
  BY StopBitAssumption DEF WordLimit
<1>3. size \in 0..(WordLimit - 1)
  BY <1>1, <1>2 DEF WithStopBit
<1>4. \A i \in 1..Len(sizes) : sizes[i] % WordLimit \in 0..(WordLimit - 1)
  <2>1. \A i \in 1..Len(sizes) : sizes[i] \in Nat
    BY <1>1
  <2>2. QED
    BY <2>1, <1>2
<1>5. \A n \in 0..(WordLimit - 1) : Word(n) \in Unit
  BY DEF Unit
<1>6. Magic \in Unit
  BY DEF Unit
<1> HIDE DEF size, sizes
<1>7. front \in Seq(Unit) /\ Len(front) = 2
  BY <1>3, <1>5, <1>6
<1>8. index \in Seq(Unit)
  BY <1>1, <1>4, <1>5
<1> HIDE DEF front, index
<1>9. front \o index \in Seq(Unit) /\ Len(front \o index) = 2 + Len(index)
  <2>1. Len(front \o index) = Len(front) + Len(index) /\ front \o index \in Seq(Unit)
    BY <1>7, <1>8, ConcatProperties
  <2>2. QED
    BY <2>1, <1>7
<1>10. front \o index # <<>>
  BY <1>8, <1>9
<1>11. QED
  BY <1>9, <1>10 DEF mtc_header_write, front, index, size, sizes

(* The entries of a message: one for the header and one for each block,    *)
(* none empty.                                                             *)
LEMMA EntriesType ==
  ASSUME NEW id \in Nat, NEW m \in Msgs, NEW stop \in BOOLEAN
  PROVE  /\ Entries(id, m, stop) \in Seq(Entry)
         /\ Len(Entries(id, m, stop)) = Len(Blocks[m]) + 1
         /\ \A e \in 1..(Len(Blocks[m]) + 1) : Entries(id, m, stop)[e].data # <<>>
<1> DEFINE n == Len(Blocks[m])
<1>1. n \in Nat /\ \A b \in 1..n : Blocks[m][b] \in Nat \ {0}
  BY SendAssumptions
<1>2. ASSUME NEW b \in 1..n
      PROVE  BlockUnits(id, m, b) \in Seq(Unit) /\ BlockUnits(id, m, b) # <<>>
  <2>1. Blocks[m][b] \in Nat /\ b \in Nat
    BY <1>1, <1>2
  <2>2. \A i \in 1..Blocks[m][b] : Byte(id, b, i) \in Unit
    BY <2>1 DEF Byte, Unit
  <2>3. Len(BlockUnits(id, m, b)) = Blocks[m][b] /\ BlockUnits(id, m, b) \in Seq(Unit)
    BY <2>2, <1>1, <1>2 DEF BlockUnits
  <2>4. QED
    BY <2>3, <1>1, <1>2
<1> DEFINE d(e) == IF e = 1 THEN mtc_header_write(Blocks[m], stop) ELSE BlockUnits(id, m, e - 1)
<1>3. \A e \in 1..(n + 1) : d(e) \in Seq(Unit) /\ d(e) # <<>>
  <2>1. \A e \in 1..(n + 1) : e # 1 => e - 1 \in 1..n
    BY <1>1
  <2>2. QED
    BY <2>1, <1>2, HeaderType
<1>4. Entries(id, m, stop) = [e \in 1..(n + 1) |-> [own |-> id, data |-> d(e)]]
  BY DEF Entries
<1> HIDE DEF n, d
<1>5. \A e \in 1..(n + 1) : [own |-> id, data |-> d(e)] \in Entry
  BY <1>3 DEF Entry
<1>6. QED
  BY <1>1, <1>3, <1>4, <1>5 DEF n

(* The sizes that the arithmetic of the vector works on are those of its   *)
(* entries.                                                                *)
LEMMA LensType ==
  ASSUME vec \in Seq(Entry), NoEmptyEntry
  PROVE  /\ Lens(vec) \in Seq(Nat \ {0})
         /\ Len(Lens(vec)) = Len(vec)
         /\ \A i \in 1..Len(vec) : Lens(vec)[i] = Len(vec[i].data)
<1>1. ASSUME NEW i \in 1..Len(vec)
      PROVE  vec[i].data \in Seq(Unit) /\ vec[i].data # <<>>
  <2>1. vec[i] \in Entry
    OBVIOUS
  <2>2. QED
    BY <2>1 DEF NoEmptyEntry, Entry
<1>2. \A i \in 1..Len(vec) : Len(vec[i].data) \in Nat \ {0}
  BY <1>1
<1>3. QED
  BY <1>2 DEF Lens

-----------------------------------------------------------------------------
(* mtc_fd_link_pop_iov.                                                    *)

(* mtc_fd_link_pop_iov consumes from the front of the vector and moves the clip along. *)
LEMMA PopFacts ==
  ASSUME TypeOK, NoEmptyEntry, NEW n \in Nat,
         NEW w \in 0..Len(vec), n <= Through(Lens(vec))[w]
  PROVE  LET pop == PopIov(n)
         IN  /\ pop.n_blocks \in 0..w
             /\ pop.vec \in Seq(Entry)
             /\ Len(pop.vec) = Len(vec) - pop.n_blocks
             /\ \A i \in 1..Len(pop.vec) : pop.vec[i].data # <<>>
             /\ pop.start \in Nat /\ pop.alen \in Nat
             /\ pop.clip = IF clip >= 0 THEN clip - pop.n_blocks ELSE clip
<1> DEFINE all  == Lens(vec)
           lens == ConsumeRest(all, n)
           k    == Consumed(all, n)
           out  == Len(vec) - Len(lens)
<1>1. vec \in Seq(Entry) /\ Len(vec) \in Nat
  BY DEF TypeOK
<1>2. /\ all \in Seq(Nat \ {0}) /\ Len(all) = Len(vec)
      /\ \A i \in 1..Len(vec) : all[i] = Len(vec[i].data)
  BY <1>1, LensType
<1>3. all \in Seq(Nat)
  BY <1>2
<1> HIDE DEF all
<1>4. k \in 0..Len(vec) /\ Through(all)[k] <= n
  BY <1>2, <1>3, ConsumedFacts
<1>5. /\ lens \in Seq(Nat \ {0}) /\ Len(lens) = Len(vec) - k
      /\ \A i \in 1..Len(lens) : lens[i] <= all[k + i]
  BY <1>2, ConsumeRestFacts
<1> HIDE DEF k, lens
<1>6. out = k
  BY <1>1, <1>4, <1>5
<1>7. k <= w
  <2>1. SUFFICES ASSUME w < k PROVE FALSE
    BY <1>1, <1>4
  <2>2. Through(all)[w] < Through(all)[k]
    BY <1>2, <1>4, <2>1, ThroughStrict
  <2>3. Through(all)[w] \in Nat /\ Through(all)[k] \in Nat
    BY <1>2, <1>3, <1>4, ThroughFacts
  <2>4. n <= Through(all)[w]
    BY DEF all
  <2>5. QED
    BY <1>4, <2>2, <2>3, <2>4
<1> DEFINE new == [i \in 1..Len(lens) |->
                     [vec[k + i] EXCEPT !.data = LastUnits(@, lens[i])]]
<1>8. ASSUME NEW i \in 1..Len(lens)
      PROVE  new[i] \in Entry /\ new[i].data # <<>>
  <2>1. k + i \in 1..Len(vec)
    BY <1>1, <1>4, <1>5
  <2>2. vec[k + i] \in Entry /\ vec[k + i].data \in Seq(Unit)
    <3>1. vec[k + i] \in Entry
      BY <1>1, <2>1
    <3>2. QED
      BY <3>1 DEF Entry
  <2>3. lens[i] \in 1..Len(vec[k + i].data)
    <3>1. lens[i] \in Nat \ {0} /\ lens[i] <= all[k + i]
      BY <1>5
    <3>2. all[k + i] = Len(vec[k + i].data) /\ Len(vec[k + i].data) \in Nat
      BY <1>2, <2>1, <2>2
    <3>3. QED
      BY <3>1, <3>2
  <2>4. /\ LastUnits(vec[k + i].data, lens[i]) \in Seq(Unit)
        /\ LastUnits(vec[k + i].data, lens[i]) # <<>>
    <3> DEFINE s == vec[k + i].data
               a == Len(s) - lens[i] + 1
    <3>1. s \in Seq(Unit) /\ a \in 1..Len(s) /\ Len(s) \in Nat
      BY <2>2, <2>3, SMTT(30)
    <3> HIDE DEF a, s
    <3>2. SubSeq(s, a, Len(s)) \in Seq(Unit) /\ Len(SubSeq(s, a, Len(s))) = Len(s) - a + 1
      BY <3>1, SubSeqProperties
    <3>3. SubSeq(s, a, Len(s)) # <<>>
      BY <3>1, <3>2, SMTT(30)
    <3>4. QED
      BY <3>2, <3>3 DEF LastUnits, s, a
  <2>5. new[i] = [vec[k + i] EXCEPT !.data = LastUnits(vec[k + i].data, lens[i])]
    OBVIOUS
  <2>6. QED
    BY <2>2, <2>4, <2>5 DEF Entry
<1>9. new \in Seq(Entry) /\ Len(new) = Len(lens)
  BY <1>5, <1>8, SMTT(30)
<1> HIDE DEF new
<1>10. PopIov(n).n_blocks = k /\ PopIov(n).vec = new
  BY <1>6 DEF PopIov, new, all, lens
<1>11. PopIov(n).start \in Nat /\ PopIov(n).alen \in Nat
  <2>1. start \in Nat /\ alen \in Nat /\ start + k \in Nat /\ alen \div 2 \in Nat
    BY <1>1, <1>4 DEF TypeOK
  <2>2. QED
    BY <2>1, <1>6 DEF PopIov, all, lens
<1>12. PopIov(n).clip = IF clip >= 0 THEN clip - k ELSE clip
  BY <1>6 DEF PopIov, all, lens
<1>13. k \in 0..w /\ Len(new) = Len(vec) - k /\ \A i \in 1..Len(new) : new[i].data # <<>>
  BY <1>4, <1>5, <1>7, <1>8, <1>9
<1>14. QED
  BY <1>9, <1>10, <1>11, <1>12, <1>13

-----------------------------------------------------------------------------
(* The job queue and the clip.                                             *)

(* The counts of the jobs are a sequence of positive numbers. *)
LEMMA CountsType ==
  ASSUME NEW js \in Seq(Job)
  PROVE  /\ Counts(js) \in Seq(Nat \ {0}) /\ Counts(js) \in Seq(Nat)
         /\ Len(Counts(js)) = Len(js)
         /\ \A i \in 1..Len(js) : Counts(js)[i] = js[i].n_blocks
<1>1. ASSUME NEW i \in 1..Len(js) PROVE js[i].n_blocks \in Nat \ {0}
  <2>1. js[i] \in Job
    OBVIOUS
  <2>2. QED
    BY <2>1 DEF Job
<1>2. QED
  BY <1>1 DEF Counts

(* The first message with a stop signal is one of them, and none is before *)
(* it.                                                                     *)
LEMMA FirstStopFacts ==
  ASSUME NEW js \in Seq(Job), StopJobs(js) # {}
  PROVE  /\ FirstStop(js) \in StopJobs(js) /\ FirstStop(js) \in 1..Len(js)
         /\ \A j \in StopJobs(js) : FirstStop(js) <= j
<1>1. StopJobs(js) \in SUBSET Nat
  BY DEF StopJobs
<1>2. \E i \in StopJobs(js) : \A j \in StopJobs(js) : i <= j
  BY <1>1, LeastElement
<1>3. QED
  BY <1>2 DEF FirstStop, StopJobs

(* NextStop lies inside the blocks of the jobs.                            *)
LEMMA NextStopFacts ==
  ASSUME NEW js \in Seq(Job), StopJobs(js) # {}
  PROVE  /\ NextStop(js) = Through(Counts(js))[FirstStop(js)]
         /\ NextStop(js) \in Nat \ {0}
         /\ NextStop(js) <= Through(Counts(js))[Len(js)]
<1> DEFINE f == FirstStop(js)
           t == Through(Counts(js))
<1>1. f \in 1..Len(js) /\ NextStop(js) = t[f] /\ Len(js) \in Nat
  BY FirstStopFacts DEF NextStop
<1> HIDE DEF f
<1>2. /\ Counts(js) \in Seq(Nat \ {0}) /\ Counts(js) \in Seq(Nat)
      /\ Len(Counts(js)) = Len(js)
  BY CountsType
<1>3. t[0] < t[f]
  BY <1>1, <1>2, ThroughStrict
<1>4. t[f] <= t[Len(js)]
  BY <1>1, <1>2, ThroughMonotone
<1>5. t[0] = 0 /\ t[f] \in Nat
  BY <1>1, <1>2, ThroughFacts
<1>6. QED
  BY <1>1, <1>3, <1>4, <1>5 DEF f

(* The clip a vector needs for the jobs js when out blocks of them were    *)
(* written already.                                                        *)
ClipFor(js, out) == IF StopJobs(js) = {} THEN -1 ELSE NextStop(js) - out

(* The end of mtc_fd_link_send: whatever the loop has left, provided that  *)
(* it has counted the blocks and not passed the clip, the jobs are         *)
(* released up to the one the vector begins in, the assertion holds, and   *)
(* the clip is right again.                                                *)
LEMMA FinishFacts ==
  ASSUME jobs \in Seq(Job), NEW v, Len(v) \in Nat, v = <<>> <=> Len(v) = 0,
         NEW out \in Nat, NEW c \in Int,
         Through(Counts(jobs))[Len(jobs)] = Len(v) + out,
         c = ClipFor(jobs, out), clip >= 0 => c >= 0, StopJobs(jobs) # {} => c >= 0,
         Finish(v, c, out)
  PROVE  /\ jobs' \in Seq(Job)
         /\ Through(Counts(jobs'))[Len(jobs')] = Len(v)
         /\ aborted' = FALSE
         /\ clip' = ClipFor(jobs', 0) /\ clip' # 0 /\ clip' \in Int
         /\ blocks_out' = 0 /\ busy' = FALSE
<1> DEFINE ns   == Counts(jobs)
           t    == Through(ns)
           rest == ConsumeRest(ns, out)
           k    == Consumed(ns, out)
           done == Len(jobs) - Len(rest)
           left == [i \in 1..Len(rest) |-> [jobs[done + i] EXCEPT !.n_blocks = rest[i]]]
<1>1. /\ ns \in Seq(Nat \ {0}) /\ ns \in Seq(Nat) /\ Len(ns) = Len(jobs)
      /\ Len(jobs) \in Nat
  BY CountsType
<1>2. /\ jobs' = left
      /\ aborted' = ((left = <<>>) # (v = <<>>) \/ (clip >= 0 /\ c < 0))
      /\ clip' = IF c = 0 THEN NextStop(left) ELSE c
      /\ blocks_out' = 0 /\ busy' = FALSE
  BY DEF Finish, LeftJobs, StopReached, NextClip
<1> HIDE DEF ns
<1>3. /\ k \in 0..Len(jobs) /\ t[k] <= out
      /\ k < Len(jobs) => out < t[k + 1]
  BY <1>1, ConsumedFacts
<1>4. /\ rest \in Seq(Nat \ {0}) /\ Len(rest) = Len(jobs) - k
      /\ \A i \in 1..Len(rest) : Through(rest)[i] = t[k + i] - out
  BY <1>1, ConsumeRestFacts
<1>5. t[Len(jobs)] = Len(v) + out
  BY DEF ns
<1>6. \A i \in 0..Len(jobs) : t[i] \in Nat
  BY <1>1, ThroughFacts
<1> HIDE DEF k, rest
<1>7. done = k
  BY <1>1, <1>3, <1>4
<1>8. \A i \in 1..Len(rest) : k + i \in 1..Len(jobs) /\ jobs[k + i] \in Job
  BY <1>1, <1>3, <1>4
<1>9. ASSUME NEW i \in 1..Len(rest)
      PROVE  /\ left[i] \in Job /\ left[i].n_blocks = rest[i]
             /\ left[i].stop_flag = jobs[k + i].stop_flag
  <2>1. left[i] = [jobs[k + i] EXCEPT !.n_blocks = rest[i]]
    BY <1>7
  <2>2. jobs[k + i] \in Job /\ rest[i] \in Nat \ {0}
    BY <1>4, <1>8
  <2>3. QED
    BY <2>1, <2>2 DEF Job
<1>10. left \in Seq(Job) /\ Len(left) = Len(rest)
  <2>1. Len(rest) \in Nat
    BY <1>4
  <2>2. left \in [1..Len(rest) -> Job]
    <3> DEFINE body(i) == [jobs[done + i] EXCEPT !.n_blocks = rest[i]]
    <3>1. left = [i \in 1..Len(rest) |-> body(i)]
      OBVIOUS
    <3>2. \A i \in 1..Len(rest) : body(i) \in Job
      BY <1>9
    <3> HIDE DEF body, left
    <3>3. QED
      BY <3>1, <3>2
  <2> HIDE DEF left
  <2>3. QED
    BY <2>1, <2>2
<1> HIDE DEF left
<1>11. Counts(left) = rest
  BY <1>4, <1>9, <1>10 DEF Counts
<1>12. Through(rest)[Len(rest)] = Len(v)
  <2>1. CASE Len(rest) = 0
    <3>1. k = Len(jobs)
      BY <2>1, <1>1, <1>3, <1>4
    <3>2. Len(v) = 0
      BY <3>1, <1>3, <1>5
    <3>3. Through(rest)[0] = 0
      <4>1. rest \in Seq(Nat)
        BY <1>4
      <4>2. QED
        BY <4>1, ThroughFacts
    <3>4. QED
      BY <2>1, <3>2, <3>3
  <2>2. CASE Len(rest) # 0
    <3>1. Len(rest) \in 1..Len(rest) /\ k + Len(rest) = Len(jobs)
      BY <2>2, <1>1, <1>3, <1>4
    <3>2. Through(rest)[Len(rest)] = t[Len(jobs)] - out
      BY <1>4, <3>1
    <3>3. QED
      BY <3>2, <1>5
  <2>3. QED
    BY <2>1, <2>2
<1>13. (left = <<>>) <=> (v = <<>>)
  <2>1. left = <<>> <=> Len(rest) = 0
    BY <1>10
  <2>2. Len(rest) = 0 => Len(v) = 0
    BY <1>1, <1>3, <1>4, <1>5
  <2>3. Len(rest) # 0 => Len(v) # 0
    <3>1. SUFFICES ASSUME Len(rest) # 0 PROVE Len(v) # 0
      OBVIOUS
    <3>2. k < Len(jobs) /\ k + 1 \in 0..Len(jobs) /\ Len(jobs) \in (k + 1)..Len(jobs)
      <4>1. k \in 0..Len(jobs) /\ Len(jobs) \in Nat /\ Len(rest) = Len(jobs) - k
        BY <1>1, <1>3, <1>4
      <4>2. QED
        BY <3>1, <4>1
    <3>3. out < t[k + 1] /\ t[k + 1] <= t[Len(jobs)]
      BY <3>2, <1>1, <1>3, ThroughMonotone
    <3>4. t[k + 1] \in Nat /\ t[Len(jobs)] \in Nat
      BY <3>2, <1>6
    <3>5. QED
      BY <3>3, <3>4, <1>5
  <2>4. QED
    BY <2>1, <2>2, <2>3
<1>14. aborted' = FALSE
  <2>1. ~ (clip >= 0 /\ c < 0)
    OBVIOUS
  <2>2. QED
    BY <1>2, <1>13, <2>1
<1>15. clip' = ClipFor(left, 0) /\ clip' # 0 /\ clip' \in Int
  <2>1. StopJobs(left) # {} => NextStop(left) \in Nat \ {0} /\ NextStop(left) - 0 = NextStop(left)
    BY <1>10, NextStopFacts
  <2>2. CASE c = 0
    <3>1. NextStop(left) = ClipFor(left, 0)
      BY <2>1 DEF ClipFor, NextStop
    <3>2. StopJobs(left) = {} => NextStop(left) = -1
      BY DEF NextStop
    <3>3. QED
      BY <1>2, <2>1, <2>2, <3>1, <3>2
  <2>3. CASE StopJobs(jobs) = {}
    <3>1. c = -1
      BY <2>3 DEF ClipFor
    <3>2. StopJobs(left) = {}
      <4>1. \A i \in 1..Len(left) : ~ left[i].stop_flag
        BY <2>3, <1>8, <1>9, <1>10 DEF StopJobs
      <4>2. QED
        BY <4>1 DEF StopJobs
    <3>3. QED
      BY <1>2, <3>1, <3>2 DEF ClipFor
  <2>4. CASE StopJobs(jobs) # {} /\ c # 0
    <3> DEFINE f == FirstStop(jobs)
    <3>1. /\ f \in StopJobs(jobs) /\ f \in 1..Len(jobs)
          /\ \A j \in StopJobs(jobs) : f <= j
          /\ NextStop(jobs) = t[f]
      BY <2>4, FirstStopFacts, NextStopFacts DEF ns
    <3> HIDE DEF f
    <3>2. c > 0 /\ c = t[f] - out /\ t[f] \in Nat
      BY <2>4, <3>1, <1>6 DEF ClipFor
    <3>3. k < f
      <4>1. SUFFICES ASSUME f <= k PROVE FALSE
        BY <3>1, <1>3
      <4>2. t[f] <= t[k]
        BY <4>1, <3>1, <1>1, <1>3, ThroughMonotone
      <4>3. t[k] \in Nat
        BY <1>3, <1>6
      <4>4. QED
        BY <4>2, <4>3, <3>2, <1>3
    <3>4. f - k \in 1..Len(left) /\ k + (f - k) = f
      BY <3>1, <3>3, <1>1, <1>3, <1>4, <1>10
    <3>5. f - k \in StopJobs(left)
      BY <3>1, <3>4, <1>9, <1>10 DEF StopJobs
    <3>6. \A j \in StopJobs(left) : f - k <= j
      <4>1. SUFFICES ASSUME NEW j \in StopJobs(left) PROVE f - k <= j
        OBVIOUS
      <4>2. j \in 1..Len(rest) /\ left[j].stop_flag
        BY <1>10 DEF StopJobs
      <4>3. k + j \in StopJobs(jobs)
        BY <4>2, <1>8, <1>9 DEF StopJobs
      <4>4. QED
        BY <4>2, <4>3, <3>1, <1>3
    <3>7. FirstStop(left) = f - k
      <4>1. StopJobs(left) # {}
        BY <3>5
      <4>2. FirstStop(left) \in StopJobs(left) /\ FirstStop(left) <= f - k
        BY <4>1, <3>5, <1>10, FirstStopFacts
      <4>3. f - k <= FirstStop(left)
        BY <4>2, <3>6
      <4>4. FirstStop(left) \in 1..Len(left)
        BY <4>2 DEF StopJobs
      <4>5. QED
        BY <4>2, <4>3, <4>4, <3>4
    <3>8. NextStop(left) = t[f] - out
      <4>1. Through(rest)[f - k] = t[k + (f - k)] - out
        BY <3>4, <1>4, <1>10
      <4>2. QED
        BY <4>1, <3>4, <3>5, <3>7, <1>11 DEF NextStop
    <3>9. ClipFor(left, 0) = c
      BY <3>2, <3>5, <3>8 DEF ClipFor
    <3>10. QED
      BY <1>2, <2>4, <3>2, <3>9
  <2>5. QED
    BY <2>2, <2>3, <2>4
<1>16. Through(Counts(left))[Len(left)] = Len(v)
  BY <1>10, <1>11, <1>12
<1>17. QED
  BY <1>2, <1>10, <1>14, <1>15, <1>16

-----------------------------------------------------------------------------
(* A job behind the others moves the next stop only if it is the first.    *)
LEMMA AppendJob ==
  ASSUME NEW js \in Seq(Job), NEW j \in Job
  PROVE  LET new == Append(js, j)
         IN  /\ new \in Seq(Job)
             /\ Through(Counts(new))[Len(new)]
                  = Through(Counts(js))[Len(js)] + j.n_blocks
             /\ StopJobs(js) # {} =>
                  StopJobs(new) # {} /\ NextStop(new) = NextStop(js)
             /\ StopJobs(js) = {} /\ ~ j.stop_flag => StopJobs(new) = {}
             /\ StopJobs(js) = {} /\ j.stop_flag =>
                  /\ StopJobs(new) # {}
                  /\ NextStop(new) = Through(Counts(new))[Len(new)]
<1> DEFINE new == Append(js, j)
           n   == Len(js)
<1>1. /\ new \in Seq(Job) /\ Len(new) = n + 1 /\ n \in Nat
      /\ \A i \in 1..n : new[i] = js[i]
      /\ new[n + 1] = j
  BY AppendProperties
<1>2. j.n_blocks \in Nat \ {0} /\ j.stop_flag \in BOOLEAN
  BY DEF Job
<1> HIDE DEF new
<1>3. /\ Counts(js) \in Seq(Nat) /\ Len(Counts(js)) = n
      /\ \A i \in 1..n : Counts(js)[i] = js[i].n_blocks
  BY CountsType
<1>4. /\ Counts(new) \in Seq(Nat) /\ Len(Counts(new)) = n + 1
      /\ \A i \in 1..(n + 1) : Counts(new)[i] = new[i].n_blocks
  BY <1>1, CountsType
<1> DEFINE t == Through(Counts(js))
           u == Through(Counts(new))
<1>5. \A i \in 0..n : u[i] = t[i]
  <2>1. ASSUME NEW i \in 0..n PROVE u[i] = t[i]
    <3>1. ASSUME NEW e \in 1..i PROVE Counts(new)[e] = Counts(js)[e]
      <4>1. e \in 1..n /\ e \in 1..(n + 1)
        BY <1>1
      <4>2. QED
        BY <4>1, <1>1, <1>3, <1>4
    <3>2. i \in 0..Len(Counts(js)) /\ Len(Counts(js)) <= Len(Counts(new))
      BY <1>1, <1>3, <1>4
    <3>3. QED
      BY <3>1, <3>2, <1>3, <1>4, ThroughPrefix
  <2>2. QED
    BY <2>1
<1>6. u[n + 1] = t[n] + j.n_blocks
  <2>1. n + 1 \in 1..Len(Counts(new)) /\ (n + 1) - 1 = n /\ n \in 0..n
    BY <1>1, <1>4
  <2>2. u[n + 1] = u[n] + Counts(new)[n + 1]
    BY <2>1, <1>4, ThroughFacts
  <2>3. Counts(new)[n + 1] = j.n_blocks
    BY <2>1, <1>1, <1>4
  <2>4. QED
    BY <2>1, <2>2, <2>3, <1>5
<1> HIDE DEF t, u
<1>7. StopJobs(new) = StopJobs(js) \cup (IF j.stop_flag THEN {n + 1} ELSE {})
  <2>1. \A i \in 1..(n + 1) : i \in 1..n \/ i = n + 1
    BY <1>1
  <2>2. QED
    BY <2>1, <1>1, <1>2 DEF StopJobs
<1>8. ASSUME StopJobs(js) # {}
      PROVE  StopJobs(new) # {} /\ NextStop(new) = NextStop(js)
  <2> DEFINE f == FirstStop(js)
             g == FirstStop(new)
  <2>1. f \in StopJobs(js) /\ f \in 1..n /\ \A i \in StopJobs(js) : f <= i
    BY <1>8, FirstStopFacts
  <2>2. StopJobs(new) # {}
    BY <1>7, <1>8
  <2>3. g \in StopJobs(new) /\ \A i \in StopJobs(new) : g <= i
    BY <1>1, <2>2, FirstStopFacts
  <2> HIDE DEF f, g
  <2>4. g <= f
    BY <1>7, <2>1, <2>3
  <2>5. g \in StopJobs(js)
    BY <1>1, <1>2, <1>7, <2>1, <2>3, <2>4
  <2>6. g \in 1..n
    BY <2>5 DEF StopJobs
  <2>7. f = g
    BY <2>1, <2>4, <2>5, <2>6
  <2>8. NextStop(js) = t[f] /\ NextStop(new) = u[g]
    BY <1>8, <2>2 DEF NextStop, f, g, t, u
  <2>9. f \in 0..n
    BY <2>1
  <2>10. QED
    BY <1>5, <2>2, <2>7, <2>8, <2>9
<1>9. ASSUME StopJobs(js) = {}, j.stop_flag
      PROVE  StopJobs(new) # {} /\ NextStop(new) = u[n + 1]
  <2>1. StopJobs(new) = {n + 1}
    BY <1>7, <1>9
  <2>2. FirstStop(new) \in StopJobs(new)
    BY <1>1, <2>1, FirstStopFacts
  <2>3. FirstStop(new) = n + 1
    BY <2>1, <2>2
  <2>4. QED
    BY <2>1, <2>3 DEF NextStop, u
<1>10. StopJobs(js) = {} /\ ~ j.stop_flag => StopJobs(new) = {}
  BY <1>7
<1>11. Through(Counts(new))[Len(new)] = Through(Counts(js))[Len(js)] + j.n_blocks
  BY <1>1, <1>6 DEF t, u
<1>12. u[n + 1] = Through(Counts(new))[Len(new)]
  BY <1>1 DEF u
<1>13. QED
  BY <1>1, <1>8, <1>9, <1>10, <1>11, <1>12 DEF new

-----------------------------------------------------------------------------
(* The units of the vector.                                                *)
LEMMA UnitsFacts ==
  ASSUME vec \in Seq(Entry), NoEmptyEntry
  PROVE  /\ Units(vec) \in Seq(Unit)
         /\ Len(Units(vec)) = Through(Lens(vec))[Len(vec)]
<1> DEFINE seqs == [i \in 1..Len(vec) |-> vec[i].data]
<1>1. \A i \in 1..Len(vec) : vec[i].data \in Seq(Unit)
  <2>1. \A i \in 1..Len(vec) : vec[i] \in Entry
    OBVIOUS
  <2>2. QED
    BY <2>1 DEF Entry
<1>2. seqs \in Seq(Seq(Unit)) /\ Len(seqs) = Len(vec)
  BY <1>1
<1>3. \A i \in 1..Len(seqs) : seqs[i] = vec[i].data
  BY <1>2
<1>4. Units(vec) = FlattenSeq(seqs)
  BY DEF Units
<1> HIDE DEF seqs
<1>5. /\ Lens(vec) \in Seq(Nat) /\ Len(Lens(vec)) = Len(seqs)
      /\ \A i \in 1..Len(seqs) : Lens(vec)[i] = Len(seqs[i])
  <2>1. /\ Lens(vec) \in Seq(Nat \ {0}) /\ Len(Lens(vec)) = Len(vec)
        /\ \A i \in 1..Len(vec) : Lens(vec)[i] = Len(vec[i].data)
    BY LensType
  <2>2. Lens(vec) \in Seq(Nat)
    BY <2>1
  <2>3. QED
    BY <1>2, <1>3, <2>1, <2>2
<1>6. /\ FlattenSeq(seqs) \in Seq(Unit)
      /\ Len(FlattenSeq(seqs)) = Through(Lens(vec))[Len(Lens(vec))]
  BY <1>2, <1>5, FlattenFacts
<1>7. QED
  BY <1>2, <1>4, <1>5, <1>6

-----------------------------------------------------------------------------
(* The invariant, step by step.                                            *)

(* A new link has an empty vector and no clip.                             *)
LEMMA InitInv == Init => SendInv
<1> SUFFICES ASSUME Init PROVE SendInv
  OBVIOUS
<1>1. TypeOK
  <2>1. /\ vec \in Seq(Entry) /\ jobs \in Seq(Job)
        /\ queued \in Seq([msg : Msgs, stop : BOOLEAN])
    BY DEF Init
  <2>2. sock \in [buf : Seq(Unit), eof : BOOLEAN, hup : BOOLEAN]
    <3>1. <<>> \in Seq(Unit)
      OBVIOUS
    <3>2. QED
      BY <3>1 DEF Init
  <2>3. start \in Nat /\ alen \in Nat /\ clip \in Int /\ blocks_out \in Nat /\ stops \in Nat
    BY SendAssumptions DEF Init
  <2>4. busy \in BOOLEAN /\ aborted \in BOOLEAN /\ out_status \in Status
    BY DEF Init, Status
  <2>5. QED
    BY <2>1, <2>2, <2>3, <2>4 DEF TypeOK
<1>2. NoEmptyEntry /\ NoAbort
  BY DEF Init, NoEmptyEntry, NoAbort
<1>3. StopJobs(jobs) = {}
  BY DEF Init, StopJobs
<1>4. ClipAtFirstStop
  BY <1>3 DEF Init, ClipAtFirstStop
<1>5. BlocksCounted
  <2>1. Counts(jobs) \in Seq(Nat) /\ Len(jobs) = 0
    BY DEF Init, Counts
  <2>2. Through(Counts(jobs))[0] = 0
    BY <2>1, ThroughFacts
  <2>3. QED
    BY <2>1, <2>2 DEF Init, BlocksCounted
<1>6. QED
  BY <1>1, <1>2, <1>4, <1>5 DEF SendInv

(* What the clip means, in the form the steps use.                         *)
LEMMA ClipFacts ==
  ASSUME SendInv
  PROVE  /\ clip = ClipFor(jobs, blocks_out)
         /\ clip >= 0 <=> StopJobs(jobs) # {}
         /\ clip >= 0 => clip > 0 /\ clip <= Len(vec)
<1>1. StopJobs(jobs) # {} => NextStop(jobs) <= Len(vec) + blocks_out /\ NextStop(jobs) \in Nat
  <2>1. jobs \in Seq(Job)
    BY DEF SendInv, TypeOK
  <2>2. QED
    BY <2>1, NextStopFacts DEF SendInv, BlocksCounted
<1>2. Len(vec) \in Nat /\ blocks_out \in Nat /\ clip \in Int
  BY DEF SendInv, TypeOK
<1>3. QED
  BY <1>1, <1>2 DEF SendInv, ClipAtFirstStop, ClipFor

(* mtc_link_queue appends whole entries, and clips at a stop signal if     *)
(* nothing is clipped yet.                                                 *)
LEMMA QueueInv ==
  ASSUME SendInv, NEW m \in Msgs, NEW stop \in BOOLEAN, Queue(m, stop)
  PROVE  SendInv'
<1> DEFINE id  == Len(queued) + 1
           new == Entries(id, m, stop)
           job == NewJob(id, m, stop)
<1>1. TypeOK /\ NoEmptyEntry /\ BlocksCounted /\ ClipAtFirstStop /\ NoAbort
  BY DEF SendInv
<1>2. id \in Nat
  BY <1>1 DEF TypeOK
<1>3. /\ new \in Seq(Entry) /\ Len(new) = Len(Blocks[m]) + 1
      /\ \A e \in 1..Len(new) : new[e].data # <<>>
  BY <1>2, EntriesType
<1>4. Len(Blocks[m]) \in Nat
  BY SendAssumptions
<1>5. job \in Job /\ job.n_blocks = Len(new) /\ job.stop_flag = stop
  <2>1. Len(Blocks[m]) + 1 \in Nat \ {0}
    BY <1>4
  <2>2. QED
    BY <1>2, <1>3, <2>1 DEF NewJob, Job
<1>6. /\ jobs' = Append(jobs, job) /\ vec' = vec \o new
      /\ clip' = IF stop /\ clip < 0 THEN Len(vec) + Len(new) ELSE clip
      /\ queued' = Append(queued, [msg |-> m, stop |-> stop])
      /\ start' = (IF start + Len(vec) + Len(new) > alen THEN 0 ELSE start)
      /\ alen' = (IF start + Len(vec) + Len(new) > alen THEN alen * 2 ELSE alen)
      /\ UNCHANGED <<busy, blocks_out, out_status, aborted, stops, sock>>
  BY DEF Queue, AllocIov, QueuedClip
<1>7. jobs \in Seq(Job) /\ vec \in Seq(Entry) /\ clip \in Int /\ blocks_out \in Nat
  BY <1>1 DEF TypeOK
<1> HIDE DEF id, new, job
<1>8. /\ vec' \in Seq(Entry) /\ Len(vec') = Len(vec) + Len(new)
      /\ \A i \in 1..(Len(vec) + Len(new)) :
           vec'[i] = IF i <= Len(vec) THEN vec[i] ELSE new[i - Len(vec)]
  BY <1>3, <1>6, <1>7, ConcatProperties
<1>9. Len(vec) \in Nat /\ Len(new) \in Nat
  BY <1>3, <1>7
<1>10. jobs' \in Seq(Job) /\ queued' \in Seq([msg : Msgs, stop : BOOLEAN])
  BY <1>1, <1>5, <1>6, <1>7 DEF TypeOK
<1>11. TypeOK'
  <2>1. start' \in Nat /\ alen' \in Nat /\ clip' \in Int
    BY <1>1, <1>6, <1>9 DEF TypeOK
  <2>2. QED
    BY <1>1, <1>6, <1>8, <1>10, <2>1 DEF TypeOK
<1>12. NoEmptyEntry'
  <2>1. ASSUME NEW i \in 1..Len(vec') PROVE vec'[i].data # <<>>
    <3>1. CASE i <= Len(vec)
      BY <3>1, <1>1, <1>8, <1>9 DEF NoEmptyEntry
    <3>2. CASE i > Len(vec)
      <4>1. vec'[i] = new[i - Len(vec)] /\ i - Len(vec) \in 1..Len(new)
        BY <3>2, <1>8, <1>9
      <4>2. QED
        BY <4>1, <1>3
    <3>3. QED
      BY <3>1, <3>2, <1>9
  <2>2. QED
    BY <2>1 DEF NoEmptyEntry
<1>13. /\ Through(Counts(jobs'))[Len(jobs')] = Through(Counts(jobs))[Len(jobs)] + Len(new)
       /\ StopJobs(jobs) # {} => StopJobs(jobs') # {} /\ NextStop(jobs') = NextStop(jobs)
       /\ StopJobs(jobs) = {} /\ ~ stop => StopJobs(jobs') = {}
       /\ StopJobs(jobs) = {} /\ stop =>
            /\ StopJobs(jobs') # {}
            /\ NextStop(jobs') = Through(Counts(jobs'))[Len(jobs')]
  BY <1>5, <1>6, <1>7, AppendJob
<1>14. BlocksCounted'
  <2>1. Through(Counts(jobs))[Len(jobs)] = Len(vec) + blocks_out
    BY <1>1 DEF BlocksCounted
  <2>2. Through(Counts(jobs'))[Len(jobs')] = Len(vec') + blocks_out'
    BY <1>6, <1>7, <1>8, <1>9, <1>13, <2>1
  <2>3. QED
    BY <2>2 DEF BlocksCounted
<1>15. ClipAtFirstStop'
  <2>1. CASE StopJobs(jobs) # {}
    <3>1. clip = NextStop(jobs) - blocks_out /\ clip > 0
      BY <1>1, <2>1 DEF ClipAtFirstStop
    <3>2. clip' = clip
      BY <1>6, <1>7, <3>1
    <3>3. QED
      BY <1>6, <1>13, <2>1, <3>1, <3>2 DEF ClipAtFirstStop
  <2>2. CASE StopJobs(jobs) = {} /\ ~ stop
    BY <1>1, <1>6, <1>13, <2>2 DEF ClipAtFirstStop
  <2>3. CASE StopJobs(jobs) = {} /\ stop
    <3>1. clip' = Len(vec')
      BY <1>1, <1>6, <1>8, <2>3 DEF ClipAtFirstStop
    <3>2. Len(new) # 0
      BY <1>3, <1>4
    <3>3. NextStop(jobs') = Len(vec') + blocks_out'
      BY <1>13, <1>14, <2>3 DEF BlocksCounted
    <3>4. NextStop(jobs') - blocks_out' = Len(vec') /\ Len(vec') > 0
      BY <1>6, <1>7, <1>8, <1>9, <3>2, <3>3
    <3>5. QED
      BY <1>13, <2>3, <3>1, <3>4 DEF ClipAtFirstStop
  <2>4. QED
    BY <2>1, <2>2, <2>3
<1>16. NoAbort'
  BY <1>1, <1>6 DEF NoAbort
<1>17. QED
  BY <1>11, <1>12, <1>14, <1>15, <1>16 DEF SendInv

(* The last round of mtc_fd_link_send, after its write.                    *)
LEMMA FinishInv ==
  ASSUME SendInv, NEW v \in Seq(Entry), NEW out \in Nat, NEW c \in Int,
         \A i \in 1..Len(v) : v[i].data # <<>>,
         Len(v) + out = Len(vec) + blocks_out, c = ClipFor(jobs, out),
         clip >= 0 => c >= 0, Finish(v, c, out), vec' = v,
         start' \in Nat, alen' \in Nat, queued' = queued,
         sock' \in [buf : Seq(Unit), eof : BOOLEAN, hup : BOOLEAN]
  PROVE  SendInv'
<1>1. TypeOK /\ BlocksCounted
  BY DEF SendInv
<1>2. jobs \in Seq(Job)
  BY <1>1 DEF TypeOK
<1>3. StopJobs(jobs) # {} => c >= 0
  BY ClipFacts
<1>4. Through(Counts(jobs))[Len(jobs)] = Len(v) + out
  BY <1>1 DEF BlocksCounted
<1>5. /\ jobs' \in Seq(Job)
      /\ Through(Counts(jobs'))[Len(jobs')] = Len(v)
      /\ aborted' = FALSE
      /\ clip' = ClipFor(jobs', 0) /\ clip' # 0 /\ clip' \in Int
      /\ blocks_out' = 0 /\ busy' = FALSE
  <2>1. Len(v) \in Nat /\ (v = <<>> <=> Len(v) = 0)
    OBVIOUS
  <2>2. QED
    BY <1>2, <1>3, <1>4, <2>1, FinishFacts
<1>6. out_status' \in Status /\ stops' \in Nat
  <2>1. out_status \in Status /\ stops \in Nat
    BY <1>1 DEF TypeOK
  <2>2. /\ out_status' = "stopped" \/ out_status' = out_status
        /\ stops' = stops + 1 \/ stops' = stops
    BY DEF Finish
  <2>3. QED
    BY <2>1, <2>2 DEF Status
<1>7. TypeOK'
  BY <1>1, <1>5, <1>6 DEF TypeOK
<1>8. BlocksCounted' /\ NoEmptyEntry' /\ NoAbort'
  <2>1. Len(v) \in Nat
    OBVIOUS
  <2>2. QED
    BY <1>5, <2>1 DEF BlocksCounted, NoEmptyEntry, NoAbort
<1>9. ClipAtFirstStop'
  <2>1. StopJobs(jobs') # {} => NextStop(jobs') \in Nat \ {0}
    BY <1>5, NextStopFacts
  <2>2. QED
    BY <1>5, <2>1 DEF ClipAtFirstStop, ClipFor
<1>10. QED
  BY <1>7, <1>8, <1>9 DEF SendInv

(* What a round of the loop takes lies inside the vector and the clip.     *)
LEMMA RoundFacts ==
  ASSUME SendInv
  PROVE  /\ n_blocks_out \in 0..Len(vec)
         /\ clip >= 0 => n_blocks_out <= clip
         /\ clip >= 0 /\ repeat => n_blocks_out < clip
<1>1. /\ clip >= 0 => clip > 0 /\ clip <= Len(vec)
      /\ clip \in Int /\ Len(vec) \in Nat /\ IovMax \in Nat
  BY ClipFacts, SendAssumptions DEF SendInv, TypeOK
<1>2. QED
  BY <1>1 DEF n_blocks_out, repeat, n_blocks_to_send

(* A send that writes removes what was written, and moves the clip along   *)
(* or lifts it at the stop signal.                                         *)
LEMMA SendWritesInv ==
  ASSUME SendInv, SendWrites
  PROVE  SendInv'
<1>1. TypeOK /\ NoEmptyEntry /\ BlocksCounted /\ ClipAtFirstStop /\ NoAbort
  BY DEF SendInv
<1>2. PICK n \in 0..(SockCap - Len(sock.buf)) :
        /\ n <= Through(Lens(vec))[n_blocks_out]
        /\ sock' = [sock EXCEPT !.buf = @ \o SubSeq(Units(vec), 1, n)]
        /\ vec' = PopIov(n).vec /\ start' = PopIov(n).start /\ alen' = PopIov(n).alen
        /\ IF repeat
           THEN /\ busy' = TRUE
                /\ blocks_out' = blocks_out + PopIov(n).n_blocks
                /\ clip' = PopIov(n).clip
                /\ aborted' = (clip >= 0 /\ PopIov(n).clip < 0)
                /\ UNCHANGED <<jobs, out_status, stops>>
           ELSE Finish(PopIov(n).vec, PopIov(n).clip, blocks_out + PopIov(n).n_blocks)
  BY DEF SendWrites
<1>3. queued' = queued
  BY DEF SendWrites
<1> DEFINE k == PopIov(n).n_blocks
           v == PopIov(n).vec
           c == PopIov(n).clip
           out == blocks_out + k
<1>4. /\ n_blocks_out \in 0..Len(vec)
      /\ clip >= 0 => n_blocks_out <= clip
      /\ clip >= 0 /\ repeat => n_blocks_out < clip
  BY RoundFacts
<1>5. n \in Nat
  OBVIOUS
<1>6. /\ k \in 0..n_blocks_out /\ v \in Seq(Entry)
      /\ Len(v) = Len(vec) - k
      /\ \A i \in 1..Len(v) : v[i].data # <<>>
      /\ PopIov(n).start \in Nat /\ PopIov(n).alen \in Nat
      /\ c = IF clip >= 0 THEN clip - k ELSE clip
  BY <1>1, <1>2, <1>4, <1>5, PopFacts
<1> HIDE DEF k, v, c
<1>7. /\ Len(vec) \in Nat /\ blocks_out \in Nat /\ clip \in Int
      /\ jobs \in Seq(Job) /\ k \in Nat /\ n_blocks_out \in Nat
  BY <1>1, <1>4, <1>6 DEF TypeOK
<1>8. out \in Nat /\ c \in Int /\ Len(v) + out = Len(vec) + blocks_out
  BY <1>6, <1>7
<1>9. /\ c = ClipFor(jobs, out)
      /\ clip >= 0 => c >= 0
      /\ clip >= 0 /\ repeat => c > 0
      /\ StopJobs(jobs) # {} <=> clip >= 0
  <2>1. /\ clip = ClipFor(jobs, blocks_out)
        /\ clip >= 0 <=> StopJobs(jobs) # {}
    BY ClipFacts
  <2>2. StopJobs(jobs) # {} => NextStop(jobs) \in Nat
    BY <1>7, NextStopFacts
  <2>3. c = ClipFor(jobs, out)
    BY <1>6, <1>7, <2>1, <2>2 DEF ClipFor
  <2>4. clip >= 0 => c = clip - k /\ k <= n_blocks_out
    BY <1>6
  <2>5. QED
    BY <1>4, <1>7, <2>1, <2>3, <2>4, SMTT(30)
<1>10. sock' \in [buf : Seq(Unit), eof : BOOLEAN, hup : BOOLEAN]
  <2>1. sock \in [buf : Seq(Unit), eof : BOOLEAN, hup : BOOLEAN] /\ vec \in Seq(Entry)
    BY <1>1 DEF TypeOK
  <2>2. Units(vec) \in Seq(Unit) /\ Len(Units(vec)) = Through(Lens(vec))[Len(vec)]
    BY <1>1, <2>1, UnitsFacts
  <2>3. n <= Len(Units(vec))
    <3>1. /\ Lens(vec) \in Seq(Nat \ {0}) /\ Len(Lens(vec)) = Len(vec)
      BY <1>1, <2>1, LensType
    <3>2. Lens(vec) \in Seq(Nat)
      BY <3>1
    <3>3. Len(vec) \in n_blocks_out..Len(Lens(vec)) /\ n_blocks_out \in 0..Len(Lens(vec))
      BY <1>4, <1>7, <3>1
    <3>4. Through(Lens(vec))[n_blocks_out] <= Through(Lens(vec))[Len(vec)]
      BY <3>2, <3>3, ThroughMonotone
    <3>5. Through(Lens(vec))[n_blocks_out] \in Nat
      BY <3>2, <3>3, ThroughFacts
    <3>6. QED
      BY <1>2, <1>5, <2>2, <3>4, <3>5
  <2>4. SubSeq(Units(vec), 1, n) \in Seq(Unit)
    <3>1. \A i \in 1..n : Units(vec)[i] \in Unit
      BY <1>5, <2>2, <2>3
    <3>2. QED
      BY <1>5, <3>1, SubSeqProperties
  <2>5. sock.buf \o SubSeq(Units(vec), 1, n) \in Seq(Unit)
    BY <2>1, <2>4, ConcatProperties
  <2>6. QED
    BY <1>2, <2>1, <2>5
<1>11. vec' = v /\ start' \in Nat /\ alen' \in Nat
  BY <1>2, <1>6 DEF v
<1>12. CASE repeat
  <2>1. /\ busy' = TRUE /\ blocks_out' = out /\ clip' = c
        /\ aborted' = (clip >= 0 /\ c < 0)
        /\ jobs' = jobs /\ out_status' = out_status /\ stops' = stops
    BY <1>2, <1>12 DEF k, c
  <2>2. aborted' = FALSE
    <3>1. ~ (clip >= 0 /\ c < 0)
      BY <1>7, <1>8, <1>9
    <3>2. QED
      BY <2>1, <3>1
  <2> HIDE DEF out
  <2>3. TypeOK'
    BY <1>1, <1>3, <1>6, <1>8, <1>10, <1>11, <2>1, <2>2 DEF TypeOK
  <2>4. NoEmptyEntry' /\ NoAbort'
    BY <1>6, <1>11, <2>2 DEF NoEmptyEntry, NoAbort
  <2>5. BlocksCounted'
    BY <1>1, <1>8, <1>11, <2>1 DEF BlocksCounted
  <2>6. ClipAtFirstStop'
    <3>1. StopJobs(jobs) # {} => c > 0
      BY <1>9, <1>12
    <3>2. QED
      BY <1>9, <2>1, <3>1 DEF ClipAtFirstStop, ClipFor
  <2>7. QED
    BY <2>3, <2>4, <2>5, <2>6 DEF SendInv
<1>13. CASE ~ repeat
  <2>1. Finish(v, c, out)
    BY <1>2, <1>13 DEF k, v, c
  <2> HIDE DEF out
  <2>2. QED
    BY <1>3, <1>6, <1>8, <1>9, <1>10, <1>11, <2>1, FinishInv
<1>14. QED
  BY <1>12, <1>13

(* A send whose later round fails leaves the vector, and finishes the jobs *)
(* that were written.                                                      *)
LEMMA SendGivesUpInv ==
  ASSUME SendInv, SendGivesUp
  PROVE  SendInv'
<1>1. TypeOK /\ NoEmptyEntry
  BY DEF SendInv
<1>2. vec \in Seq(Entry) /\ blocks_out \in Nat /\ clip \in Int
  BY <1>1 DEF TypeOK
<1>3. \A i \in 1..Len(vec) : vec[i].data # <<>>
  BY <1>1 DEF NoEmptyEntry
<1>4. clip = ClipFor(jobs, blocks_out)
  BY ClipFacts
<1>5. /\ Finish(vec, clip, blocks_out) /\ vec' = vec /\ queued' = queued
      /\ start' = start /\ alen' = alen /\ sock' = sock
  BY DEF SendGivesUp
<1>6. /\ start' \in Nat /\ alen' \in Nat
      /\ sock' \in [buf : Seq(Unit), eof : BOOLEAN, hup : BOOLEAN]
  BY <1>1, <1>5 DEF TypeOK
<1>7. QED
  BY <1>2, <1>3, <1>4, <1>5, <1>6, FinishInv

(* What leaves the queue and the vector alone disturbs nothing.            *)
LEMMA QuietInv ==
  ASSUME SendInv,
         UNCHANGED <<vec, start, alen, clip, jobs, busy, blocks_out, aborted, queued, stops>>,
         out_status' \in Status,
         sock' \in [buf : Seq(Unit), eof : BOOLEAN, hup : BOOLEAN]
  PROVE  SendInv'
<1>1. TypeOK /\ NoEmptyEntry /\ BlocksCounted /\ ClipAtFirstStop /\ NoAbort
  BY DEF SendInv
<1>2. TypeOK'
  BY <1>1 DEF TypeOK
<1>3. NoEmptyEntry' /\ BlocksCounted' /\ ClipAtFirstStop' /\ NoAbort'
  BY <1>1 DEF NoEmptyEntry, BlocksCounted, ClipAtFirstStop, NoAbort
<1> QED  BY <1>2, <1>3 DEF SendInv

(* The steps that leave the queue and the vector alone.                    *)
LEMMA OtherInv ==
  ASSUME SendInv, SendFails \/ Finalize \/ ResumeOut \/ PeerReads \/ PeerHangsUp
  PROVE  SendInv'
<1>1. TypeOK /\ NoEmptyEntry /\ BlocksCounted /\ ClipAtFirstStop /\ NoAbort
  BY DEF SendInv
<1>2. /\ UNCHANGED <<vec, start, alen, clip, jobs, busy, blocks_out, aborted, queued, stops>>
  BY DEF SendFails, Finalize, ResumeOut, PeerReads, PeerHangsUp, iov, sendVars
<1>3. out_status' \in Status
  BY <1>1 DEF SendFails, Finalize, ResumeOut, PeerReads, PeerHangsUp, sendVars, TypeOK, Status
<1>4. sock' \in [buf : Seq(Unit), eof : BOOLEAN, hup : BOOLEAN]
  <2>1. sock \in [buf : Seq(Unit), eof : BOOLEAN, hup : BOOLEAN]
    BY <1>1 DEF TypeOK
  <2>2. CASE SendFails \/ ResumeOut
    BY <2>1, <2>2 DEF SendFails, ResumeOut
  <2>3. CASE Finalize
    BY <2>1, <2>3 DEF Finalize
  <2>4. CASE PeerHangsUp
    BY <2>1, <2>4 DEF PeerHangsUp
  <2>5. CASE PeerReads
    <3>1. PICK n \in 1..Len(sock.buf) :
            sock' = [sock EXCEPT !.buf = SubSeq(@, n + 1, Len(@))]
      BY <2>5 DEF PeerReads
    <3>2. SubSeq(sock.buf, n + 1, Len(sock.buf)) \in Seq(Unit)
      <4>1. \A i \in (n + 1)..Len(sock.buf) : sock.buf[i] \in Unit
        BY <2>1
      <4>2. QED
        BY <2>1, <4>1, SubSeqProperties
    <3>3. QED
      BY <2>1, <3>1, <3>2
  <2>6. QED
    BY <2>2, <2>3, <2>4, <2>5
<1>5. QED
  BY <1>2, <1>3, <1>4, QuietInv

(* Every step of the sender keeps the invariant.                           *)
LEMMA StepInv == SendInv /\ [Next]_vars => SendInv'
<1> SUFFICES ASSUME SendInv, [Next]_vars PROVE SendInv'
  OBVIOUS
<1>1. CASE \E m \in Msgs, stop \in BOOLEAN : Queue(m, stop)
  BY <1>1, QueueInv
<1>2. CASE SendWrites
  BY <1>2, SendWritesInv
<1>3. CASE SendGivesUp
  BY <1>3, SendGivesUpInv
<1>4. CASE SendFails \/ Finalize \/ ResumeOut \/ PeerReads \/ PeerHangsUp
  BY <1>4, OtherInv
<1>5. CASE UNCHANGED vars
  BY <1>5 DEF vars, sendVars, SendInv, TypeOK, NoEmptyEntry, BlocksCounted,
              ClipAtFirstStop, NoAbort
<1>6. QED
  BY <1>1, <1>2, <1>3, <1>4, <1>5 DEF Next, Send

(* In every reachable state of the sender its types hold, no entry is      *)
(* empty, the clip is where the first stop signal ends, and no assertion   *)
(* fails.                                                                  *)
THEOREM SendInvariant == Spec => []SendInv
<1>1. QED
  BY InitInv, StepInv, PTL DEF Spec

(* Type correctness of the sending half.                                   *)
THEOREM TypeCorrect == Spec => []TypeOK
<1>1. SendInv => TypeOK
  BY DEF SendInv
<1>2. QED
  BY <1>1, SendInvariant, PTL

(* No run of mtc_fd_link_queue and mtc_fd_link_send, whatever writev takes *)
(* and the peer does, fails an assertion of the sending side.              *)
THEOREM NeverAborts == Spec => []NoAbort
<1>1. SendInv => NoAbort
  BY DEF SendInv
<1>2. QED
  BY <1>1, SendInvariant, PTL

(* A job is released exactly when its last block is out.                   *)
THEOREM JobsMatchVector == Spec => []BlocksCounted
<1>1. SendInv => BlocksCounted
  BY DEF SendInv
<1>2. QED
  BY <1>1, SendInvariant, PTL

(* The clip is the end of the first stop signal in the queue.              *)
THEOREM ClipIsFirstStop == Spec => []ClipAtFirstStop
<1>1. SendInv => ClipAtFirstStop
  BY DEF SendInv
<1>2. QED
  BY <1>1, SendInvariant, PTL

-----------------------------------------------------------------------------
(* The allocation of the vector.  It is halved only above IovMin, and never *)
(* falls below it, because it is always IovMin doubled some times: it is in *)
(* every set that has IovMin and, with a number, its double.                *)

Closed(S) == IovMin \in S /\ \A x \in S : 2 * x \in S
AlenDoubled == \A S \in SUBSET Nat : Closed(S) => alen \in S
RoomInv == IovFits /\ AlenDoubled

(* The vector never has less room than it starts with.                     *)
LEMMA RoomBound ==
  ASSUME AlenDoubled
  PROVE  alen \in Nat /\ alen >= IovMin
<1> DEFINE S == {x \in Nat : x >= IovMin}
<1>1. S \in SUBSET Nat /\ Closed(S)
  BY SendAssumptions DEF Closed
<1>2. QED
  BY <1>1 DEF AlenDoubled

(* Growing takes the room from one of its sizes to the next, twice as      *)
(* large.                                                                  *)
LEMMA RoomDoubles ==
  ASSUME AlenDoubled, alen' = alen * 2
  PROVE  AlenDoubled'
<1> SUFFICES ASSUME NEW S \in SUBSET Nat, Closed(S) PROVE alen' \in S
  BY DEF AlenDoubled, Closed
<1>1. alen \in S /\ alen * 2 = 2 * alen
  BY RoomBound DEF AlenDoubled
<1>2. QED
  BY <1>1 DEF Closed

(* Collapsing takes it back to the size before.                            *)
LEMMA RoomHalves ==
  ASSUME AlenDoubled, alen > IovMin, alen' = alen \div 2
  PROVE  AlenDoubled'
<1> SUFFICES ASSUME NEW S \in SUBSET Nat, Closed(S) PROVE alen' \in S
  BY DEF AlenDoubled, Closed
<1> DEFINE T == {x \in Nat : x = IovMin \/ \E y \in S : x = 2 * y}
<1>1. Closed(T)
  <2>1. IovMin \in T
    BY SendAssumptions
  <2>2. ASSUME NEW x \in T PROVE 2 * x \in T
    <3>1. x \in S
      BY DEF Closed
    <3>2. 2 * x \in Nat
      OBVIOUS
    <3>3. QED
      BY <3>1, <3>2
  <2>3. QED
    BY <2>1, <2>2 DEF Closed
<1>2. alen \in T
  BY <1>1 DEF AlenDoubled
<1>3. PICK y \in S : alen = 2 * y
  BY <1>2, SendAssumptions
<1>4. alen \div 2 = y
  BY <1>3
<1>5. QED
  BY <1>4

(* Queueing a message that the first vector has room for fits after one    *)
(* doubling.                                                               *)
LEMMA QueueRoom ==
  ASSUME SmallMessages, SendInv, RoomInv,
         NEW m \in Msgs, NEW stop \in BOOLEAN, Queue(m, stop)
  PROVE  RoomInv'
<1> DEFINE new == Entries(Len(queued) + 1, m, stop)
<1>1. Len(queued) + 1 \in Nat /\ start \in Nat /\ vec \in Seq(Entry)
  BY DEF SendInv, TypeOK
<1>2. new \in Seq(Entry) /\ Len(new) = Len(Blocks[m]) + 1
  BY <1>1, EntriesType
<1>3. Len(new) \in Nat /\ Len(new) <= IovMin
  BY <1>2, SendAssumptions DEF SmallMessages
<1>4. /\ start' = (IF start + Len(vec) + Len(new) > alen THEN 0 ELSE start)
      /\ alen' = (IF start + Len(vec) + Len(new) > alen THEN alen * 2 ELSE alen)
      /\ vec' = vec \o new
  BY DEF Queue, AllocIov
<1> HIDE DEF new
<1>5. Len(vec') = Len(vec) + Len(new) /\ Len(vec) \in Nat
  <2>1. Len(vec \o new) = Len(vec) + Len(new)
    BY <1>1, <1>2, ConcatProperties
  <2>2. QED
    BY <1>1, <1>4, <2>1
<1>6. alen \in Nat /\ alen >= IovMin /\ IovMin \in Nat /\ start + Len(vec) <= alen
  BY RoomBound, SendAssumptions DEF RoomInv, IovFits
<1>7. IovFits'
  <2>1. start' + Len(vec') <= alen'
    BY <1>1, <1>3, <1>4, <1>5, <1>6
  <2>2. QED
    BY <2>1 DEF IovFits
<1>8. AlenDoubled'
  <2>1. CASE start + Len(vec) + Len(new) > alen
    BY <1>4, <2>1, RoomDoubles DEF RoomInv
  <2>2. CASE ~ (start + Len(vec) + Len(new) > alen)
    BY <1>4, <2>2 DEF RoomInv, AlenDoubled
  <2>3. QED
    BY <2>1, <2>2
<1>9. QED
  BY <1>7, <1>8 DEF RoomInv

(* Collapsing the vector after a write leaves room for what is in it.      *)
LEMMA PopRoom ==
  ASSUME SendInv, RoomInv, SendWrites
  PROVE  RoomInv'
<1>1. PICK n \in 0..(SockCap - Len(sock.buf)) :
        /\ n <= Through(Lens(vec))[n_blocks_out]
        /\ vec' = PopIov(n).vec /\ start' = PopIov(n).start /\ alen' = PopIov(n).alen
  BY DEF SendWrites
<1> DEFINE len == Len(ConsumeRest(Lens(vec), n))
           k   == PopIov(n).n_blocks
<1>2. TypeOK /\ NoEmptyEntry /\ n \in Nat /\ n_blocks_out \in 0..Len(vec)
  BY RoundFacts DEF SendInv
<1>3. /\ k \in 0..n_blocks_out /\ Len(vec') = Len(vec) - k
      /\ vec' \in Seq(Entry)
  BY <1>1, <1>2, PopFacts
<1>4. /\ k = Len(vec) - len
      /\ alen' = (IF alen > IovMin /\ 4 * len <= alen THEN alen \div 2 ELSE alen)
      /\ start' = (IF (alen > IovMin /\ 4 * len <= alen) \/ start + k >= alen \div 2
                   THEN 0 ELSE start + k)
  BY <1>1 DEF PopIov
<1>5. /\ alen \in Nat /\ alen >= IovMin /\ IovMin \in Nat
      /\ start \in Nat /\ Len(vec) \in Nat /\ start + Len(vec) <= alen
  BY <1>2, RoomBound, SendAssumptions DEF RoomInv, IovFits, TypeOK
<1>6. len \in Nat
  <2>1. Lens(vec) \in Seq(Nat \ {0})
    BY <1>2, LensType DEF TypeOK
  <2>2. ConsumeRest(Lens(vec), n) \in Seq(Nat \ {0})
    BY <1>2, <2>1, ConsumeRestFacts
  <2>3. QED
    BY <2>2
<1> HIDE DEF k, len
<1>7. IovFits'
  <2>1. k \in Nat /\ k <= Len(vec) /\ Len(vec') = len
    BY <1>2, <1>3, <1>4, <1>5, <1>6
  <2>2. start' + Len(vec') <= alen'
    BY <1>4, <1>5, <1>6, <2>1
  <2>3. QED
    BY <2>2 DEF IovFits
<1>8. AlenDoubled'
  <2>1. CASE alen > IovMin /\ 4 * len <= alen
    BY <1>4, <2>1, RoomHalves DEF RoomInv
  <2>2. CASE ~ (alen > IovMin /\ 4 * len <= alen)
    BY <1>4, <2>2 DEF RoomInv, AlenDoubled
  <2>3. QED
    BY <2>1, <2>2
<1>9. QED
  BY <1>7, <1>8 DEF RoomInv

(* The window of the IO vector stays inside its allocation, however many    *)
(* messages are queued and however short the writes are, as long as no      *)
(* message has as many blocks as the vector begins with.                    *)
THEOREM VectorHasRoom ==
  ASSUME SmallMessages
  PROVE  Spec => []IovFits
<1>1. Init => RoomInv
  <2> SUFFICES ASSUME Init PROVE RoomInv
    OBVIOUS
  <2>1. start = 0 /\ Len(vec) = 0 /\ alen = IovMin
    BY DEF Init
  <2>2. IovFits
    BY <2>1, SendAssumptions DEF IovFits
  <2>3. AlenDoubled
    BY <2>1 DEF AlenDoubled, Closed
  <2>4. QED
    BY <2>2, <2>3 DEF RoomInv
<1>2. SendInv /\ RoomInv /\ [Next]_vars => RoomInv'
  <2> SUFFICES ASSUME SendInv, RoomInv, [Next]_vars PROVE RoomInv'
    OBVIOUS
  <2>1. CASE \E m \in Msgs, stop \in BOOLEAN : Queue(m, stop)
    BY <2>1, QueueRoom
  <2>2. CASE SendWrites
    BY <2>2, PopRoom
  <2>3. ASSUME UNCHANGED <<vec, start, alen>> PROVE RoomInv'
    BY <2>3 DEF RoomInv, IovFits, AlenDoubled
  <2>4. CASE SendGivesUp
    BY <2>3, <2>4 DEF SendGivesUp
  <2>5. CASE SendFails \/ Finalize \/ ResumeOut \/ PeerReads \/ PeerHangsUp
    BY <2>3, <2>5 DEF SendFails, Finalize, ResumeOut, PeerReads, PeerHangsUp, iov, sendVars
  <2>6. CASE UNCHANGED vars
    BY <2>3, <2>6 DEF vars, sendVars
  <2>7. QED
    BY <2>1, <2>2, <2>4, <2>5, <2>6 DEF Next, Send
<1>3. RoomInv => IovFits
  BY DEF RoomInv
<1>4. QED
  BY <1>1, <1>2, <1>3, SendInvariant, PTL DEF Spec

-----------------------------------------------------------------------------
(***************************************************************************)
(* What the vector and the jobs of the sender have to do with the messages *)
(* that were queued.                                                       *)
(*                                                                         *)
(* The argument: the jobs are the last messages queued, and the vector is  *)
(* the end of what these were queued with, but for what is out of the      *)
(* first entry (EndOf).  A write keeps this, as it takes from the front;   *)
(* that the release of jobs keeps it follows from the counts, which say    *)
(* that nothing is left of the entries of a job that is released.          *)
(***************************************************************************)

(* The jobs are those of the last messages, in order.                      *)
JobsQueued ==
  /\ Len(jobs) <= Len(queued)
  /\ \A i \in 1..Len(jobs) :
       LET id == Len(queued) - Len(jobs) + i
       IN  /\ jobs[i].id = id /\ jobs[i].msg = queued[id].msg
           /\ jobs[i].stop_flag = queued[id].stop

(* Only the first job has blocks that are out.                             *)
Whole(j) == Len(Blocks[j.msg]) + 1
JobsWhole ==
  \A i \in 1..Len(jobs) :
    /\ jobs[i].n_blocks <= Whole(jobs[i])
    /\ i > 1 => jobs[i].n_blocks = Whole(jobs[i])

(* An entry is one of those that were queued, perhaps begun; v is the end  *)
(* of w in this sense.                                                     *)
PartOf(x, whole) ==
  /\ x.own = whole.own
  /\ Len(x.data) <= Len(whole.data)
  /\ x.data = LastUnits(whole.data, Len(x.data))
EndOf(v, w) ==
  /\ Len(v) <= Len(w)
  /\ \A i \in 1..Len(v) :
       /\ PartOf(v[i], w[Len(w) - Len(v) + i])
       /\ i > 1 => v[i] = w[Len(w) - Len(v) + i]

(* Stop signals are reported when their message is released.               *)
Released == Len(queued) - Len(jobs)
StopsUpTo(n) == {i \in 1..n : queued[i].stop}
StopsCounted == stops = Cardinality(StopsUpTo(Released))

HistInv ==
  /\ JobsQueued /\ JobsWhole /\ EndOf(vec, AllEntries)
  /\ StopsCounted /\ StoppedBetweenMessages

-----------------------------------------------------------------------------
(* Ends of sequences.                                                      *)

(* The last n of a sequence are n, in their order.                         *)
LEMMA LastUnitsFacts ==
  ASSUME NEW S, NEW s \in Seq(S), NEW n \in 0..Len(s)
  PROVE  /\ LastUnits(s, n) \in Seq(S) /\ Len(LastUnits(s, n)) = n
         /\ \A i \in 1..n : LastUnits(s, n)[i] = s[Len(s) - n + i]
<1> DEFINE a == Len(s) - n + 1
           b == Len(s)
<1>1. a \in Int /\ b \in Int /\ a >= 1 /\ b - a + 1 = n /\ (a <= b <=> n # 0)
  OBVIOUS
<1>2. \A i \in a..b : s[i] \in S
  OBVIOUS
<1>3. /\ SubSeq(s, a, b) \in Seq(S)
      /\ Len(SubSeq(s, a, b)) = IF a <= b THEN b - a + 1 ELSE 0
      /\ \A i \in 1..(b - a + 1) : SubSeq(s, a, b)[i] = s[a + i - 1]
  <2> HIDE DEF a, b
  <2> QED  BY <1>1, <1>2, SubSeqProperties
<1>4. \A i \in 1..n : a + i - 1 = Len(s) - n + i
  OBVIOUS
<1> HIDE DEF a
<1> QED  BY <1>1, <1>3, <1>4 DEF LastUnits, a, b

(* All of a sequence are its last.                                         *)
LEMMA LastUnitsAll ==
  ASSUME NEW S, NEW s \in Seq(S)
  PROVE  LastUnits(s, Len(s)) = s
<1> DEFINE l == LastUnits(s, Len(s))
<1>1. Len(s) \in 0..Len(s) /\ \A i \in 1..Len(s) : Len(s) - Len(s) + i = i
  OBVIOUS
<1>2. l \in Seq(S) /\ Len(l) = Len(s) /\ \A i \in 1..Len(s) : l[i] = s[Len(s) - Len(s) + i]
  BY <1>1, LastUnitsFacts
<1> HIDE DEF l
<1>3. \A i \in 1..Len(l) : l[i] = s[i]
  BY <1>1, <1>2
<1> QED  BY <1>2, <1>3, SeqEqual DEF l

(* The last of the last are the last.                                      *)
LEMMA LastUnitsTwice ==
  ASSUME NEW S, NEW s \in Seq(S), NEW a \in 0..Len(s), NEW b \in 0..a
  PROVE  LastUnits(LastUnits(s, a), b) = LastUnits(s, b)
<1> DEFINE l == LastUnits(s, a)
           m == LastUnits(l, b)
           r == LastUnits(s, b)
<1>1. l \in Seq(S) /\ Len(l) = a /\ \A i \in 1..a : l[i] = s[Len(s) - a + i]
  BY LastUnitsFacts
<1>2. b \in 0..Len(s)
  OBVIOUS
<1>3. r \in Seq(S) /\ Len(r) = b /\ \A i \in 1..b : r[i] = s[Len(s) - b + i]
  BY <1>2, LastUnitsFacts
<1> HIDE DEF l
<1>4. m \in Seq(S) /\ Len(m) = b /\ \A i \in 1..b : m[i] = l[a - b + i]
  BY <1>1, LastUnitsFacts
<1> HIDE DEF m, r
<1>5. ASSUME NEW i \in 1..b PROVE m[i] = r[i]
  <2>1. a - b + i \in 1..a /\ Len(s) - a + (a - b + i) = Len(s) - b + i
    OBVIOUS
  <2>2. l[a - b + i] = s[Len(s) - a + (a - b + i)]
    BY <1>1, <2>1
  <2> QED  BY <1>3, <1>4, <2>1, <2>2
<1>6. m = r
  BY <1>3, <1>4, <1>5, SeqEqual
<1> QED  BY <1>6 DEF l, m, r

(* A part of an entry that has its length is that entry.                   *)
LEMMA PartFacts ==
  ASSUME NEW x \in Entry
  PROVE  /\ PartOf(x, x)
         /\ \A whole \in Entry : PartOf(x, whole) /\ Len(x.data) = Len(whole.data) => x = whole
<1>1. x.own \in Nat /\ x.data \in Seq(Unit) /\ x = [own |-> x.own, data |-> x.data]
  BY DEF Entry
<1>2. LastUnits(x.data, Len(x.data)) = x.data /\ Len(x.data) \in Nat
  BY <1>1, LastUnitsAll
<1>3. ASSUME NEW whole \in Entry, PartOf(x, whole), Len(x.data) = Len(whole.data)
      PROVE  x = whole
  <2>1. /\ whole.data \in Seq(Unit)
        /\ whole = [own |-> whole.own, data |-> whole.data]
    BY DEF Entry
  <2>2. LastUnits(whole.data, Len(whole.data)) = whole.data
    BY <2>1, LastUnitsAll
  <2> QED  BY <1>1, <1>3, <2>1, <2>2 DEF PartOf
<1> QED  BY <1>2, <1>3 DEF PartOf

(* A part of a part is a part.                                             *)
LEMMA PartOfPart ==
  ASSUME NEW x \in Entry, NEW y \in Entry, NEW z \in Entry, PartOf(x, y), PartOf(y, z)
  PROVE  PartOf(x, z)
<1>1. x.data \in Seq(Unit) /\ y.data \in Seq(Unit) /\ z.data \in Seq(Unit)
  BY DEF Entry
<1>2. /\ Len(y.data) \in 0..Len(z.data) /\ Len(x.data) \in 0..Len(y.data)
      /\ Len(x.data) <= Len(z.data)
  <2>1. Len(x.data) \in Nat /\ Len(y.data) \in Nat /\ Len(z.data) \in Nat
    BY <1>1
  <2> QED  BY <2>1 DEF PartOf
<1>3. LastUnits(LastUnits(z.data, Len(y.data)), Len(x.data)) = LastUnits(z.data, Len(x.data))
  BY <1>1, <1>2, LastUnitsTwice
<1> QED  BY <1>2, <1>3 DEF PartOf

(* A message that is queued is put behind both.                            *)
LEMMA EndOfAppend ==
  ASSUME NEW v \in Seq(Entry), NEW w \in Seq(Entry), NEW new \in Seq(Entry), EndOf(v, w)
  PROVE  EndOf(v \o new, w \o new)
<1> DEFINE x == v \o new
           y == w \o new
<1>1. /\ Len(v) \in Nat /\ Len(w) \in Nat /\ Len(new) \in Nat /\ Len(v) <= Len(w)
      /\ \A i \in 1..Len(v) :
           /\ PartOf(v[i], w[Len(w) - Len(v) + i])
           /\ i > 1 => v[i] = w[Len(w) - Len(v) + i]
  BY DEF EndOf
<1>2. /\ x \in Seq(Entry) /\ Len(x) = Len(v) + Len(new)
      /\ \A i \in 1..(Len(v) + Len(new)) : x[i] = IF i <= Len(v) THEN v[i] ELSE new[i - Len(v)]
  BY ConcatProperties
<1>3. /\ y \in Seq(Entry) /\ Len(y) = Len(w) + Len(new)
      /\ \A i \in 1..(Len(w) + Len(new)) : y[i] = IF i <= Len(w) THEN w[i] ELSE new[i - Len(w)]
  BY ConcatProperties
<1> HIDE DEF x, y
<1>4. Len(x) <= Len(y)
  BY <1>1, <1>2, <1>3
<1>5. ASSUME NEW i \in 1..Len(x)
      PROVE  /\ PartOf(x[i], y[Len(y) - Len(x) + i])
             /\ i > 1 => x[i] = y[Len(y) - Len(x) + i]
  <2>1. /\ Len(y) - Len(x) + i = Len(w) - Len(v) + i
        /\ Len(w) - Len(v) + i \in 1..(Len(w) + Len(new))
    BY <1>1, <1>2, <1>3
  <2>2. CASE i <= Len(v)
    <3>1. i \in 1..Len(v) /\ Len(w) - Len(v) + i <= Len(w)
      BY <1>1, <1>2, <2>2
    <3>2. x[i] = v[i] /\ y[Len(w) - Len(v) + i] = w[Len(w) - Len(v) + i]
      BY <1>2, <1>3, <2>1, <3>1
    <3> QED  BY <1>1, <2>1, <3>1, <3>2
  <2>3. CASE ~(i <= Len(v))
    <3>1. /\ i - Len(v) \in 1..Len(new) /\ ~(Len(w) - Len(v) + i <= Len(w))
          /\ (Len(w) - Len(v) + i) - Len(w) = i - Len(v)
      BY <1>1, <1>2, <2>3
    <3>2. x[i] = new[i - Len(v)] /\ y[Len(w) - Len(v) + i] = new[i - Len(v)]
      BY <1>2, <1>3, <2>1, <2>3, <3>1
    <3>3. x[i] \in Entry
      BY <3>1, <3>2
    <3> QED  BY <2>1, <3>2, <3>3, PartFacts
  <2> QED  BY <2>2, <2>3
<1>6. EndOf(x, y)
  BY <1>4, <1>5 DEF EndOf
<1> QED  BY <1>6 DEF x, y

(* What is released is at the front, and of no concern to what is left.    *)
LEMMA EndOfDrop ==
  ASSUME NEW v \in Seq(Entry), NEW d \in Seq(Entry), NEW w \in Seq(Entry),
         EndOf(v, d \o w), Len(v) <= Len(w)
  PROVE  EndOf(v, w)
<1> DEFINE y == d \o w
<1>1. /\ Len(v) \in Nat /\ Len(w) \in Nat /\ Len(d) \in Nat
      /\ Len(y) = Len(d) + Len(w)
      /\ \A i \in 1..(Len(d) + Len(w)) : y[i] = IF i <= Len(d) THEN d[i] ELSE w[i - Len(d)]
  BY ConcatProperties
<1>2. EndOf(v, y)
  OBVIOUS
<1> HIDE DEF y
<1>3. ASSUME NEW i \in 1..Len(v)
      PROVE  y[Len(y) - Len(v) + i] = w[Len(w) - Len(v) + i]
  <2>1. /\ Len(y) - Len(v) + i \in 1..(Len(d) + Len(w)) /\ ~(Len(y) - Len(v) + i <= Len(d))
        /\ (Len(y) - Len(v) + i) - Len(d) = Len(w) - Len(v) + i
    BY <1>1
  <2> QED  BY <1>1, <2>1
<1> QED  BY <1>2, <1>3 DEF EndOf

(* A write takes entries from the front, and a part of one.                *)
LEMMA EndOfPop ==
  ASSUME NEW v \in Seq(Entry), NEW w \in Seq(Entry), EndOf(v, w),
         NEW u \in Seq(Entry), NEW k \in 0..Len(v), Len(u) = Len(v) - k,
         \A i \in 1..Len(u) : PartOf(u[i], v[k + i]) /\ (i > 1 => u[i] = v[k + i])
  PROVE  EndOf(u, w)
<1>1. /\ Len(v) \in Nat /\ Len(w) \in Nat /\ Len(v) <= Len(w)
      /\ \A i \in 1..Len(v) :
           /\ PartOf(v[i], w[Len(w) - Len(v) + i])
           /\ i > 1 => v[i] = w[Len(w) - Len(v) + i]
  BY DEF EndOf
<1>2. ASSUME NEW i \in 1..Len(u)
      PROVE  /\ PartOf(u[i], w[Len(w) - Len(u) + i])
             /\ i > 1 => u[i] = w[Len(w) - Len(u) + i]
  <2>1. /\ k + i \in 1..Len(v) /\ Len(w) - Len(v) + (k + i) = Len(w) - Len(u) + i
        /\ Len(w) - Len(u) + i \in 1..Len(w) /\ (i > 1 => k + i > 1)
    BY <1>1
  <2>2. u[i] \in Entry /\ v[k + i] \in Entry /\ w[Len(w) - Len(u) + i] \in Entry
    BY <2>1, SMTT(30)
  <2>3. PartOf(v[k + i], w[Len(w) - Len(u) + i])
    BY <1>1, <2>1
  <2>4. i > 1 => u[i] = w[Len(w) - Len(u) + i]
    BY <1>1, <2>1
  <2> QED  BY <2>2, <2>3, <2>4, PartOfPart
<1>3. Len(u) <= Len(w)
  BY <1>1
<1> QED  BY <1>2, <1>3 DEF EndOf

-----------------------------------------------------------------------------
(* All that jobs were queued with.                                         *)

Lists(js) == [i \in 1..Len(js) |-> Entries(js[i].id, js[i].msg, js[i].stop_flag)]
AllOf(js) == FlattenSeq(Lists(js))
Wholes(js) == [i \in 1..Len(js) |-> Whole(js[i])]

(* ... is made of the entries of each.                                     *)
LEMMA AllOfFacts ==
  ASSUME NEW js \in Seq(Job)
  PROVE  /\ Lists(js) \in Seq(Seq(Entry)) /\ Len(Lists(js)) = Len(js)
         /\ Wholes(js) \in Seq(Nat \ {0}) /\ Wholes(js) \in Seq(Nat) /\ Len(Wholes(js)) = Len(js)
         /\ AllOf(js) \in Seq(Entry)
         /\ Len(AllOf(js)) = Through(Wholes(js))[Len(js)]
<1> DEFINE ls == Lists(js)
           ws == Wholes(js)
<1>1. ASSUME NEW i \in 1..Len(js)
      PROVE  /\ Entries(js[i].id, js[i].msg, js[i].stop_flag) \in Seq(Entry)
             /\ Len(Entries(js[i].id, js[i].msg, js[i].stop_flag)) = Whole(js[i])
             /\ Whole(js[i]) \in Nat \ {0}
  <2>1. js[i] \in Job
    OBVIOUS
  <2>2. js[i].id \in Nat /\ js[i].msg \in Msgs /\ js[i].stop_flag \in BOOLEAN
    BY <2>1 DEF Job
  <2>3. Len(Blocks[js[i].msg]) \in Nat
    BY <2>2, SendAssumptions
  <2> QED  BY <2>2, <2>3, EntriesType DEF Whole
<1>2. Len(js) \in Nat
  OBVIOUS
<1>3. ls \in Seq(Seq(Entry)) /\ Len(ls) = Len(js)
  BY <1>1, <1>2 DEF Lists
<1>4. ws \in Seq(Nat \ {0}) /\ Len(ws) = Len(js)
  BY <1>1, <1>2 DEF Wholes
<1>5. ws \in Seq(Nat)
  BY <1>4
<1>6. \A i \in 1..Len(ls) : ws[i] = Len(ls[i])
  BY <1>1, <1>3 DEF Lists, Wholes
<1> HIDE DEF ls, ws
<1>7. FlattenSeq(ls) \in Seq(Entry) /\ Len(FlattenSeq(ls)) = Through(ws)[Len(ws)]
  BY <1>3, <1>4, <1>5, <1>6, FlattenFacts
<1> QED  BY <1>3, <1>4, <1>5, <1>7 DEF ls, ws, AllOf

(* ... grows with a message that is queued.                                *)
LEMMA AllOfAppend ==
  ASSUME NEW js \in Seq(Job), NEW j \in Job
  PROVE  AllOf(Append(js, j)) = AllOf(js) \o Entries(j.id, j.msg, j.stop_flag)
<1> DEFINE new == Append(js, j)
           e == Entries(j.id, j.msg, j.stop_flag)
           ls == Lists(js)
<1>1. /\ new \in Seq(Job) /\ Len(new) = Len(js) + 1 /\ Len(js) \in Nat
      /\ new[Len(js) + 1] = j /\ \A i \in 1..Len(js) : new[i] = js[i]
  BY AppendProperties
<1>2. e \in Seq(Entry)
  BY EntriesType DEF Job
<1>3. ls \in Seq(Seq(Entry)) /\ Len(ls) = Len(js)
  BY AllOfFacts
<1>4. Lists(new) \in Seq(Seq(Entry)) /\ Len(Lists(new)) = Len(js) + 1
  BY <1>1, AllOfFacts
<1>5. ASSUME NEW i \in 1..(Len(js) + 1) PROVE Lists(new)[i] = IF i = Len(js) + 1 THEN e ELSE ls[i]
  <2>1. Lists(new)[i] = Entries(new[i].id, new[i].msg, new[i].stop_flag)
    BY <1>1 DEF Lists
  <2>2. i # Len(js) + 1 => i \in 1..Len(js) /\ ls[i] = Entries(js[i].id, js[i].msg, js[i].stop_flag)
    BY <1>1 DEF Lists
  <2> HIDE DEF ls, new
  <2> QED  BY <1>1, <2>1, <2>2
<1> HIDE DEF e, ls, new
<1>6. /\ Append(ls, e) \in Seq(Seq(Entry)) /\ Len(Append(ls, e)) = Len(js) + 1
      /\ \A i \in 1..(Len(js) + 1) : Append(ls, e)[i] = IF i = Len(js) + 1 THEN e ELSE ls[i]
  BY <1>1, <1>2, <1>3, AppendProperties
<1>7. Lists(new) = Append(ls, e)
  <2> DEFINE a == Append(ls, e)
             b == Lists(new)
  <2>1. /\ a \in Seq(Seq(Entry)) /\ b \in Seq(Seq(Entry)) /\ Len(b) = Len(a)
        /\ \A i \in 1..Len(b) : b[i] = a[i]
    BY <1>4, <1>5, <1>6
  <2> HIDE DEF a, b
  <2>2. b = a
    BY <2>1, SeqEqual
  <2> QED  BY <2>2 DEF a, b
<1>8. FlattenSeq(Append(ls, e)) = FlattenSeq(ls) \o e
  BY <1>2, <1>3, FlattenAppend
<1> QED  BY <1>7, <1>8 DEF AllOf, ls, e, new

(* ... and splits where jobs are released.                                 *)
LEMMA AllOfSplit ==
  ASSUME NEW js \in Seq(Job), NEW k \in 0..Len(js),
         NEW left \in Seq(Job), Len(left) = Len(js) - k,
         \A i \in 1..Len(left) :
           /\ left[i].id = js[k + i].id /\ left[i].msg = js[k + i].msg
           /\ left[i].stop_flag = js[k + i].stop_flag
  PROVE  LET front == SubSeq(js, 1, k)
         IN  /\ front \in Seq(Job) /\ Len(front) = k /\ \A i \in 1..k : front[i] = js[i]
             /\ AllOf(js) = AllOf(front) \o AllOf(left)
<1> DEFINE front == SubSeq(js, 1, k)
           a == Lists(front)
           b == Lists(left)
           c == Lists(js)
<1>1. /\ front \in Seq(Job) /\ Len(front) = k /\ \A i \in 1..k : front[i] = js[i]
      /\ k \in Nat /\ Len(js) \in Nat
  <2>1. \A i \in 1..k : js[i] \in Job
    OBVIOUS
  <2>2. k \in Int /\ 1 \in Int /\ (1 <= k => k - 1 + 1 = k) /\ k - 1 + 1 = k
        /\ \A i \in 1..k : 1 + i - 1 = i
    OBVIOUS
  <2> QED  BY <2>1, <2>2, SubSeqProperties
<1> HIDE DEF front
<1>2. /\ a \in Seq(Seq(Entry)) /\ b \in Seq(Seq(Entry)) /\ c \in Seq(Seq(Entry))
      /\ Len(a) = k /\ Len(b) = Len(js) - k /\ Len(c) = Len(js)
  BY <1>1, AllOfFacts
<1>3. /\ a \o b \in Seq(Seq(Entry)) /\ Len(a \o b) = Len(js)
      /\ \A i \in 1..Len(js) : (a \o b)[i] = IF i <= k THEN a[i] ELSE b[i - k]
  <2>1. k + (Len(js) - k) = Len(js)
    BY <1>1
  <2> HIDE DEF a, b
  <2> QED  BY <1>2, <2>1, ConcatProperties, SMTT(30)
<1>4. ASSUME NEW i \in 1..Len(js) PROVE c[i] = (a \o b)[i]
  <2>1. c[i] = Entries(js[i].id, js[i].msg, js[i].stop_flag)
    BY DEF Lists
  <2>2. CASE i <= k
    <3>1. i \in 1..k /\ a[i] = Entries(front[i].id, front[i].msg, front[i].stop_flag)
      BY <1>1, <2>2 DEF Lists
    <3> HIDE DEF a, b, c
    <3> QED  BY <1>1, <1>3, <2>1, <2>2, <3>1
  <2>3. CASE ~(i <= k)
    <3>1. i - k \in 1..Len(left) /\ k + (i - k) = i
      BY <1>1, <2>3
    <3>2. b[i - k] = Entries(left[i - k].id, left[i - k].msg, left[i - k].stop_flag)
      BY <3>1 DEF Lists
    <3> HIDE DEF a, b, c
    <3>3. /\ left[i - k].id = js[i].id /\ left[i - k].msg = js[i].msg
          /\ left[i - k].stop_flag = js[i].stop_flag
      BY <3>1
    <3> QED  BY <1>3, <2>1, <2>3, <3>2, <3>3
  <2> QED  BY <2>2, <2>3
<1> DEFINE ab == a \o b
<1> HIDE DEF a, b, c
<1>5. c = ab
  <2>1. ab \in Seq(Seq(Entry)) /\ Len(ab) = Len(c) /\ \A i \in 1..Len(c) : c[i] = ab[i]
    BY <1>2, <1>3, <1>4
  <2> HIDE DEF ab
  <2> QED  BY <1>2, <2>1, SeqEqual
<1>6. FlattenSeq(ab) = FlattenSeq(a) \o FlattenSeq(b)
  BY <1>2, FlattenConcat
<1>7. AllOf(js) = AllOf(front) \o AllOf(left)
  BY <1>5, <1>6 DEF AllOf, a, b, c
<1> QED  BY <1>1, <1>7 DEF front

-----------------------------------------------------------------------------
(* The steps of the sender, seen from the messages.                        *)

(* What a write leaves of the vector is its end, and whole if the write    *)
(* ends where the round does.                                              *)
LEMMA PopEntries ==
  ASSUME TypeOK, NoEmptyEntry, NEW n \in Nat,
         NEW w \in 0..Len(vec), n <= Through(Lens(vec))[w]
  PROVE  LET pop == PopIov(n)
         IN  \A i \in 1..Len(pop.vec) :
               /\ pop.n_blocks + i \in 1..Len(vec)
               /\ PartOf(pop.vec[i], vec[pop.n_blocks + i])
               /\ i > 1 \/ pop.n_blocks = w => pop.vec[i] = vec[pop.n_blocks + i]
<1> DEFINE all  == Lens(vec)
           lens == ConsumeRest(all, n)
           k    == Consumed(all, n)
           pop  == PopIov(n)
<1>1. vec \in Seq(Entry) /\ Len(vec) \in Nat
  BY DEF TypeOK
<1>2. /\ all \in Seq(Nat \ {0}) /\ Len(all) = Len(vec)
      /\ \A i \in 1..Len(vec) : all[i] = Len(vec[i].data)
  BY <1>1, LensType
<1>3. all \in Seq(Nat)
  BY <1>2
<1>4. n <= Through(all)[w]
  OBVIOUS
<1> HIDE DEF all
<1>5. k \in 0..Len(vec) /\ Through(all)[k] <= n
  BY <1>2, <1>3, ConsumedFacts
<1>6. /\ lens \in Seq(Nat \ {0}) /\ Len(lens) = Len(vec) - k
      /\ \A i \in 1..Len(lens) : lens[i] <= all[k + i]
  BY <1>2, ConsumeRestFacts
<1>7. \A i \in 1..Len(lens) : i > 1 \/ n <= Through(all)[k] => lens[i] = all[k + i]
  BY <1>2, ConsumeRestSame
<1>8. Len(vec) - Len(lens) = k
  BY <1>1, <1>5, <1>6
<1>9. /\ pop.n_blocks = k
      /\ pop.vec = [i \in 1..Len(lens) |-> [vec[k + i] EXCEPT !.data = LastUnits(@, lens[i])]]
  BY <1>8 DEF PopIov, all
<1> HIDE DEF k, lens, pop
<1>10. Len(pop.vec) = Len(lens)
  BY <1>6, <1>9
<1> SUFFICES ASSUME NEW i \in 1..Len(lens)
             PROVE  /\ k + i \in 1..Len(vec)
                    /\ PartOf(pop.vec[i], vec[k + i])
                    /\ i > 1 \/ k = w => pop.vec[i] = vec[k + i]
  BY <1>9, <1>10 DEF pop
<1>11. k + i \in 1..Len(vec)
  BY <1>1, <1>5, <1>6
<1> DEFINE x == vec[k + i]
           l == LastUnits(x.data, lens[i])
<1>12. x \in Entry /\ x.data \in Seq(Unit) /\ x = [own |-> x.own, data |-> x.data]
  <2>1. x \in Entry
    BY <1>1, <1>11
  <2> QED  BY <2>1 DEF Entry
<1>13. pop.vec[i] = [own |-> x.own, data |-> l]
  BY <1>9, <1>12
<1>14. lens[i] \in 0..Len(x.data) /\ Len(x.data) \in Nat
  <2>1. lens[i] \in Nat \ {0} /\ lens[i] <= all[k + i] /\ all[k + i] = Len(x.data)
    BY <1>2, <1>6, <1>11
  <2>2. Len(x.data) \in Nat
    BY <1>12
  <2> QED  BY <2>1, <2>2
<1>15. l \in Seq(Unit) /\ Len(l) = lens[i]
  BY <1>12, <1>14, LastUnitsFacts
<1>16. PartOf(pop.vec[i], x)
  BY <1>13, <1>14, <1>15 DEF PartOf
<1>17. ASSUME i > 1 \/ k = w PROVE pop.vec[i] = x
  <2>1. lens[i] = all[k + i] /\ all[k + i] = Len(x.data)
    BY <1>2, <1>4, <1>7, <1>11, <1>17
  <2>2. l = x.data
    BY <1>12, <2>1, LastUnitsAll
  <2> QED  BY <1>12, <1>13, <2>2
<1> QED  BY <1>11, <1>16, <1>17

(* What is left of the jobs when out more of their blocks are out: those   *)
(* behind the ones that are released, and whole but for the first; also    *)
(* that one if the last block released ends a job.                         *)
LEMMA LeftFacts ==
  ASSUME jobs \in Seq(Job), NEW out \in Nat
  PROVE  LET ns   == Counts(jobs)
             k    == Consumed(ns, out)
             left == LeftJobs(out)
         IN  /\ k \in 0..Len(jobs) /\ left \in Seq(Job) /\ Len(left) = Len(jobs) - k
             /\ Through(ns)[k] <= out /\ (k < Len(jobs) => out < Through(ns)[k + 1])
             /\ \A i \in 1..Len(left) :
                  /\ k + i \in 1..Len(jobs)
                  /\ left[i].id = jobs[k + i].id /\ left[i].msg = jobs[k + i].msg
                  /\ left[i].stop_flag = jobs[k + i].stop_flag
                  /\ left[i].n_blocks <= jobs[k + i].n_blocks
                  /\ i > 1 \/ out <= Through(ns)[k] => left[i].n_blocks = jobs[k + i].n_blocks
<1> DEFINE ns   == Counts(jobs)
           rest == ConsumeRest(ns, out)
           k    == Consumed(ns, out)
           done == Len(jobs) - Len(rest)
           left == LeftJobs(out)
<1>1. /\ ns \in Seq(Nat \ {0}) /\ ns \in Seq(Nat) /\ Len(ns) = Len(jobs) /\ Len(jobs) \in Nat
      /\ \A i \in 1..Len(jobs) : ns[i] = jobs[i].n_blocks
  BY CountsType
<1>2. left = [i \in 1..Len(rest) |-> [jobs[done + i] EXCEPT !.n_blocks = rest[i]]]
  BY DEF LeftJobs
<1> HIDE DEF ns, left
<1>3. /\ k \in 0..Len(jobs) /\ Through(ns)[k] <= out
      /\ k < Len(jobs) => out < Through(ns)[k + 1]
  BY <1>1, ConsumedFacts
<1>4. /\ rest \in Seq(Nat \ {0}) /\ Len(rest) = Len(jobs) - k
      /\ \A i \in 1..Len(rest) : rest[i] <= ns[k + i]
  BY <1>1, ConsumeRestFacts
<1>5. \A i \in 1..Len(rest) : i > 1 \/ out <= Through(ns)[k] => rest[i] = ns[k + i]
  BY <1>1, ConsumeRestSame
<1> HIDE DEF k, rest
<1>6. done = k
  BY <1>1, <1>3, <1>4
<1>7. ASSUME NEW i \in 1..Len(rest)
      PROVE  /\ k + i \in 1..Len(jobs) /\ left[i] \in Job /\ left[i].n_blocks = rest[i]
             /\ ns[k + i] = jobs[k + i].n_blocks
             /\ left[i].id = jobs[k + i].id /\ left[i].msg = jobs[k + i].msg
             /\ left[i].stop_flag = jobs[k + i].stop_flag
  <2>1. left[i] = [jobs[k + i] EXCEPT !.n_blocks = rest[i]]
    BY <1>2, <1>6
  <2>2. k + i \in 1..Len(jobs) /\ rest[i] \in Nat \ {0}
    BY <1>1, <1>3, <1>4
  <2>3. jobs[k + i] \in Job
    BY <2>2
  <2>4. ns[k + i] = jobs[k + i].n_blocks
    BY <1>1, <2>2
  <2> QED  BY <2>1, <2>2, <2>3, <2>4 DEF Job
<1>8. left \in Seq(Job) /\ Len(left) = Len(rest)
  <2>1. Len(rest) \in Nat /\ DOMAIN left = 1..Len(rest)
    BY <1>2, <1>4
  <2>2. left = [i \in 1..Len(rest) |-> left[i]]
    BY <1>2
  <2>3. \A i \in 1..Len(rest) : left[i] \in Job
    BY <1>7
  <2> QED  BY <2>1, <2>2, <2>3
<1> QED  BY <1>3, <1>4, <1>5, <1>7, <1>8 DEF ns, k, left

(* A new link has queued nothing.                                          *)
LEMMA InitHist == Init => HistInv
<1> SUFFICES ASSUME Init PROVE HistInv
  OBVIOUS
<1>1. /\ vec = <<>> /\ jobs = <<>> /\ queued = <<>> /\ stops = 0 /\ out_status = "open"
      /\ jobs \in Seq(Job) /\ Len(vec) = 0 /\ Len(jobs) = 0 /\ Len(queued) = 0
  BY DEF Init
<1>2. AllOf(jobs) \in Seq(Entry) /\ AllEntries = AllOf(jobs)
  BY <1>1, AllOfFacts DEF AllEntries, AllOf, Lists
<1>3. EndOf(vec, AllEntries)
  BY <1>1, <1>2 DEF EndOf
<1>4. StopsUpTo(Released) = {}
  BY <1>1 DEF StopsUpTo, Released
<1>5. StopsCounted
  BY <1>1, <1>4, FS_EmptySet DEF StopsCounted
<1> QED  BY <1>1, <1>3, <1>5 DEF HistInv, JobsQueued, JobsWhole, StoppedBetweenMessages

(* The entries of a message and its job are queued together, behind all    *)
(* others.                                                                 *)
LEMMA QueueHist ==
  ASSUME SendInv, HistInv, NEW m \in Msgs, NEW stop \in BOOLEAN, Queue(m, stop)
  PROVE  HistInv'
<1> DEFINE id  == Len(queued) + 1
           new == Entries(id, m, stop)
           job == NewJob(id, m, stop)
           item == [msg |-> m, stop |-> stop]
<1>1. /\ jobs \in Seq(Job) /\ vec \in Seq(Entry) /\ id \in Nat /\ Len(queued) \in Nat
      /\ queued \in Seq([msg : Msgs, stop : BOOLEAN]) /\ Len(jobs) \in Nat
  BY DEF SendInv, TypeOK
<1>2. new \in Seq(Entry) /\ Len(Blocks[m]) \in Nat
  BY <1>1, EntriesType, SendAssumptions
<1>3. /\ job \in Job /\ job.id = id /\ job.msg = m /\ job.stop_flag = stop
      /\ job.n_blocks = Whole(job)
  BY <1>1, <1>2 DEF NewJob, Job, Whole
<1>4. /\ jobs' = Append(jobs, job) /\ vec' = vec \o new /\ queued' = Append(queued, item)
      /\ stops' = stops /\ out_status' = out_status
  BY DEF Queue
<1>5. /\ JobsQueued /\ JobsWhole /\ EndOf(vec, AllEntries) /\ StopsCounted
      /\ StoppedBetweenMessages
  BY DEF HistInv
<1> HIDE DEF new, job
<1>6. /\ jobs' \in Seq(Job) /\ Len(jobs') = Len(jobs) + 1
      /\ \A i \in 1..Len(jobs) : jobs'[i] = jobs[i]
      /\ jobs'[Len(jobs) + 1] = job
  BY <1>1, <1>3, <1>4, AppendProperties
<1>7. /\ Len(queued') = id /\ \A i \in 1..Len(queued) : queued'[i] = queued[i]
      /\ queued'[id] = item
  <2>1. item \in [msg : Msgs, stop : BOOLEAN]
    OBVIOUS
  <2> QED  BY <1>1, <1>4, <2>1, AppendProperties
<1>8. Len(jobs) <= Len(queued)
  BY <1>5 DEF JobsQueued
<1>9. JobsQueued'
  <2>1. ASSUME NEW i \in 1..Len(jobs')
        PROVE  LET j == Len(queued') - Len(jobs') + i
               IN  /\ jobs'[i].id = j /\ jobs'[i].msg = queued'[j].msg
                   /\ jobs'[i].stop_flag = queued'[j].stop
    <3>1. CASE i = Len(jobs) + 1
      <4>1. Len(queued') - Len(jobs') + i = id
        BY <1>1, <1>6, <1>7, <3>1
      <4> QED  BY <1>3, <1>6, <1>7, <3>1, <4>1
    <3>2. CASE i # Len(jobs) + 1
      <4> DEFINE j == Len(queued) - Len(jobs) + i
      <4>1. i \in 1..Len(jobs) /\ Len(queued') - Len(jobs') + i = j /\ j \in 1..Len(queued)
        BY <1>1, <1>6, <1>7, <1>8, <3>2
      <4>2. /\ jobs[i].id = j /\ jobs[i].msg = queued[j].msg
            /\ jobs[i].stop_flag = queued[j].stop
        BY <1>5, <4>1 DEF JobsQueued
      <4> HIDE DEF j
      <4> QED  BY <1>6, <1>7, <4>1, <4>2
    <3> QED  BY <3>1, <3>2
  <2>2. Len(jobs') <= Len(queued')
    BY <1>1, <1>6, <1>7, <1>8
  <2> QED  BY <2>1, <2>2 DEF JobsQueued
<1>10. JobsWhole'
  <2>1. ASSUME NEW i \in 1..Len(jobs')
        PROVE  /\ jobs'[i].n_blocks <= Whole(jobs'[i])
               /\ i > 1 => jobs'[i].n_blocks = Whole(jobs'[i])
    <3>1. CASE i = Len(jobs) + 1
      <4>1. jobs'[i] = job /\ job.n_blocks \in Nat
        BY <1>3, <1>6, <3>1 DEF Job
      <4> QED  BY <1>3, <4>1
    <3>2. CASE i # Len(jobs) + 1
      <4>1. i \in 1..Len(jobs) /\ jobs'[i] = jobs[i]
        BY <1>1, <1>6, <3>2
      <4> QED  BY <1>5, <4>1 DEF JobsWhole
    <3> QED  BY <3>1, <3>2
  <2> QED  BY <2>1 DEF JobsWhole, Whole
<1>11. AllEntries \in Seq(Entry) /\ AllEntries' = AllEntries \o new
  <2>1. AllEntries = AllOf(jobs) /\ AllEntries' = AllOf(jobs')
    BY DEF AllEntries, AllOf, Lists
  <2>2. AllOf(Append(jobs, job)) = AllOf(jobs) \o Entries(job.id, job.msg, job.stop_flag)
    BY <1>1, <1>3, AllOfAppend
  <2> QED  BY <1>1, <1>3, <1>4, <2>1, <2>2, AllOfFacts DEF new
<1>12. EndOf(vec', AllEntries')
  BY <1>1, <1>2, <1>4, <1>5, <1>11, EndOfAppend
<1>13. Released' = Released /\ Released \in 0..Len(queued)
  BY <1>1, <1>6, <1>7, <1>8 DEF Released
<1>14. StopsCounted'
  <2>1. StopsUpTo(Released)' = StopsUpTo(Released)
    BY <1>1, <1>7, <1>13 DEF StopsUpTo
  <2> QED  BY <1>4, <1>5, <2>1 DEF StopsCounted
<1>15. StoppedBetweenMessages'
  <2>1. SUFFICES ASSUME out_status' = "stopped"
                 PROVE  Released' > 0 /\ queued'[Released'].stop /\ vec' = AllEntries'
    BY DEF StoppedBetweenMessages, Released
  <2>2. Released > 0 /\ queued[Released].stop /\ vec = AllEntries
    BY <1>4, <1>5, <2>1 DEF StoppedBetweenMessages, Released
  <2>3. Released \in 1..Len(queued)
    BY <1>1, <1>13, <2>2
  <2> QED  BY <1>4, <1>7, <1>11, <1>13, <2>2, <2>3
<1> QED  BY <1>9, <1>10, <1>12, <1>14, <1>15 DEF HistInv

(* The end of mtc_fd_link_send releases the jobs that are out, and with    *)
(* them at most one stop signal, which is the last of them.                *)
LEMMA ReleasedStops ==
  ASSUME SendInv, NEW out \in Nat, NEW c \in Int, c = ClipFor(jobs, out),
         clip >= 0 => c >= 0,
         NEW k, k = Consumed(Counts(jobs), out)
  PROVE  /\ c = 0 => /\ k \in 1..Len(jobs) /\ jobs[k].stop_flag
                     /\ \A i \in 1..(k - 1) : ~jobs[i].stop_flag
                     /\ out = Through(Counts(jobs))[k]
         /\ c # 0 => \A i \in 1..k : ~jobs[i].stop_flag
<1> DEFINE ns == Counts(jobs)
           t  == Through(ns)
<1>1. jobs \in Seq(Job) /\ Len(jobs) \in Nat
  BY DEF SendInv, TypeOK
<1>2. ns \in Seq(Nat \ {0}) /\ ns \in Seq(Nat) /\ Len(ns) = Len(jobs)
  BY <1>1, CountsType
<1>3. k \in 0..Len(jobs) /\ t[k] <= out /\ (k < Len(jobs) => out < t[k + 1])
  BY <1>2, ConsumedFacts
<1>4. \A i \in 0..Len(jobs) : t[i] \in Nat
  BY <1>2, ThroughFacts
<1>5. StopJobs(jobs) # {} => c >= 0
  BY ClipFacts
<1>6. CASE StopJobs(jobs) = {}
  <2>1. c = -1 /\ \A i \in 1..Len(jobs) : ~jobs[i].stop_flag
    BY <1>6 DEF ClipFor, StopJobs
  <2> QED  BY <1>1, <1>3, <2>1
<1>7. CASE StopJobs(jobs) # {}
  <2> DEFINE f == FirstStop(jobs)
  <2>1. /\ f \in 1..Len(jobs) /\ jobs[f].stop_flag
        /\ \A j \in StopJobs(jobs) : f <= j
    BY <1>1, <1>7, FirstStopFacts DEF StopJobs
  <2>2. \A j \in 1..(f - 1) : ~jobs[j].stop_flag
    BY <1>1, <2>1 DEF StopJobs
  <2>3. NextStop(jobs) = t[f]
    BY <1>1, <1>7, NextStopFacts
  <2>4. c = t[f] - out /\ t[f] \in Nat
    BY <1>4, <1>7, <2>1, <2>3 DEF ClipFor
  <2> HIDE DEF f
  <2>5. CASE c = 0
    <3>1. t[f] = out
      BY <2>4, <2>5
    <3>2. ~(f < k)
      <4>1. f < k => t[f] < t[k]
        BY <1>2, <1>3, <2>1, ThroughStrict
      <4> QED  BY <1>3, <1>4, <2>1, <3>1, <4>1
    <3>3. ~(k < f)
      <4>1. SUFFICES ASSUME k < f PROVE FALSE
        OBVIOUS
      <4>2. k < Len(jobs) /\ k + 1 \in 0..Len(ns) /\ f \in (k + 1)..Len(ns)
        BY <1>1, <1>2, <1>3, <2>1, <4>1
      <4>3. t[k + 1] <= t[f]
        BY <1>2, <4>2, ThroughMonotone
      <4>4. t[k + 1] \in Nat
        BY <1>2, <1>4, <4>2
      <4> QED  BY <1>3, <3>1, <4>2, <4>3, <4>4
    <3>4. k = f
      BY <1>3, <2>1, <3>2, <3>3
    <3> QED  BY <2>1, <2>2, <2>5, <3>1, <3>4
  <2>6. CASE c # 0
    <3>1. c > 0
      BY <1>5, <1>7, <2>6
    <3>2. out < t[f]
      BY <2>4, <3>1
    <3>3. k < f
      <4>1. SUFFICES ASSUME f <= k PROVE FALSE
        BY <1>3, <2>1
      <4>2. f \in 0..Len(ns) /\ k \in f..Len(ns)
        BY <1>2, <1>3, <2>1, <4>1
      <4>3. t[f] <= t[k] /\ t[k] \in Nat
        BY <1>2, <1>3, <1>4, <4>2, ThroughMonotone
      <4> QED  BY <1>3, <2>4, <3>2, <4>3
    <3>4. \A i \in 1..k : i \in 1..(f - 1)
      BY <1>3, <2>1, <3>3
    <3> QED  BY <2>2, <2>6, <3>4
  <2> QED  BY <2>5, <2>6
<1> QED  BY <1>6, <1>7

(* ... and leaves the end of what was queued, which is whole if it stops.  *)
LEMMA FinishHist ==
  ASSUME SendInv, HistInv, NEW v \in Seq(Entry), NEW out \in Nat, NEW c \in Int,
         EndOf(v, AllEntries), Len(v) + out = Len(vec) + blocks_out,
         c = ClipFor(jobs, out), clip >= 0 => c >= 0,
         c = 0 => \A i \in 1..Len(v) : v[i] = AllEntries[Len(AllEntries) - Len(v) + i],
         Finish(v, c, out), vec' = v, queued' = queued, out_status = "open"
  PROVE  HistInv'
<1> DEFINE ns   == Counts(jobs)
           k    == Consumed(ns, out)
           left == LeftJobs(out)
<1>1. /\ jobs \in Seq(Job) /\ Len(jobs) \in Nat /\ Len(queued) \in Nat
      /\ BlocksCounted /\ stops \in Nat /\ vec \in Seq(Entry) /\ blocks_out \in Nat
  BY DEF SendInv, TypeOK
<1>2. /\ JobsQueued /\ JobsWhole /\ StopsCounted
  BY DEF HistInv
<1>3. /\ k \in 0..Len(jobs) /\ left \in Seq(Job) /\ Len(left) = Len(jobs) - k
      /\ \A i \in 1..Len(left) :
           /\ k + i \in 1..Len(jobs)
           /\ left[i].id = jobs[k + i].id /\ left[i].msg = jobs[k + i].msg
           /\ left[i].stop_flag = jobs[k + i].stop_flag
           /\ left[i].n_blocks <= jobs[k + i].n_blocks
           /\ i > 1 \/ out <= Through(ns)[k] => left[i].n_blocks = jobs[k + i].n_blocks
  BY <1>1, LeftFacts
<1>4. /\ jobs' = left
      /\ out_status' = IF c = 0 THEN "stopped" ELSE out_status
      /\ stops' = IF c = 0 THEN stops + 1 ELSE stops
  BY DEF Finish, StopReached
<1>5. /\ c = 0 => /\ k \in 1..Len(jobs) /\ jobs[k].stop_flag
                  /\ \A i \in 1..(k - 1) : ~jobs[i].stop_flag
                  /\ out = Through(ns)[k]
      /\ c # 0 => \A i \in 1..k : ~jobs[i].stop_flag
  BY ReleasedStops
<1>6. Through(Counts(left))[Len(left)] = Len(v)
  <2>1. StopJobs(jobs) # {} => c >= 0
    BY ClipFacts
  <2>2. Len(v) \in Nat /\ (v = <<>> <=> Len(v) = 0)
    OBVIOUS
  <2>3. Through(Counts(jobs))[Len(jobs)] = Len(v) + out
    BY <1>1 DEF BlocksCounted
  <2> HIDE DEF left
  <2>4. Through(Counts(jobs'))[Len(jobs')] = Len(v)
    BY <1>1, <2>1, <2>2, <2>3, FinishFacts
  <2> QED  BY <1>4, <2>4
<1> HIDE DEF k, left
<1>7. /\ Len(jobs) <= Len(queued)
      /\ \A i \in 1..Len(jobs) :
           /\ jobs[i].id = Released + i /\ jobs[i].msg = queued[Released + i].msg
           /\ jobs[i].stop_flag = queued[Released + i].stop
  BY <1>2 DEF JobsQueued, Released
<1>8. Released' = Released + k /\ Released \in Nat /\ Released + Len(jobs) = Len(queued)
  <2>1. jobs' = left /\ queued' = queued /\ Len(left) = Len(jobs) - k /\ k \in 0..Len(jobs)
    BY <1>3, <1>4
  <2>2. Len(jobs') = Len(jobs) - k /\ Len(queued') = Len(queued) /\ k \in Nat
    BY <1>1, <2>1
  <2>3. Len(queued) - (Len(jobs) - k) = (Len(queued) - Len(jobs)) + k
    BY <1>1, <2>2
  <2>4. Len(queued) - Len(jobs) \in Nat /\ (Len(queued) - Len(jobs)) + Len(jobs) = Len(queued)
    BY <1>1, <1>7
  <2> QED  BY <2>2, <2>3, <2>4 DEF Released
<1>9. JobsQueued'
  <2>1. Len(jobs') <= Len(queued')
    BY <1>1, <1>3, <1>4, <1>7
  <2>2. ASSUME NEW i \in 1..Len(jobs')
        PROVE  LET j == Len(queued') - Len(jobs') + i
               IN  /\ jobs'[i].id = j /\ jobs'[i].msg = queued'[j].msg
                   /\ jobs'[i].stop_flag = queued'[j].stop
    <3>1. Len(queued') - Len(jobs') + i = Released + (k + i) /\ k + i \in 1..Len(jobs)
      <4>1. jobs' = left /\ i \in 1..Len(left) /\ k \in Nat /\ i \in Nat
        BY <1>1, <1>3, <1>4
      <4>2. k + i \in 1..Len(jobs)
        BY <1>3, <4>1
      <4>3. (Released + k) + i = Released + (k + i)
        BY <1>8, <4>1
      <4>4. Len(queued') - Len(jobs') = Released'
        BY DEF Released
      <4> QED  BY <1>8, <4>2, <4>3, <4>4
    <3> QED  BY <1>3, <1>4, <1>7, <3>1
  <2> QED  BY <2>1, <2>2 DEF JobsQueued
<1>10. /\ \A i \in 1..Len(left) :
            /\ left[i].n_blocks <= Whole(left[i])
            /\ i > 1 \/ c = 0 => left[i].n_blocks = Whole(left[i])
       /\ JobsWhole'
  <2>1. ASSUME NEW i \in 1..Len(left)
        PROVE  /\ left[i].n_blocks <= Whole(left[i])
               /\ i > 1 \/ c = 0 => left[i].n_blocks = Whole(left[i])
    <3>1. k + i \in 1..Len(jobs) /\ Whole(left[i]) = Whole(jobs[k + i])
      BY <1>3 DEF Whole
    <3>2. left[i].n_blocks \in Nat /\ jobs[k + i].n_blocks \in Nat /\ Whole(jobs[k + i]) \in Nat
      <4>0. \A q \in Seq(Job) : \A j \in 1..Len(q) : q[j] \in Job
        OBVIOUS
      <4>1. left[i] \in Job /\ jobs[k + i] \in Job
        BY <1>1, <1>3, <3>1, <4>0
      <4>2. jobs[k + i].msg \in Msgs
        BY <4>1 DEF Job
      <4>3. \A q \in Job : q.n_blocks \in Nat
        BY DEF Job
      <4>4. Len(Blocks[jobs[k + i].msg]) \in Nat
        BY <4>2, SendAssumptions
      <4> QED  BY <4>1, <4>3, <4>4, SMTT(30) DEF Whole
    <3>3. /\ jobs[k + i].n_blocks <= Whole(jobs[k + i])
          /\ k + i > 1 => jobs[k + i].n_blocks = Whole(jobs[k + i])
      BY <1>2, <3>1 DEF JobsWhole
    <3>4. left[i].n_blocks <= jobs[k + i].n_blocks
      BY <1>3
    <3>5. ASSUME i > 1 \/ c = 0 PROVE left[i].n_blocks = Whole(left[i])
      <4>1. k + i > 1
        BY <1>3, <1>5, <3>5
      <4>2. left[i].n_blocks = jobs[k + i].n_blocks
        <5>1. c = 0 => out <= Through(ns)[k]
          BY <1>5
        <5> QED  BY <1>3, <3>5, <5>1
      <4> QED  BY <3>1, <3>3, <4>1, <4>2
    <3> QED  BY <3>1, <3>2, <3>3, <3>4, <3>5
  <2> QED  BY <1>4, <2>1 DEF JobsWhole, Whole
<1> DEFINE all  == AllOf(jobs)
           rest == AllOf(left)
<1>11. all = AllEntries /\ rest = AllEntries' /\ all \in Seq(Entry) /\ rest \in Seq(Entry)
  BY <1>1, <1>3, <1>4, AllOfFacts DEF AllEntries, AllOf, Lists
<1>12. PICK d \in Seq(Entry) : all = d \o rest
  <2> DEFINE front == SubSeq(jobs, 1, k)
  <2>1. front \in Seq(Job) /\ all = AllOf(front) \o rest
    BY <1>1, <1>3, AllOfSplit, ZenonT(30)
  <2> HIDE DEF front
  <2>2. AllOf(front) \in Seq(Entry)
    BY <2>1, AllOfFacts
  <2> QED  BY <2>1, <2>2
<1>13. Len(v) <= Len(rest) /\ (c = 0 => Len(v) = Len(rest))
  <2>1. /\ Counts(left) \in Seq(Nat) /\ Len(Counts(left)) = Len(left)
        /\ \A i \in 1..Len(left) : Counts(left)[i] = left[i].n_blocks
    BY <1>3, CountsType
  <2>2. /\ Wholes(left) \in Seq(Nat) /\ Len(Wholes(left)) = Len(left)
        /\ Len(rest) = Through(Wholes(left))[Len(left)]
        /\ \A i \in 1..Len(left) : Wholes(left)[i] = Whole(left[i])
    BY <1>3, AllOfFacts DEF Wholes
  <2> DEFINE a == Counts(left)
             b == Wholes(left)
  <2>3. \A i \in 1..Len(a) : a[i] <= b[i]
    BY <1>10, <2>1, <2>2
  <2>4. c = 0 => \A i \in 1..Len(a) : a[i] = b[i]
    BY <1>10, <2>1, <2>2
  <2>5. a \in Seq(Nat) /\ b \in Seq(Nat) /\ Len(b) = Len(a) /\ Len(a) = Len(left)
    BY <2>1, <2>2
  <2>6. Len(v) = Through(a)[Len(a)] /\ Len(rest) = Through(b)[Len(a)]
    BY <1>6, <2>1, <2>2
  <2> HIDE DEF a, b
  <2>7. Through(a)[Len(a)] <= Through(b)[Len(a)]
    BY <2>3, <2>5, ThroughLess
  <2>8. c = 0 => a = b
    BY <2>4, <2>5, SeqEqual
  <2> QED  BY <2>6, <2>7, <2>8
<1>14. EndOf(v, rest)
  <2>1. EndOf(v, d \o rest)
    BY <1>11, <1>12
  <2> HIDE DEF all, rest
  <2> QED  BY <1>11, <1>13, <2>1, EndOfDrop
<1>15. StopsCounted'
  <2>1. stops = Cardinality(StopsUpTo(Released))
    BY <1>2 DEF StopsCounted
  <2>2. StopsUpTo(Released)' = {i \in 1..(Released + k) : queued[i].stop}
    BY <1>8 DEF StopsUpTo
  <2>3. \A i \in 1..(Released + k) :
          i \in 1..Released \/ \E j \in 1..k : i = Released + j /\ j \in 1..Len(jobs)
    <3> TAKE i \in 1..(Released + k)
    <3>1. i \notin 1..Released => i - Released \in 1..k /\ i = Released + (i - Released)
      BY <1>3, <1>8
    <3>2. 1..k \subseteq 1..Len(jobs)
      BY <1>1, <1>3
    <3> QED  BY <3>1, <3>2
  <2>4. CASE c # 0
    <3>1. StopsUpTo(Released)' = StopsUpTo(Released)
      <4>1. \A i \in 1..(Released + k) : queued[i].stop => i \in 1..Released
        BY <1>5, <1>7, <2>3, <2>4
      <4>2. 1..Released \subseteq 1..(Released + k)
        BY <1>3, <1>8, SMTT(30)
      <4> QED  BY <2>2, <4>1, <4>2 DEF StopsUpTo
    <3> QED  BY <1>4, <2>1, <2>4, <3>1 DEF StopsCounted
  <2>5. CASE c = 0
    <3>1. k \in 1..Len(jobs) /\ queued[Released + k].stop
      BY <1>5, <1>7, <2>5
    <3>2. StopsUpTo(Released)' = StopsUpTo(Released) \cup {Released + k}
      <4>1. \A i \in 1..(Released + k) : queued[i].stop => i \in 1..Released \/ i = Released + k
        <5> TAKE i \in 1..(Released + k)
        <5> HAVE queued[i].stop
        <5>1. CASE i \notin 1..Released
          <6>1. PICK j \in 1..k : i = Released + j /\ j \in 1..Len(jobs)
            BY <2>3, <5>1
          <6>2. jobs[j].stop_flag
            BY <1>7, <6>1
          <6>3. j = k
            BY <1>5, <2>5, <3>1, <6>2
          <6> QED  BY <6>1, <6>3
        <5> QED  BY <5>1
      <4>2. 1..Released \subseteq 1..(Released + k) /\ Released + k \in 1..(Released + k)
        BY <1>8, <3>1
      <4> QED  BY <2>2, <3>1, <4>1, <4>2 DEF StopsUpTo
    <3>3. Released + k \notin StopsUpTo(Released) /\ IsFiniteSet(StopsUpTo(Released))
      <4>1. Released + k \notin 1..Released
        BY <1>8, <3>1
      <4>2. IsFiniteSet(1..Released) /\ StopsUpTo(Released) \subseteq 1..Released
        BY <1>8, FS_Interval DEF StopsUpTo
      <4>3. IsFiniteSet(StopsUpTo(Released))
        BY <4>2, FS_Subset
      <4> QED  BY <4>1, <4>2, <4>3
    <3>4. Cardinality(StopsUpTo(Released) \cup {Released + k}) = Cardinality(StopsUpTo(Released)) + 1
      BY <3>3, FS_AddElement
    <3> QED  BY <1>4, <2>1, <2>5, <3>2, <3>4 DEF StopsCounted
  <2> QED  BY <2>4, <2>5
<1>16. StoppedBetweenMessages'
  <2>1. SUFFICES ASSUME out_status' = "stopped"
                 PROVE  Released' > 0 /\ queued'[Released'].stop /\ vec' = AllEntries'
    BY DEF StoppedBetweenMessages, Released
  <2>2. c = 0
    BY <1>4, <2>1
  <2>3. Released' > 0 /\ queued'[Released'].stop
    BY <1>5, <1>7, <1>8, <2>2, SMTT(30)
  <2>4. Len(v) = Len(rest) /\ \A i \in 1..Len(v) : v[i] = all[Len(all) - Len(v) + i]
    BY <1>11, <1>13, <2>2
  <2> HIDE DEF all, rest
  <2>5. \A i \in 1..Len(v) : v[i] = rest[i]
    <3>1. /\ Len(all) = Len(d) + Len(rest) /\ Len(d) \in Nat
          /\ \A i \in 1..(Len(d) + Len(rest)) : all[i] = IF i <= Len(d) THEN d[i] ELSE rest[i - Len(d)]
      BY <1>11, <1>12, ConcatProperties
    <3>2. ASSUME NEW i \in 1..Len(v) PROVE v[i] = rest[i]
      <4>1. /\ Len(all) - Len(v) + i = Len(d) + i /\ Len(d) + i \in 1..(Len(d) + Len(rest))
            /\ ~(Len(d) + i <= Len(d)) /\ (Len(d) + i) - Len(d) = i
        BY <2>4, <3>1
      <4> QED  BY <2>4, <3>1, <4>1
    <3> QED  BY <3>2
  <2>6. v = rest
    BY <1>11, <2>4, <2>5, SeqEqual
  <2> QED  BY <1>11, <2>3, <2>6
<1> QED  BY <1>9, <1>10, <1>11, <1>14, <1>15, <1>16 DEF HistInv

(* A round of the loop: what it takes from the vector, and where that      *)
(* leaves the clip.                                                        *)
LEMMA WriteFacts ==
  ASSUME SendInv, HistInv, SendWrites
  PROVE  \E v \in Seq(Entry), k \in Nat, c \in Int :
           /\ vec' = v /\ queued' = queued /\ out_status = "open"
           /\ EndOf(v, AllEntries)
           /\ Len(v) + (blocks_out + k) = Len(vec) + blocks_out
           /\ c = ClipFor(jobs, blocks_out + k) /\ (clip >= 0 => c >= 0)
           /\ c = 0 => \A i \in 1..Len(v) : v[i] = AllEntries[Len(AllEntries) - Len(v) + i]
           /\ IF repeat
              THEN jobs' = jobs /\ out_status' = out_status /\ stops' = stops
              ELSE Finish(v, c, blocks_out + k)
<1>1. TypeOK /\ NoEmptyEntry /\ ClipAtFirstStop
  BY DEF SendInv
<1>2. PICK n \in 0..(SockCap - Len(sock.buf)) :
        /\ n <= Through(Lens(vec))[n_blocks_out]
        /\ vec' = PopIov(n).vec
        /\ IF repeat
           THEN jobs' = jobs /\ out_status' = out_status /\ stops' = stops
           ELSE Finish(PopIov(n).vec, PopIov(n).clip, blocks_out + PopIov(n).n_blocks)
  BY DEF SendWrites
<1>3. queued' = queued /\ out_status = "open"
  BY DEF SendWrites
<1> DEFINE k == PopIov(n).n_blocks
           v == PopIov(n).vec
           c == PopIov(n).clip
           w == n_blocks_out
<1>4. /\ w \in 0..Len(vec)
      /\ clip >= 0 => w <= clip
  BY RoundFacts
<1>5. n \in Nat
  OBVIOUS
<1>6. /\ k \in 0..w /\ v \in Seq(Entry)
      /\ Len(v) = Len(vec) - k
      /\ c = IF clip >= 0 THEN clip - k ELSE clip
  BY <1>1, <1>2, <1>4, <1>5, PopFacts
<1>7. \A i \in 1..Len(v) :
        /\ k + i \in 1..Len(vec)
        /\ PartOf(v[i], vec[k + i])
        /\ i > 1 \/ k = w => v[i] = vec[k + i]
  BY <1>1, <1>2, <1>4, <1>5, PopEntries
<1> HIDE DEF k, v, c, w
<1>8. /\ Len(vec) \in Nat /\ vec \in Seq(Entry) /\ blocks_out \in Nat /\ clip \in Int
      /\ jobs \in Seq(Job) /\ k \in Nat /\ w \in Nat
  BY <1>1, <1>4, <1>6 DEF TypeOK
<1>9. c \in Int /\ Len(v) + (blocks_out + k) = Len(vec) + blocks_out /\ k \in 0..Len(vec)
  BY <1>4, <1>6, <1>8
<1>10. c = ClipFor(jobs, blocks_out + k) /\ (clip >= 0 => c >= 0)
  <2>1. /\ clip = ClipFor(jobs, blocks_out)
        /\ clip >= 0 <=> StopJobs(jobs) # {}
    BY ClipFacts
  <2>2. StopJobs(jobs) # {} => NextStop(jobs) \in Nat
    BY <1>8, NextStopFacts
  <2>3. c = ClipFor(jobs, blocks_out + k)
    BY <1>6, <1>8, <2>1, <2>2 DEF ClipFor
  <2>4. ASSUME clip >= 0 PROVE c >= 0
    <3>1. c = clip - k /\ k <= w /\ w <= clip
      BY <1>4, <1>6, <2>4 DEF w
    <3> QED  BY <1>8, <3>1
  <2> QED  BY <2>3, <2>4
<1>11. AllEntries \in Seq(Entry)
  BY <1>8, AllOfFacts DEF AllEntries, AllOf, Lists
<1>12. EndOf(vec, AllEntries)
  BY DEF HistInv
<1> DEFINE all == AllEntries
<1> HIDE DEF all
<1>13. EndOf(v, all)
  BY <1>6, <1>7, <1>8, <1>9, <1>11, <1>12, EndOfPop DEF all
<1>14. ASSUME c = 0, NEW i \in 1..Len(v)
       PROVE  v[i] = all[Len(all) - Len(v) + i]
  <2>1. clip >= 0 /\ k = clip /\ clip > 0
    <3>1. clip = -1 \/ clip > 0
      BY <1>1 DEF ClipAtFirstStop
    <3> QED  BY <1>6, <1>8, <1>14, <3>1
  <2>2. k = w
    BY <1>4, <1>6, <1>8, <2>1 DEF w
  <2>3. v[i] = vec[k + i] /\ k + i \in 1..Len(vec) /\ k + i > 1
    BY <1>7, <1>8, <2>1, <2>2
  <2>4. vec[k + i] = all[Len(all) - Len(vec) + (k + i)]
    BY <1>12, <2>3 DEF EndOf, all
  <2>5. Len(all) - Len(vec) + (k + i) = Len(all) - Len(v) + i
    <3>1. Len(all) \in Nat
      BY <1>11 DEF all
    <3> QED  BY <1>6, <1>8, <3>1
  <2> QED  BY <2>3, <2>4, <2>5
<1>15. /\ vec' = v
       /\ IF repeat
          THEN jobs' = jobs /\ out_status' = out_status /\ stops' = stops
          ELSE Finish(v, c, blocks_out + k)
  BY <1>2 DEF k, v, c
<1> QED  BY <1>3, <1>6, <1>8, <1>9, <1>10, <1>13, <1>14, <1>15 DEF all

(* A round that writes keeps what the vector has to do with the messages,  *)
(* and so does the end of the loop that follows the last one.              *)
LEMMA SendWritesHist ==
  ASSUME SendInv, HistInv, SendWrites
  PROVE  HistInv'
<1>1. PICK v \in Seq(Entry), k \in Nat, c \in Int :
        /\ vec' = v /\ queued' = queued /\ out_status = "open"
        /\ EndOf(v, AllEntries)
        /\ Len(v) + (blocks_out + k) = Len(vec) + blocks_out
        /\ c = ClipFor(jobs, blocks_out + k) /\ (clip >= 0 => c >= 0)
        /\ c = 0 => \A i \in 1..Len(v) : v[i] = AllEntries[Len(AllEntries) - Len(v) + i]
        /\ IF repeat
           THEN jobs' = jobs /\ out_status' = out_status /\ stops' = stops
           ELSE Finish(v, c, blocks_out + k)
  BY WriteFacts
<1>2. blocks_out + k \in Nat
  BY DEF SendInv, TypeOK
<1>3. CASE ~repeat
  <2> DEFINE out == blocks_out + k
  <2>1. /\ out \in Nat /\ EndOf(v, AllEntries) /\ Len(v) + out = Len(vec) + blocks_out
        /\ c = ClipFor(jobs, out) /\ (clip >= 0 => c >= 0)
        /\ c = 0 => \A i \in 1..Len(v) : v[i] = AllEntries[Len(AllEntries) - Len(v) + i]
        /\ Finish(v, c, out) /\ vec' = v /\ queued' = queued /\ out_status = "open"
    BY <1>1, <1>2, <1>3
  <2> HIDE DEF out
  <2> QED  BY <2>1, FinishHist
<1>4. CASE repeat
  <2>1. /\ vec' = v /\ queued' = queued /\ jobs' = jobs /\ stops' = stops
        /\ out_status' = "open" /\ EndOf(v, AllEntries)
    BY <1>1, <1>4
  <2>2. AllEntries' = AllEntries
    BY <2>1 DEF AllEntries
  <2>3. JobsQueued' /\ JobsWhole' /\ StopsCounted'
    BY <2>1 DEF HistInv, JobsQueued, JobsWhole, Whole, StopsCounted, StopsUpTo, Released
  <2>4. StoppedBetweenMessages'
    BY <2>1 DEF StoppedBetweenMessages
  <2> QED  BY <2>1, <2>2, <2>3, <2>4 DEF HistInv
<1> QED  BY <1>3, <1>4

(* A send whose later round fails ends between two stop signals.           *)
LEMMA SendGivesUpHist ==
  ASSUME SendInv, HistInv, SendGivesUp
  PROVE  HistInv'
<1>1. /\ vec \in Seq(Entry) /\ blocks_out \in Nat /\ clip \in Int
      /\ clip = -1 \/ clip > 0
  BY DEF SendInv, TypeOK, ClipAtFirstStop
<1>2. /\ Finish(vec, clip, blocks_out) /\ vec' = vec /\ queued' = queued
      /\ out_status = "open"
  BY DEF SendGivesUp
<1>3. clip = ClipFor(jobs, blocks_out) /\ clip # 0
  BY <1>1, ClipFacts
<1>4. EndOf(vec, AllEntries)
  BY DEF HistInv
<1> QED  BY <1>1, <1>2, <1>3, <1>4, FinishHist

(* What leaves the jobs and the vector alone, and stops nothing, disturbs   *)
(* nothing of this.                                                        *)
LEMMA QuietHist ==
  ASSUME HistInv, UNCHANGED <<vec, jobs, queued, stops>>,
         out_status' = "stopped" => out_status = "stopped"
  PROVE  HistInv'
<1>1. AllEntries' = AllEntries
  BY DEF AllEntries
<1>2. JobsQueued' /\ JobsWhole' /\ StopsCounted'
  BY DEF HistInv, JobsQueued, JobsWhole, Whole, StopsCounted, StopsUpTo, Released
<1>3. StoppedBetweenMessages'
  BY <1>1 DEF HistInv, StoppedBetweenMessages
<1>4. EndOf(vec', AllEntries')
  BY <1>1 DEF HistInv
<1> QED  BY <1>2, <1>3, <1>4 DEF HistInv

(* No other step touches the jobs or the vector, and none stops the link.  *)
LEMMA OtherHist ==
  ASSUME HistInv, SendFails \/ Finalize \/ ResumeOut \/ PeerReads \/ PeerHangsUp
                    \/ UNCHANGED vars
  PROVE  HistInv'
<1>1. /\ UNCHANGED <<vec, jobs, queued, stops>>
      /\ out_status' = "stopped" => out_status = "stopped"
  BY DEF SendFails, Finalize, ResumeOut, PeerReads, PeerHangsUp, iov, sendVars, vars
<1> QED  BY <1>1, QuietHist

(* Every step keeps what the vector has to do with the messages.           *)
LEMMA StepHist == SendInv /\ HistInv /\ [Next]_vars => HistInv'
<1> SUFFICES ASSUME SendInv, HistInv, [Next]_vars PROVE HistInv'
  OBVIOUS
<1>1. CASE \E m \in Msgs, stop \in BOOLEAN : Queue(m, stop)
  BY <1>1, QueueHist
<1>2. CASE SendWrites
  BY <1>2, SendWritesHist
<1>3. CASE SendGivesUp
  BY <1>3, SendGivesUpHist
<1>4. CASE SendFails \/ Finalize \/ ResumeOut \/ PeerReads \/ PeerHangsUp \/ UNCHANGED vars
  BY <1>4, OtherHist
<1> QED  BY <1>1, <1>2, <1>3, <1>4 DEF Next, Send

(* In every reachable state the jobs are the last messages queued, only    *)
(* the first of them begun, the vector is the end of their entries, and    *)
(* the stop signals reported are those of the messages released.           *)
THEOREM HistInvariant == Spec => []HistInv
<1>1. Spec => []SendInv
  BY SendInvariant
<1>2. Init => HistInv
  BY InitHist
<1>3. SendInv /\ HistInv /\ [Next]_vars => HistInv'
  BY StepHist
<1> QED  BY <1>1, <1>2, <1>3, PTL DEF Spec

-----------------------------------------------------------------------------
(* What follows for the properties of the runs.                            *)

(* The vector is the tail of what the live jobs were queued with, only its *)
(* first entry begun and none empty: no entry outlives its job.            *)
THEOREM VectorIsBacked == Spec => []VecBacked
<1>1. ASSUME SendInv, HistInv PROVE VecBacked
  <2>1. EndOf(vec, AllEntries) /\ NoEmptyEntry
    BY <1>1 DEF SendInv, HistInv
  <2>2. vec \in Seq(Entry) /\ jobs \in Seq(Job)
    BY <1>1 DEF SendInv, TypeOK
  <2> DEFINE all  == AllEntries
             gone == Len(all) - Len(vec)
  <2>3. all \in Seq(Entry)
    BY <2>2, AllOfFacts DEF AllEntries, AllOf, Lists
  <2> HIDE DEF all
  <2>4. gone >= 0 /\ gone \in Nat /\ Len(vec) \in Nat /\ Len(all) \in Nat
    BY <2>1, <2>2, <2>3 DEF EndOf, all
  <2>5. ASSUME NEW i \in 1..Len(vec)
        PROVE  /\ vec[i].own = all[gone + i].own
               /\ vec[i].data = LastUnits(all[gone + i].data, Len(vec[i].data))
               /\ i > 1 => vec[i].data = all[gone + i].data
    BY <2>1, <2>5 DEF EndOf, PartOf, all
  <2> QED  BY <2>1, <2>4, <2>5 DEF VecBacked, all
<1> QED  BY <1>1, SendInvariant, HistInvariant, PTL

(* A stopped link stands exactly between two messages.                     *)
THEOREM StopsBetweenMessages == Spec => []StoppedBetweenMessages
<1>1. HistInv => StoppedBetweenMessages
  BY DEF HistInv
<1> QED  BY <1>1, HistInvariant, PTL

(* The stop signals that are not reported are those of the live jobs.      *)
LEMMA StopsLeft ==
  ASSUME SendInv, HistInv
  PROVE  StopReportedOnce
<1>1. jobs \in Seq(Job) /\ Len(jobs) \in Nat /\ Len(queued) \in Nat
  BY DEF SendInv, TypeOK
<1>2. /\ Len(jobs) <= Len(queued)
      /\ \A i \in 1..Len(jobs) : jobs[i].stop_flag = queued[Released + i].stop
  BY DEF HistInv, JobsQueued, Released
<1>3. Released \in Nat /\ Released + Len(jobs) = Len(queued)
  BY <1>1, <1>2 DEF Released
<1> DEFINE old == StopsUpTo(Released)
           new == {i \in 1..Len(queued) : i > Released /\ queued[i].stop}
           all == {i \in 1..Len(queued) : queued[i].stop}
           sj  == StopJobs(jobs)
<1>4. all = old \cup new /\ old \cap new = {}
  <2>1. /\ 1..Released \subseteq 1..Len(queued)
        /\ \A i \in 1..Len(queued) : i > Released \/ i \in 1..Released
        /\ \A i \in 1..Released : ~(i > Released)
    BY <1>1, <1>3
  <2> QED  BY <2>1 DEF StopsUpTo
<1>5. IsFiniteSet(old) /\ IsFiniteSet(new) /\ IsFiniteSet(sj)
  <2>1. IsFiniteSet(1..Released) /\ IsFiniteSet(1..Len(queued)) /\ IsFiniteSet(1..Len(jobs))
    BY <1>1, <1>3, FS_Interval
  <2>2. old \subseteq 1..Released /\ new \subseteq 1..Len(queued) /\ sj \subseteq 1..Len(jobs)
    BY DEF StopsUpTo, StopJobs
  <2> QED  BY <2>1, <2>2, FS_Subset
<1>6. Cardinality(new) = Cardinality(sj)
  <2> DEFINE f == [s \in sj |-> Released + s]
  <2>1. \A s \in sj : s \in 1..Len(jobs) /\ jobs[s].stop_flag
    BY DEF StopJobs
  <2>2. ASSUME NEW s \in sj PROVE Released + s \in new
    <3>1. Released + s \in 1..Len(queued) /\ Released + s > Released
      BY <1>1, <1>3, <2>1
    <3> QED  BY <1>2, <2>1, <3>1
  <2>3. ASSUME NEW i \in new PROVE i - Released \in sj /\ Released + (i - Released) = i
    <3>1. i - Released \in 1..Len(jobs) /\ Released + (i - Released) = i
      BY <1>1, <1>3
    <3> QED  BY <1>2, <3>1 DEF StopJobs
  <2>4. \A s, r \in sj : Released + s = Released + r => s = r
    BY <1>1, <1>3, <2>1
  <2> HIDE DEF new, sj
  <2>5. f \in Bijection(sj, new)
    <3>1. f \in [sj -> new] /\ \A s \in sj : f[s] = Released + s
      BY <2>2
    <3>2. \A s, r \in sj : s # r => f[s] # f[r]
      BY <2>4, <3>1
    <3>3. \A i \in new : \E s \in sj : f[s] = i
      BY <2>3, <3>1
    <3> HIDE DEF f
    <3> QED  BY <3>1, <3>2, <3>3 DEF Bijection, Injection, Surjection, IsInjective
  <2>6. ExistsBijection(sj, new)
    BY <2>5 DEF ExistsBijection
  <2> QED  BY <1>5, <2>6, FS_Bijection
<1>7. stops = Cardinality(old)
  BY DEF HistInv, StopsCounted
<1>8. Cardinality(old \cup new) = Cardinality(old) + Cardinality(new)
  <2> HIDE DEF old, new
  <2>1. Cardinality(old \cup new)
          = Cardinality(old) + Cardinality(new) - Cardinality(old \cap new)
    BY <1>5, FS_Union
  <2>2. Cardinality(old \cap new) = 0
    BY <1>4, FS_EmptySet
  <2>3. Cardinality(old) \in Nat /\ Cardinality(new) \in Nat
    BY <1>5, FS_CardinalityType
  <2> QED  BY <2>1, <2>2, <2>3
<1>9. stops + Cardinality(sj) = Cardinality(all)
  <2> HIDE DEF old, new, all, sj
  <2> QED  BY <1>4, <1>6, <1>7, <1>8
<1> QED  BY <1>9 DEF StopReportedOnce

(* Every stop signal is reported once, when its message is out.            *)
THEOREM StopsReportedOnce == Spec => []StopReportedOnce
<1>1. SendInv /\ HistInv => StopReportedOnce
  BY StopsLeft
<1> QED  BY <1>1, SendInvariant, HistInvariant, PTL

-----------------------------------------------------------------------------
(* The barrier of a stop signal.                                           *)

(* Sums of numbers that differ in the first only differ by as much.        *)
LEMMA ThroughTail ==
  ASSUME NEW a \in Seq(Nat), NEW b \in Seq(Nat), Len(b) = Len(a),
         \A i \in 2..Len(a) : b[i] = a[i]
  PROVE  \A i \in 1..Len(a) : Through(b)[i] - Through(a)[i] = b[1] - a[1]
<1> DEFINE t == Through(a)
           u == Through(b)
           T == {n \in Nat : n + 1 \in 1..Len(a) => u[n + 1] - t[n + 1] = b[1] - a[1]}
<1>1. /\ t[0] = 0 /\ u[0] = 0
      /\ \A i \in 1..Len(a) : t[i] = t[i - 1] + a[i] /\ u[i] = u[i - 1] + b[i]
      /\ \A i \in 0..Len(a) : t[i] \in Nat /\ u[i] \in Nat
      /\ \A i \in 1..Len(a) : a[i] \in Nat /\ b[i] \in Nat
  BY ThroughFacts
<1> HIDE DEF t, u
<1>2. 0 \in T
  <2>1. SUFFICES ASSUME 1 \in 1..Len(a) PROVE u[1] - t[1] = b[1] - a[1]
    OBVIOUS
  <2>2. t[1] = t[0] + a[1] /\ u[1] = u[0] + b[1] /\ a[1] \in Nat /\ b[1] \in Nat
    <3>1. 1 - 1 = 0
      OBVIOUS
    <3> QED  BY <1>1, <2>1, <3>1
  <2> QED  BY <1>1, <2>2
<1>3. ASSUME NEW n \in Nat, n \in T PROVE n + 1 \in T
  <2> DEFINE m == n + 2
  <2>1. SUFFICES ASSUME m \in 1..Len(a) PROVE u[m] - t[m] = b[1] - a[1]
    OBVIOUS
  <2>2. /\ n + 1 \in 1..Len(a) /\ m - 1 = n + 1 /\ m \in 2..Len(a)
        /\ n + 1 \in 0..Len(a) /\ m \in 0..Len(a)
    BY <2>1
  <2>3. u[n + 1] - t[n + 1] = b[1] - a[1]
    BY <1>3, <2>2
  <2> HIDE DEF m
  <2>4. t[m] = t[n + 1] + a[m] /\ u[m] = u[n + 1] + a[m] /\ a[m] \in Nat
    BY <1>1, <2>1, <2>2
  <2>5. t[n + 1] \in Nat /\ u[n + 1] \in Nat
    BY <1>1, <2>2
  <2> QED  BY <2>3, <2>4, <2>5
<1>4. \A n \in Nat : n \in T
  <2> HIDE DEF T
  <2> QED  BY <1>2, <1>3, SetInduction
<1>5. ASSUME NEW i \in 1..Len(a) PROVE u[i] - t[i] = b[1] - a[1]
  <2>1. i - 1 \in Nat /\ (i - 1) + 1 = i
    OBVIOUS
  <2>2. i - 1 \in T
    BY <1>4, <2>1
  <2> QED  BY <2>1, <2>2
<1> QED  BY <1>5 DEF t, u

(* The entries of jobs belong to those jobs.                               *)
LEMMA OwnersAmong ==
  ASSUME NEW js \in Seq(Job)
  PROVE  \A i \in 1..Len(AllOf(js)) :
           \E j \in 1..Len(js) : AllOf(js)[i].own = js[j].id
<1> DEFINE S  == {e \in Entry : \E j \in 1..Len(js) : e.own = js[j].id}
           ls == Lists(js)
           ws == Wholes(js)
<1>1. ASSUME NEW i \in 1..Len(js)
      PROVE  /\ Entries(js[i].id, js[i].msg, js[i].stop_flag) \in Seq(S)
             /\ Len(Entries(js[i].id, js[i].msg, js[i].stop_flag)) = Whole(js[i])
  <2> DEFINE e == Entries(js[i].id, js[i].msg, js[i].stop_flag)
  <2>1. js[i].id \in Nat /\ js[i].msg \in Msgs /\ js[i].stop_flag \in BOOLEAN
    <3>1. js[i] \in Job
      OBVIOUS
    <3> QED  BY <3>1 DEF Job
  <2>2. Len(Blocks[js[i].msg]) \in Nat
    BY <2>1, SendAssumptions
  <2>3. e \in Seq(Entry) /\ Len(e) = Len(Blocks[js[i].msg]) + 1
    BY <2>1, EntriesType
  <2>4. \A n \in 1..Len(e) : e[n].own = js[i].id
    BY <2>2, <2>3 DEF Entries
  <2> HIDE DEF e
  <2>5. \A n \in 1..Len(e) : e[n] \in S
    BY <2>3, <2>4
  <2> HIDE DEF S
  <2>6. e \in Seq(S)
    BY <2>3, <2>5
  <2> QED  BY <2>3, <2>6 DEF e, Whole
<1> HIDE DEF S
<1>2. Len(js) \in Nat
  OBVIOUS
<1>3. ls \in Seq(Seq(S)) /\ Len(ls) = Len(js)
  BY <1>1, <1>2 DEF Lists
<1>4. ws \in Seq(Nat) /\ Len(ws) = Len(ls)
  BY <1>3, AllOfFacts
<1>5. \A i \in 1..Len(ls) : ws[i] = Len(ls[i])
  BY <1>1, <1>3 DEF Lists, Wholes
<1> HIDE DEF ls, ws
<1>6. FlattenSeq(ls) \in Seq(S)
  BY <1>3, <1>4, <1>5, FlattenFacts
<1>7. AllOf(js) \in Seq(S)
  BY <1>6 DEF AllOf, ls
<1>8. \A i \in 1..Len(AllOf(js)) : AllOf(js)[i] \in S
  BY <1>7
<1> QED  BY <1>8 DEF S

(* ... and are no younger than the youngest of them.                       *)
LEMMA OwnersOf ==
  ASSUME NEW js \in Seq(Job), NEW m \in Nat, \A i \in 1..Len(js) : js[i].id <= m
  PROVE  \A i \in 1..Len(AllOf(js)) : AllOf(js)[i].own <= m
BY OwnersAmong

(* What the clip lets through belongs to the job with the stop signal, or  *)
(* to one before it.                                                       *)
LEMMA BeforeClip ==
  ASSUME SendInv, HistInv, clip > 0, NEW i \in 1..Len(vec), i <= clip
  PROVE  \A s \in StopJobs(jobs) : ~(vec[i].own > jobs[s].id)
<1> DEFINE f == FirstStop(jobs)
           n == Len(jobs)
           a == Counts(jobs)
           b == Wholes(jobs)
           all == AllOf(jobs)
<1>1. /\ jobs \in Seq(Job) /\ n \in Nat /\ vec \in Seq(Entry) /\ Len(vec) \in Nat
      /\ blocks_out \in Nat /\ clip \in Int
  BY DEF SendInv, TypeOK
<1>2. StopJobs(jobs) # {}
  <2>1. clip >= 0
    BY <1>1
  <2> QED  BY <2>1, ClipFacts
<1>3. f \in 1..n /\ \A s \in StopJobs(jobs) : s \in 1..n /\ f <= s
  BY <1>1, <1>2, FirstStopFacts DEF StopJobs
<1>4. clip = Through(a)[f] - blocks_out
  BY <1>1, <1>2, NextStopFacts DEF SendInv, ClipAtFirstStop
<1>5. Through(a)[n] = Len(vec) + blocks_out
  BY DEF SendInv, BlocksCounted
<1>6. /\ a \in Seq(Nat) /\ Len(a) = n /\ \A j \in 1..n : a[j] = jobs[j].n_blocks
  BY <1>1, CountsType
<1>7. /\ b \in Seq(Nat) /\ Len(b) = n /\ Len(all) = Through(b)[n] /\ all \in Seq(Entry)
      /\ \A j \in 1..n : b[j] = Whole(jobs[j])
  BY <1>1, AllOfFacts DEF Wholes
<1>8. /\ all = AllEntries /\ EndOf(vec, all)
  BY DEF HistInv, AllEntries, AllOf, Lists
<1> HIDE DEF f, a, b, all
<1>9. Through(b)[n] - Through(a)[n] = Through(b)[f] - Through(a)[f]
  <2>1. \A j \in 2..n : b[j] = a[j]
    <3>1. \A j \in 2..n : j \in 1..n /\ j > 1
      BY <1>1
    <3> QED  BY <1>6, <1>7, <3>1 DEF HistInv, JobsWhole
  <2>2. \A j \in 1..n : Through(b)[j] - Through(a)[j] = b[1] - a[1]
    BY <1>6, <1>7, <2>1, ThroughTail
  <2>3. n \in 1..n
    BY <1>1, <1>3
  <2> QED  BY <1>3, <2>2, <2>3
<1> DEFINE x == Len(all) - Len(vec) + i
<1>10. /\ Through(a)[n] \in Nat /\ Through(a)[f] \in Nat
       /\ Through(b)[n] \in Nat /\ Through(b)[f] \in Nat
  <2>1. n \in 0..n /\ f \in 0..n
    BY <1>1, <1>3
  <2> QED  BY <1>6, <1>7, <2>1, ThroughFacts
<1>11. x <= Through(b)[f] /\ x \in 1..Len(all)
  <2>1. Len(all) >= Len(vec) /\ Len(all) \in Nat
    BY <1>7, <1>8 DEF EndOf
  <2>2. /\ Through(b)[n] = Len(all) /\ Through(a)[n] = Len(vec) + blocks_out
        /\ clip = Through(a)[f] - blocks_out
        /\ Through(b)[n] - Through(a)[n] = Through(b)[f] - Through(a)[f]
    BY <1>4, <1>5, <1>7, <1>9
  <2>3. i \in Nat /\ i >= 1 /\ i <= Len(vec) /\ i <= clip
    BY <1>1
  <2>4. Len(vec) \in Nat /\ blocks_out \in Nat /\ clip \in Int
    BY <1>1
  <2>5. x <= Through(b)[f]
    BY ONLY <1>10, <2>1, <2>2, <2>3, <2>4, SMTT(30)
  <2>6. x \in 1..Len(all)
    BY ONLY <2>1, <2>3, <2>4
  <2> QED  BY <2>5, <2>6
<1>12. vec[i].own = all[x].own
  BY <1>8 DEF EndOf, PartOf
<1> HIDE DEF x
<1> DEFINE front == SubSeq(jobs, 1, f)
           left  == SubSeq(jobs, f + 1, n)
<1>13. /\ left \in Seq(Job) /\ Len(left) = n - f
       /\ \A j \in 1..(n - f) : left[j] = jobs[f + j]
  <2>1. \A j \in (f + 1)..n : jobs[j] \in Job
    BY <1>1, <1>3
  <2>2. /\ f + 1 \in Int /\ n \in Int /\ (f + 1 <= n => n - (f + 1) + 1 = n - f)
        /\ (~(f + 1 <= n) => n - f = 0) /\ n - (f + 1) + 1 = n - f
        /\ \A j \in 1..(n - f) : (f + 1) + j - 1 = f + j
    BY <1>1, <1>3
  <2> QED  BY <2>1, <2>2, SubSeqProperties
<1> HIDE DEF left
<1>14. /\ front \in Seq(Job) /\ Len(front) = f /\ \A j \in 1..f : front[j] = jobs[j]
       /\ all = AllOf(front) \o AllOf(left)
  <2>1. f \in 0..Len(jobs)
    BY <1>1, <1>3
  <2>2. /\ Len(left) = Len(jobs) - f
        /\ \A j \in 1..Len(left) :
             /\ left[j].id = jobs[f + j].id /\ left[j].msg = jobs[f + j].msg
             /\ left[j].stop_flag = jobs[f + j].stop_flag
    BY <1>13
  <2> QED  BY <1>1, <1>13, <2>1, <2>2, AllOfSplit DEF all
<1> HIDE DEF front
<1> DEFINE c == AllOf(front)
           d == AllOf(left)
<1>15. /\ c \in Seq(Entry) /\ d \in Seq(Entry) /\ Len(c) = Through(Wholes(front))[f]
  BY <1>13, <1>14, AllOfFacts
<1>16. Len(c) = Through(b)[f]
  <2>1. /\ Wholes(front) \in Seq(Nat) /\ Len(Wholes(front)) = f
        /\ \A j \in 1..f : Wholes(front)[j] = b[j]
    <3>1. \A j \in 1..f : j \in 1..n
      BY <1>1, <1>3
    <3> QED  BY <1>7, <1>14, <3>1, AllOfFacts DEF Wholes
  <2>2. f \in 0..f /\ f <= Len(b) /\ f \in Nat
    BY <1>1, <1>3, <1>7
  <2> QED  BY <1>7, <1>15, <2>1, <2>2, ThroughPrefix
<1>17. c[x].own <= jobs[f].id /\ all[x] = c[x]
  <2>1. x \in 1..Len(c)
    BY <1>11, <1>16
  <2> HIDE DEF c, d
  <2>2. all[x] = c[x]
    BY <1>14, <1>15, <2>1, ConcatProperties DEF c, d
  <2>3. jobs[f].id \in Nat /\ \A j \in 1..Len(front) : front[j].id <= jobs[f].id
    <3>1. Len(queued) \in Nat /\ Len(jobs) <= Len(queued)
      BY DEF SendInv, TypeOK, HistInv, JobsQueued
    <3>2. \A j \in 1..n : jobs[j].id = Len(queued) - n + j
      BY DEF HistInv, JobsQueued
    <3>3. \A j \in 1..f : j \in 1..n
      BY <1>1, <1>3
    <3>4. jobs[f].id = Len(queued) - n + f /\ n <= Len(queued) /\ f \in Nat
      BY <1>1, <1>3, <3>1, <3>2
    <3>5. ASSUME NEW j \in 1..f PROVE front[j].id <= jobs[f].id
      <4>1. front[j].id = Len(queued) - n + j
        BY <1>14, <3>2, <3>3
      <4> QED  BY <1>1, <3>1, <3>4, <4>1
    <3>6. jobs[f].id \in Nat
      BY <1>1, <3>1, <3>4
    <3> QED  BY <1>14, <3>5, <3>6
  <2>4. \A j \in 1..Len(c) : c[j].own <= jobs[f].id
    BY <1>14, <2>3, OwnersOf DEF c
  <2> QED  BY <2>1, <2>2, <2>4
<1>18. ASSUME NEW s \in StopJobs(jobs) PROVE ~(vec[i].own > jobs[s].id)
  <2>1. s \in 1..n /\ f <= s
    BY <1>3
  <2>2. jobs[f].id <= jobs[s].id /\ jobs[f].id \in Nat /\ jobs[s].id \in Nat
    <3>1. Len(queued) \in Nat /\ Len(jobs) <= Len(queued)
      BY DEF SendInv, TypeOK, HistInv, JobsQueued
    <3>2. \A j \in 1..n : jobs[j].id = Len(queued) - n + j
      BY DEF HistInv, JobsQueued
    <3> QED  BY <1>1, <1>3, <2>1, <3>1, <3>2
  <2>3. vec[i].own \in Nat
    <3>1. vec[i] \in Entry
      BY <1>1
    <3> QED  BY <3>1 DEF Entry
  <2> QED  BY <1>12, <1>17, <2>2, <2>3
<1> QED  BY <1>18

(* A round touches nothing behind the next stop signal.                    *)
LEMMA WriteBarrier ==
  ASSUME SendInv, HistInv, SendWrites
  PROVE  Behind(vec') = Behind(vec)
<1>1. TypeOK /\ NoEmptyEntry
  BY DEF SendInv
<1>2. PICK n \in 0..(SockCap - Len(sock.buf)) :
        n <= Through(Lens(vec))[n_blocks_out] /\ vec' = PopIov(n).vec
  BY DEF SendWrites
<1> DEFINE k == PopIov(n).n_blocks
           v == PopIov(n).vec
           w == n_blocks_out
           IsBehind(e) == \E s \in StopJobs(jobs) : e.own > jobs[s].id
<1>3. w \in 0..Len(vec) /\ (clip >= 0 => w <= clip)
  BY RoundFacts
<1>4. n \in Nat
  OBVIOUS
<1>5. k \in 0..w /\ v \in Seq(Entry) /\ Len(v) = Len(vec) - k
  BY <1>1, <1>2, <1>3, <1>4, PopFacts
<1>6. \A i \in 1..Len(v) :
        /\ k + i \in 1..Len(vec)
        /\ PartOf(v[i], vec[k + i])
        /\ i > 1 \/ k = w => v[i] = vec[k + i]
  BY <1>1, <1>2, <1>3, <1>4, PopEntries
<1> HIDE DEF k, v, w
<1>7. Len(vec) \in Nat /\ Len(v) \in Nat /\ k \in Nat /\ w \in Nat /\ clip \in Int
  BY <1>1, <1>3, <1>5 DEF TypeOK
<1>8. ASSUME NEW i \in 1..Len(vec), i <= w PROVE ~IsBehind(vec[i])
  <2>1. CASE clip >= 0
    <3>1. clip > 0 /\ i <= clip
      BY <1>3, <1>7, <1>8, <2>1, ClipFacts
    <3> QED  BY <3>1, BeforeClip
  <2>2. CASE ~(clip >= 0)
    <3>1. StopJobs(jobs) = {}
      BY <2>2, ClipFacts
    <3> QED  BY <3>1
  <2> QED  BY <2>1, <2>2
<1>9. ASSUME NEW i \in 1..Len(v)
      PROVE  /\ k + i \in 1..Len(vec) /\ Len(vec) - (k + i) = Len(v) - i
             /\ IsBehind(v[i]) <=> IsBehind(vec[k + i])
             /\ IsBehind(v[i]) => v[i] = vec[k + i]
  <2>1. k + i \in 1..Len(vec) /\ Len(vec) - (k + i) = Len(v) - i
    BY <1>5, <1>6, <1>7
  <2>2. v[i].own = vec[k + i].own
    BY <1>6 DEF PartOf
  <2>3. ~(i > 1 \/ k = w) => k + i <= w
    BY <1>5, <1>7
  <2>4. v[i] = vec[k + i] \/ ~IsBehind(vec[k + i])
    BY <1>6, <1>8, <2>1, <2>3
  <2> QED  BY <2>1, <2>2, <2>4
<1>10. ASSUME NEW j \in 1..Len(vec), IsBehind(vec[j])
       PROVE  j - k \in 1..Len(v) /\ k + (j - k) = j
  <2>1. ~(j <= w)
    BY <1>8, <1>10
  <2> QED  BY <1>5, <1>7, <2>1
<1> DEFINE mine == {i \in 1..Len(v) : IsBehind(v[i])}
           old  == {i \in 1..Len(vec) : IsBehind(vec[i])}
<1>11. Behind(vec') = {<<Len(v) - i, v[i]>> : i \in mine}
  BY <1>2 DEF Behind, v
<1>12. Behind(vec) = {<<Len(vec) - i, vec[i]>> : i \in old}
  BY DEF Behind
<1>13. ASSUME NEW i \in mine
       PROVE  k + i \in old /\ <<Len(v) - i, v[i]>> = <<Len(vec) - (k + i), vec[k + i]>>
  BY <1>9, <1>13
<1>14. ASSUME NEW j \in old
       PROVE  j - k \in mine /\ <<Len(v) - (j - k), v[j - k]>> = <<Len(vec) - j, vec[j]>>
  <2>1. j - k \in 1..Len(v) /\ k + (j - k) = j
    BY <1>10, <1>14
  <2>2. j - k \in mine
    BY <1>9, <1>14, <2>1
  <2> QED  BY <1>9, <2>1, <2>2
<1> HIDE DEF mine, old, IsBehind
<1>15. {<<Len(v) - i, v[i]>> : i \in mine} = {<<Len(vec) - i, vec[i]>> : i \in old}
  BY <1>13, <1>14
<1> QED  BY <1>11, <1>12, <1>15

(* No step of the sender touches an entry behind the next stop signal.     *)
THEOREM StopIsBarrier == Spec => StopBarrier
<1>1. SendInv /\ HistInv /\ [Next]_vars => [Send => Behind(vec') = Behind(vec)]_vars
  <2> SUFFICES ASSUME SendInv, HistInv, Send PROVE Behind(vec') = Behind(vec)
    OBVIOUS
  <2>1. CASE SendWrites
    BY <2>1, WriteBarrier
  <2>2. CASE SendGivesUp \/ SendFails
    <3>1. vec' = vec
      BY <2>2 DEF SendGivesUp, SendFails
    <3> QED  BY <3>1
  <2> QED  BY <2>1, <2>2 DEF Send
<1>2. Spec => [][SendInv /\ HistInv /\ [Next]_vars]_vars
  BY SendInvariant, HistInvariant, PTL DEF Spec
<1> QED  BY <1>1, <1>2, PTL DEF StopBarrier

-----------------------------------------------------------------------------
(***************************************************************************)
(* What the socket and the other end see of the sender: the units it       *)
(* writes are the front of those its vector covers, and a message has left *)
(* when none of its entries is in the vector.                              *)
(***************************************************************************)

Datas(v) == [i \in 1..Len(v) |-> v[i].data]

(* The units that a vector covers are those of its entries.                *)
LEMMA UnitsOf ==
  ASSUME NEW v \in Seq(Entry)
  PROVE  /\ Datas(v) \in Seq(Seq(Unit)) /\ Len(Datas(v)) = Len(v)
         /\ \A i \in 1..Len(v) : Datas(v)[i] = v[i].data /\ v[i].data \in Seq(Unit)
         /\ Units(v) = FlattenSeq(Datas(v)) /\ Units(v) \in Seq(Unit)
         /\ Lens(v) \in Seq(Nat) /\ Len(Lens(v)) = Len(v)
         /\ \A i \in 1..Len(v) : Lens(v)[i] = Len(v[i].data)
         /\ Len(Units(v)) = Through(Lens(v))[Len(v)]
<1> DEFINE seqs == Datas(v)
           lens == Lens(v)
<1>1. Len(v) \in Nat /\ \A i \in 1..Len(v) : v[i].data \in Seq(Unit) /\ Len(v[i].data) \in Nat
  <2> SUFFICES ASSUME NEW i \in 1..Len(v)
               PROVE  v[i].data \in Seq(Unit) /\ Len(v[i].data) \in Nat
    OBVIOUS
  <2>1. v[i] \in Entry
    BY ElementOfSeq
  <2>2. v[i].data \in Seq(Unit)
    BY <2>1 DEF Entry
  <2> QED  BY <2>2
<1>2. /\ seqs \in Seq(Seq(Unit)) /\ Len(seqs) = Len(v)
      /\ \A i \in 1..Len(v) : seqs[i] = v[i].data
  BY <1>1 DEF Datas
<1>3. /\ lens \in Seq(Nat) /\ Len(lens) = Len(v)
      /\ \A i \in 1..Len(v) : lens[i] = Len(v[i].data)
  BY <1>1 DEF Lens
<1>4. Units(v) = FlattenSeq(seqs)
  BY DEF Units, Datas
<1> HIDE DEF seqs, lens
<1>5. FlattenSeq(seqs) \in Seq(Unit) /\ Len(FlattenSeq(seqs)) = Through(lens)[Len(lens)]
  <2>1. Len(lens) = Len(seqs) /\ \A i \in 1..Len(seqs) : lens[i] = Len(seqs[i])
    BY <1>2, <1>3
  <2> QED  BY <1>2, <1>3, <2>1, FlattenFacts
<1> QED  BY <1>1, <1>2, <1>3, <1>4, <1>5 DEF seqs, lens

(* A sequence is its beginning and its last units.                         *)
LEMMA FirstAndLast ==
  ASSUME NEW S, NEW s \in Seq(S), NEW n \in 0..Len(s)
  PROVE  \E h \in Seq(S) : s = h \o LastUnits(s, n)
<1> DEFINE m == Len(s) - n
           h == SubSeq(s, 1, m)
           t == LastUnits(s, n)
           ht == h \o t
<1>1. m \in Nat /\ m + n = Len(s) /\ n \in Nat /\ Len(s) \in Nat
  OBVIOUS
<1>2. t \in Seq(S) /\ Len(t) = n /\ \A i \in 1..n : t[i] = s[m + i]
  BY LastUnitsFacts
<1> HIDE DEF m, t
<1>3. h \in Seq(S) /\ Len(h) = m /\ \A i \in 1..m : h[i] = s[i]
  <2>1. 1 \in Int /\ m \in Int /\ m - 1 + 1 = m /\ (\A i \in 1..m : i \in 1..Len(s) /\ 1 + i - 1 = i)
        /\ (~(1 <= m) => m = 0)
    BY <1>1
  <2>2. \A i \in 1..m : s[i] \in S
    BY <2>1, ElementOfSeq
  <2> QED  BY <2>1, <2>2, SubSeqProperties
<1> HIDE DEF h
<1>4. /\ ht \in Seq(S) /\ Len(ht) = m + n
      /\ \A i \in 1..(m + n) : ht[i] = IF i <= m THEN h[i] ELSE t[i - m]
  BY <1>2, <1>3, ConcatProperties
<1> HIDE DEF ht
<1>5. \A i \in 1..Len(s) : ht[i] = s[i]
  <2> TAKE i \in 1..Len(s)
  <2>1. CASE i <= m
    BY <1>1, <1>3, <1>4, <2>1
  <2>2. CASE ~(i <= m)
    <3>1. i - m \in 1..n /\ m + (i - m) = i /\ i \in 1..(m + n)
      BY <1>1, <2>2
    <3> QED  BY <1>2, <1>4, <2>2, <3>1
  <2> QED  BY <2>1, <2>2
<1>6. s = ht
  BY <1>1, <1>4, <1>5, SeqEqual
<1> QED  BY <1>3, <1>6 DEF ht, t

(* A write takes its units from the front of those the vector covers, and  *)
(* the vector covers the others afterwards, each entry those it covered.   *)
LEMMA PopUnits ==
  ASSUME TypeOK, NoEmptyEntry, NEW n \in Nat,
         NEW w \in 0..Len(vec), n <= Through(Lens(vec))[w]
  PROVE  LET pop == PopIov(n)
         IN  /\ SubSeq(Units(vec), 1, n) \in Seq(Unit)
             /\ Units(vec) = SubSeq(Units(vec), 1, n) \o Units(pop.vec)
             /\ \A i \in 1..Len(pop.vec) :
                  /\ pop.vec[i].own = vec[pop.n_blocks + i].own
                  /\ Through(Lens(pop.vec))[i] = Through(Lens(vec))[pop.n_blocks + i] - n
<1> DEFINE all  == Lens(vec)
           rest == ConsumeRest(all, n)
           k    == Consumed(all, n)
           pop  == PopIov(n)
           v    == pop.vec
<1>1. vec \in Seq(Entry) /\ Len(vec) \in Nat
  BY DEF TypeOK
<1>2. /\ all \in Seq(Nat \ {0}) /\ all \in Seq(Nat) /\ Len(all) = Len(vec)
      /\ \A i \in 1..Len(vec) : all[i] = Len(vec[i].data)
  <2>1. /\ all \in Seq(Nat \ {0}) /\ Len(all) = Len(vec)
        /\ \A i \in 1..Len(vec) : all[i] = Len(vec[i].data)
    BY <1>1, LensType
  <2> QED  BY <2>1
<1>3. /\ k \in 0..Len(vec) /\ Through(all)[k] <= n
  <2> HIDE DEF all
  <2> QED  BY <1>2, ConsumedFacts
<1>4. /\ rest \in Seq(Nat \ {0}) /\ Len(rest) = Len(vec) - k
      /\ \A i \in 1..Len(rest) : Through(rest)[i] = Through(all)[k + i] - n
  <2> HIDE DEF all
  <2> QED  BY <1>2, ConsumeRestFacts
<1>5. /\ pop.n_blocks \in 0..w /\ v \in Seq(Entry) /\ Len(v) = Len(vec) - pop.n_blocks
  BY PopFacts
<1>6. pop.n_blocks = k
  <2>1. pop.n_blocks = Len(vec) - Len(rest)
    BY DEF PopIov
  <2> HIDE DEF pop, rest, all, k
  <2> QED  BY <1>1, <1>3, <1>4, <2>1
<1>7. /\ \A i \in 1..Len(rest) : v[i].data = LastUnits(vec[k + i].data, rest[i])
      /\ \A i \in 1..Len(rest) : v[i].own = vec[k + i].own
  <2>1. v = [i \in 1..Len(rest) |-> [vec[k + i] EXCEPT !.data = LastUnits(@, rest[i])]]
    <3>1. pop.n_blocks = Len(vec) - Len(rest)
      BY DEF PopIov
    <3>2. v = [i \in 1..Len(rest) |->
                [vec[pop.n_blocks + i] EXCEPT !.data = LastUnits(@, rest[i])]]
      BY <3>1 DEF PopIov
    <3> QED  BY <1>6, <3>2
  <2> HIDE DEF v, rest, k
  <2> SUFFICES ASSUME NEW i \in 1..Len(rest)
               PROVE  v[i].data = LastUnits(vec[k + i].data, rest[i]) /\ v[i].own = vec[k + i].own
    OBVIOUS
  <2>2. k + i \in 1..Len(vec)
    BY <1>1, <1>3, <1>4
  <2> DEFINE x == vec[k + i]
  <2>3. x \in Entry
    BY <1>1, <2>2, ElementOfSeq
  <2>4. v[i] = [x EXCEPT !.data = LastUnits(x.data, rest[i])]
    BY <2>1
  <2> HIDE DEF x
  <2>5. x = [own |-> x.own, data |-> x.data]
    BY <2>3 DEF Entry
  <2>6. v[i] = [own |-> x.own, data |-> LastUnits(x.data, rest[i])]
    BY <2>4, <2>5
  <2>7. v[i].own = x.own /\ v[i].data = LastUnits(x.data, rest[i])
    BY <2>6
  <2> QED  BY <2>7 DEF x
<1>8. Len(v) = Len(rest)
  BY <1>4, <1>5, <1>6
<1>9. /\ Datas(vec) \in Seq(Seq(Unit)) /\ Len(Datas(vec)) = Len(vec)
      /\ \A i \in 1..Len(vec) : Datas(vec)[i] = vec[i].data /\ vec[i].data \in Seq(Unit)
      /\ Units(vec) = FlattenSeq(Datas(vec)) /\ Units(vec) \in Seq(Unit)
      /\ Len(Units(vec)) = Through(all)[Len(vec)]
  BY <1>1, UnitsOf
<1>10. /\ Datas(v) \in Seq(Seq(Unit)) /\ Len(Datas(v)) = Len(v)
       /\ \A i \in 1..Len(v) : Datas(v)[i] = v[i].data /\ v[i].data \in Seq(Unit)
       /\ Units(v) = FlattenSeq(Datas(v)) /\ Units(v) \in Seq(Unit)
       /\ Lens(v) \in Seq(Nat) /\ Len(Lens(v)) = Len(v)
       /\ \A i \in 1..Len(v) : Lens(v)[i] = Len(v[i].data)
       /\ Len(Units(v)) = Through(Lens(v))[Len(v)]
  <2> HIDE DEF v
  <2> QED  BY <1>5, UnitsOf
<1>11. n <= Through(all)[w] /\ \A i \in 0..Len(vec) : Through(all)[i] \in Nat
  <2> HIDE DEF all
  <2> QED  BY <1>2, ThroughFacts DEF all
<1> HIDE DEF all, k, rest, pop, v
<1>12. ASSUME NEW i \in 1..Len(rest)
       PROVE  /\ k + i \in 1..Len(vec) /\ rest[i] \in Nat
              /\ rest[i] <= Len(vec[k + i].data) /\ (i > 1 => rest[i] = Len(vec[k + i].data))
  <2>1. k + i \in 1..Len(vec)
    BY <1>1, <1>3, <1>4
  <2>2. rest[i] \in Nat
    BY <1>4
  <2>3. rest[i] <= all[k + i]
    BY <1>2, <1>4, ConsumeRestFacts DEF rest, k
  <2>4. i > 1 => rest[i] = all[k + i]
    BY <1>2, ConsumeRestSame DEF rest, k
  <2> QED  BY <1>2, <2>1, <2>2, <2>3, <2>4
<1>13. ASSUME NEW i \in 1..Len(rest)
       PROVE  Len(v[i].data) = rest[i] /\ (i > 1 => v[i].data = vec[k + i].data)
  <2> DEFINE d == vec[k + i].data
             m == rest[i]
  <2>1. d \in Seq(Unit) /\ m \in 0..Len(d) /\ (i > 1 => m = Len(d))
    <3>1. d \in Seq(Unit)
      BY <1>9, <1>12
    <3>2. Len(d) \in Nat
      BY <3>1
    <3> QED  BY <1>12, <3>1, <3>2
  <2>2. v[i].data = LastUnits(d, m)
    BY <1>7
  <2> HIDE DEF d, m
  <2>3. Len(LastUnits(d, m)) = m /\ (m = Len(d) => LastUnits(d, m) = d)
    BY <2>1, LastUnitsFacts, LastUnitsAll
  <2> QED  BY <2>1, <2>2, <2>3 DEF d, m
<1>14. Lens(v) = rest
  <2>1. Len(Lens(v)) = Len(rest) /\ \A i \in 1..Len(rest) : Lens(v)[i] = rest[i]
    BY <1>8, <1>10, <1>13
  <2>2. rest \in Seq(Nat)
    BY <1>4
  <2> QED  BY <1>10, <2>1, <2>2, SeqEqual
<1>15. \E front \in Seq(Unit) : Units(vec) = front \o Units(v)
  <2>1. CASE k < Len(vec)
    <3> DEFINE d == vec[k + 1].data
               m == rest[1]
    <3>1. 1 \in 1..Len(rest) /\ k + 1 \in 1..Len(vec)
      BY <1>1, <1>3, <1>4, <2>1
    <3>2. d \in Seq(Unit) /\ m \in 0..Len(d)
      <4>1. d \in Seq(Unit) /\ Len(d) \in Nat
        BY <1>9, <3>1
      <4> QED  BY <1>12, <3>1, <4>1
    <3>3. v[1].data = LastUnits(d, m) /\ LastUnits(d, m) \in Seq(Unit)
      <4>1. v[1].data = LastUnits(d, m)
        BY <1>7, <3>1
      <4> QED  BY <1>8, <1>10, <3>1, <4>1
    <3>4. Datas(vec)[k + 1] = d /\ Datas(v)[1] = v[1].data
      BY <1>8, <1>9, <1>10, <3>1
    <3>5. \A i \in 2..Len(Datas(v)) : Datas(v)[i] = Datas(vec)[k + i]
      <4> SUFFICES ASSUME NEW i \in 2..Len(Datas(v)) PROVE Datas(v)[i] = Datas(vec)[k + i]
        OBVIOUS
      <4>1. i \in 1..Len(rest) /\ i > 1 /\ i \in 1..Len(v) /\ k + i \in 1..Len(vec)
        BY <1>1, <1>3, <1>4, <1>8, <1>10
      <4> QED  BY <1>9, <1>10, <1>13, <4>1
    <3> DEFINE t == LastUnits(d, m)
    <3> HIDE DEF d, m
    <3>6. PICK h \in Seq(Unit) : d = h \o t
      BY <3>2, FirstAndLast
    <3> HIDE DEF t
    <3>7. /\ t \in Seq(Unit) /\ Datas(vec)[k + 1] = h \o t /\ Datas(v)[1] = t
          /\ Len(Datas(v)) = Len(Datas(vec)) - k /\ k < Len(Datas(vec)) /\ k \in Nat
      <4>1. Datas(vec)[k + 1] = h \o t
        BY <3>4, <3>6
      <4>2. Datas(v)[1] = t
        BY <3>3, <3>4 DEF t
      <4>3. t \in Seq(Unit)
        BY <3>3 DEF t
      <4>4. Len(Datas(v)) = Len(Datas(vec)) - k /\ k < Len(Datas(vec)) /\ k \in Nat
        BY <1>3, <1>4, <1>8, <1>9, <1>10, <2>1
      <4> QED  BY <4>1, <4>2, <4>3, <4>4
    <3> DEFINE p == Datas(vec)
               q == Datas(v)
    <3>8. /\ p \in Seq(Seq(Unit)) /\ q \in Seq(Seq(Unit)) /\ p[k + 1] = h \o t /\ q[1] = t
          /\ Len(q) = Len(p) - k /\ k < Len(p) /\ k \in Nat /\ t \in Seq(Unit)
          /\ \A i \in 2..Len(q) : q[i] = p[k + i]
          /\ h \in Seq(Unit)
      BY <1>9, <1>10, <3>5, <3>7
    <3> HIDE DEF p, q
    <3>9. \E front \in Seq(Unit) : FlattenSeq(p) = front \o FlattenSeq(q)
      BY ONLY <3>8, FlattenEnd, ZenonT(60)
    <3> QED  BY <1>9, <1>10, <3>9 DEF p, q
  <2>2. CASE ~(k < Len(vec))
    <3>1. Len(v) = 0
      BY <1>1, <1>3, <1>4, <1>8, <2>2
    <3>2. Datas(v) = <<>>
      BY <1>10, <3>1
    <3>3. Units(v) = <<>>
      <4>1. FlattenSeq(<<>>) = <<>>
        BY DEF FlattenSeq
      <4> QED  BY <1>10, <3>2, <4>1
    <3>4. Units(vec) \o <<>> = Units(vec)
      BY <1>9, ConcatEmptySeq
    <3> QED  BY <1>9, <3>3, <3>4
  <2> QED  BY <2>1, <2>2
<1>16. PICK front \in Seq(Unit) : Units(vec) = front \o Units(v)
  BY <1>15
<1>17. Len(front) = n
  <2>1. Len(Units(vec)) = Len(front) + Len(Units(v)) /\ Len(front) \in Nat /\ Len(Units(v)) \in Nat
    BY <1>10, <1>16, ConcatProperties
  <2>2. CASE k < Len(vec)
    <3>1. Len(rest) \in 1..Len(rest) /\ k + Len(rest) = Len(vec)
      BY <1>1, <1>3, <1>4, <2>2
    <3>2. Through(rest)[Len(rest)] = Through(all)[Len(vec)] - n
      BY <1>4, <3>1
    <3>3. Len(Units(v)) = Len(Units(vec)) - n
      BY <1>8, <1>9, <1>10, <1>14, <3>2
    <3> QED  BY <1>1, <2>1, <3>3
  <2>3. CASE ~(k < Len(vec))
    <3>1. k = Len(vec) /\ Len(v) = 0 /\ k = w
      BY <1>1, <1>3, <1>4, <1>5, <1>6, <1>8, <2>3
    <3>2. Through(all)[Len(vec)] = n
      <4>1. Through(all)[Len(vec)] <= n /\ n <= Through(all)[Len(vec)]
            /\ Through(all)[Len(vec)] \in Nat
        BY <1>3, <1>11, <3>1
      <4> QED  BY ONLY <4>1, n \in Nat
    <3>3. Len(Units(v)) = 0
      <4>1. Through(Lens(v))[0] = 0
        BY <1>10, ThroughFacts
      <4> QED  BY <1>10, <3>1, <4>1
    <3>4. Len(Units(vec)) = n
      BY <1>9, <3>2
    <3> QED  BY ONLY <2>1, <3>3, <3>4
  <2> QED  BY <2>2, <2>3
<1>18. front = SubSeq(Units(vec), 1, n)
  <2> DEFINE u == Units(vec)
             b == Units(v)
             s == SubSeq(u, 1, n)
  <2>1. /\ u \in Seq(Unit) /\ b \in Seq(Unit) /\ u = front \o b /\ Len(u) \in Nat
    BY <1>9, <1>10, <1>16
  <2> HIDE DEF u, b
  <2>2. /\ Len(u) = Len(front) + Len(b) /\ \A i \in 1..Len(front) : u[i] = front[i]
    <3>1. front \in Seq(Unit)
      OBVIOUS
    <3>2. /\ Len(front \o b) = Len(front) + Len(b)
          /\ \A i \in 1..(Len(front) + Len(b)) :
               (front \o b)[i] = IF i <= Len(front) THEN front[i] ELSE b[i - Len(front)]
      BY <2>1, ConcatProperties
    <3>3. Len(front) \in Nat /\ Len(b) \in Nat
      BY <2>1
    <3>4. \A i \in 1..Len(front) : i \in 1..(Len(front) + Len(b)) /\ i <= Len(front)
      BY <3>3
    <3> QED  BY <2>1, <3>2, <3>4
  <2>3. n \in 0..Len(u)
    BY <1>17, <2>1, <2>2
  <2>4. s \in Seq(Unit) /\ Len(s) = n /\ \A i \in 1..n : s[i] = u[i]
    <3>1. 1 \in Int /\ n \in Int /\ n - 1 + 1 = n /\ (\A i \in 1..n : i \in 1..Len(u) /\ 1 + i - 1 = i)
          /\ (~(1 <= n) => n = 0)
      BY <2>1, <2>3
    <3>2. \A i \in 1..n : u[i] \in Unit
      BY <2>1, <3>1, ElementOfSeq
    <3> QED  BY <3>1, <3>2, SubSeqProperties
  <2> HIDE DEF s
  <2>5. front = s
    BY <1>17, <2>2, <2>4, SeqEqual
  <2> QED  BY <2>5 DEF s, u
<1>19. \A i \in 1..Len(v) :
         /\ v[i].own = vec[k + i].own
         /\ Through(Lens(v))[i] = Through(all)[k + i] - n
  BY <1>4, <1>7, <1>8, <1>14
<1> QED  BY <1>6, <1>16, <1>18, <1>19 DEF all, v, pop

-----------------------------------------------------------------------------
(* Which messages have left.                                               *)

(* Where the blocks of the first jobs end, so do their entries.            *)
LEMMA OwnersSplit ==
  ASSUME NEW js \in Seq(Job), NEW f \in 0..Len(js), NEW x \in 1..Len(AllOf(js))
  PROVE  /\ x <= Through(Wholes(js))[f] =>
              \E j \in 1..f : AllOf(js)[x].own = js[j].id
         /\ x > Through(Wholes(js))[f] =>
              \E j \in (f + 1)..Len(js) : AllOf(js)[x].own = js[j].id
<1> DEFINE n     == Len(js)
           front == SubSeq(js, 1, f)
           left  == SubSeq(js, f + 1, n)
           all   == AllOf(js)
           ws    == Wholes(js)
<1>1. n \in Nat /\ f \in 0..n
  OBVIOUS
<1>2. left \in Seq(Job) /\ Len(left) = n - f /\ \A j \in 1..(n - f) : left[j] = js[f + j]
  BY Behindmost
<1> HIDE DEF left
<1>3. /\ front \in Seq(Job) /\ Len(front) = f /\ \A j \in 1..f : front[j] = js[j]
      /\ all = AllOf(front) \o AllOf(left)
  <2>1. /\ Len(left) = Len(js) - f
        /\ \A j \in 1..Len(left) :
             /\ left[j].id = js[f + j].id /\ left[j].msg = js[f + j].msg
             /\ left[j].stop_flag = js[f + j].stop_flag
    BY <1>2
  <2> QED  BY <1>2, <2>1, AllOfSplit
<1> HIDE DEF front
<1> DEFINE c == AllOf(front)
           d == AllOf(left)
           t == Through(ws)[f]
<1>4. /\ c \in Seq(Entry) /\ d \in Seq(Entry) /\ Len(c) = Through(Wholes(front))[f]
  BY <1>2, <1>3, AllOfFacts
<1>5. Len(c) = t /\ t \in Nat
  <2>1. /\ Wholes(front) \in Seq(Nat) /\ Len(Wholes(front)) = f
        /\ \A j \in 1..f : Wholes(front)[j] = ws[j]
    <3>1. \A j \in 1..f : j \in 1..n
      BY <1>1
    <3> QED  BY <1>3, <3>1, AllOfFacts DEF Wholes
  <2>2. ws \in Seq(Nat) /\ Len(ws) = n
    BY AllOfFacts
  <2> HIDE DEF ws
  <2>3. f \in 0..Len(Wholes(front)) /\ Len(Wholes(front)) <= Len(ws)
    BY <1>1, <2>1, <2>2
  <2>4. Through(ws)[f] = Through(Wholes(front))[f]
    BY <2>1, <2>2, <2>3, ThroughPrefix
  <2>5. Len(c) \in Nat
    BY <1>4
  <2> QED  BY <1>4, <2>4, <2>5
<1> HIDE DEF c, d, t, all
<1>6. /\ Len(all) = Len(c) + Len(d) /\ Len(d) \in Nat
      /\ x <= t => x \in 1..Len(c) /\ all[x] = c[x]
      /\ x > t => x - t \in 1..Len(d) /\ all[x] = d[x - t]
  <2>1. /\ Len(c \o d) = Len(c) + Len(d)
        /\ \A i \in 1..(Len(c) + Len(d)) :
             (c \o d)[i] = IF i <= Len(c) THEN c[i] ELSE d[i - Len(c)]
    BY <1>4, ConcatProperties
  <2>2. all = c \o d
    BY <1>3 DEF c, d
  <2>3. Len(d) \in Nat /\ Len(c) \in Nat
    BY <1>4
  <2>4. x \in 1..Len(all)
    BY DEF all
  <2> QED  BY <1>5, <2>1, <2>2, <2>3, <2>4
<1>7. ASSUME x <= t PROVE \E j \in 1..f : all[x].own = js[j].id
  <2>1. \E j \in 1..Len(front) : c[x].own = front[j].id
    BY <1>3, <1>6, <1>7, OwnersAmong DEF c
  <2> QED  BY <1>3, <1>6, <1>7, <2>1
<1>8. ASSUME x > t PROVE \E j \in (f + 1)..n : all[x].own = js[j].id
  <2>1. PICK j \in 1..Len(left) : d[x - t].own = left[j].id
    BY <1>2, <1>6, <1>8, OwnersAmong DEF d
  <2>2. f + j \in (f + 1)..n /\ left[j] = js[f + j]
    BY <1>1, <1>2
  <2> QED  BY <1>6, <1>8, <2>1, <2>2
<1> QED  BY <1>7, <1>8 DEF t, all

(* The vector begins in the first job that has blocks which are not out.   *)
LEMMA FrontOwner ==
  ASSUME NEW js \in Seq(Job), NEW v \in Seq(Entry), NEW out \in Nat, NEW r \in Nat,
         Len(v) > 0, EndOf(v, AllOf(js)),
         Through(Counts(js))[Len(js)] = Len(v) + out,
         \A i \in 1..Len(js) : js[i].id = r + i,
         \A i \in 2..Len(js) : js[i].n_blocks = Whole(js[i])
  PROVE  /\ Consumed(Counts(js), out) \in 0..(Len(js) - 1)
         /\ v[1].own = r + Consumed(Counts(js), out) + 1
<1> DEFINE n   == Len(js)
           a   == Counts(js)
           b   == Wholes(js)
           all == AllOf(js)
           k   == Consumed(a, out)
           x   == Len(all) - Len(v) + 1
<1>0. Len(v) > 0 /\ out \in Nat /\ r \in Nat
  OBVIOUS
<1>1. /\ n \in Nat /\ Len(v) \in Nat
      /\ a \in Seq(Nat) /\ Len(a) = n /\ \A j \in 1..n : a[j] = js[j].n_blocks
  BY CountsType
<1>2. /\ b \in Seq(Nat) /\ Len(b) = n /\ Len(all) = Through(b)[n] /\ all \in Seq(Entry)
      /\ \A j \in 1..n : b[j] = Whole(js[j])
  BY AllOfFacts DEF Wholes
<1> HIDE DEF a, b, all
<1>3. k \in 0..n /\ Through(a)[k] <= out /\ (k < n => out < Through(a)[k + 1])
  BY <1>1, ConsumedFacts
<1>4. Len(v) <= Len(all) /\ v[1].own = all[x].own
  BY <1>1 DEF EndOf, PartOf, all
<1> HIDE DEF k
<1>5. Through(a)[n] = Len(v) + out
  BY DEF a
<1>6. k < n
  <2>1. k = n => FALSE
    BY ONLY <1>1, <1>3, <1>5, <1>0
  <2> QED  BY <1>1, <1>3, <2>1
<1>7. /\ \A j \in 0..n : Through(a)[j] \in Nat /\ Through(b)[j] \in Nat
      /\ Through(a)[0] = 0 /\ Through(b)[0] = 0
  BY <1>1, <1>2, ThroughFacts
<1> DEFINE e == b[1] - a[1]
<1>8. \A j \in 1..n : Through(b)[j] - Through(a)[j] = e
  <2>1. \A j \in 2..n : b[j] = a[j]
    <3>1. \A j \in 2..n : j \in 1..n
      BY <1>1
    <3> QED  BY <1>1, <1>2, <3>1
  <2> QED  BY <1>1, <1>2, <2>1, ThroughTail
<1>9. /\ n \in 1..n /\ k + 1 \in 1..n /\ k \in 0..n /\ (k # 0 => k \in 1..n) /\ k \in Nat
  <2>1. k \in 0..n /\ k < n /\ n \in Nat
    BY <1>1, <1>3, <1>6
  <2> HIDE DEF n
  <2> QED  BY ONLY <2>1
<1>10. e \in Int
  <2>1. a[1] \in Nat /\ b[1] \in Nat
    <3>1. 1 \in 1..n
      BY <1>1, <1>9
    <3> QED  BY <1>1, <1>2, <3>1, ElementOfSeq
  <2> QED  BY <2>1
<1> HIDE DEF e
<1>11. x = e + out + 1 /\ x \in 1..Len(all)
  <2>1. Through(b)[n] - Through(a)[n] = e /\ Through(b)[n] \in Nat /\ Through(a)[n] \in Nat
    BY <1>1, <1>7, <1>8, <1>9
  <2>2. Len(all) = Through(b)[n]
    BY <1>2
  <2>3. Through(a)[n] = Len(v) + out /\ Len(v) \in Nat /\ Len(v) <= Len(all)
    BY <1>1, <1>4, <1>5
  <2> DEFINE p == Through(b)[n]
             q == Through(a)[n]
             m == Len(all)
             w == Len(v)
  <2>4. /\ p - q = e /\ p \in Nat /\ q \in Nat /\ m = p /\ q = w + out /\ w \in Nat
        /\ w <= m /\ w > 0 /\ out \in Nat
    BY <1>0, <2>1, <2>2, <2>3
  <2> HIDE DEF p, q, m, w
  <2>5. m - w + 1 = e + out + 1 /\ m - w + 1 \in 1..m
    BY ONLY <1>10, <2>4
  <2> QED  BY <2>5 DEF m, w
<1>12. x <= Through(b)[k + 1]
  <2>1. Through(b)[k + 1] - Through(a)[k + 1] = e /\ out < Through(a)[k + 1]
        /\ Through(b)[k + 1] \in Nat /\ Through(a)[k + 1] \in Nat
    BY <1>1, <1>3, <1>6, <1>7, <1>8, <1>9
  <2>2. x = e + out + 1
    BY <1>11
  <2> HIDE DEF x
  <2> QED  BY ONLY <1>10, <2>1, <1>0, <2>2
<1>13. x > Through(b)[k]
  <2>1. CASE k = 0
    BY <1>7, <1>11, <2>1
  <2>2. CASE k # 0
    <3>1. Through(b)[k] - Through(a)[k] = e /\ Through(a)[k] <= out
          /\ Through(b)[k] \in Nat /\ Through(a)[k] \in Nat
      BY <1>1, <1>3, <1>7, <1>8, <1>9, <2>2
    <3>2. x = e + out + 1
      BY <1>11
    <3> HIDE DEF x
    <3> QED  BY ONLY <1>10, <3>1, <1>0, <3>2
  <2> QED  BY <2>1, <2>2
<1> HIDE DEF x
<1>14. \E j \in 1..(k + 1) : all[x].own = js[j].id
  <2>1. k + 1 \in 0..Len(js) /\ x \in 1..Len(all) /\ x <= Through(b)[k + 1]
    BY <1>1, <1>9, <1>11, <1>12
  <2> QED  BY <2>1, OwnersSplit DEF all, b
<1>15. \E j \in (k + 1)..n : all[x].own = js[j].id
  <2>1. k \in 0..Len(js) /\ x \in 1..Len(all) /\ x > Through(b)[k]
    BY <1>1, <1>9, <1>11, <1>13
  <2> QED  BY <2>1, OwnersSplit DEF all, b
<1>16. all[x].own = r + k + 1
  <2>1. \A i \in 1..n : js[i].id = r + i
    OBVIOUS
  <2>2. PICK i \in 1..(k + 1) : all[x].own = js[i].id
    BY <1>14
  <2>3. PICK j \in (k + 1)..n : all[x].own = js[j].id
    BY <1>15
  <2>4. i \in 1..n /\ j \in 1..n /\ i <= k + 1 /\ j >= k + 1
    BY <1>1, <1>9
  <2>5. all[x].own = r + i /\ all[x].own = r + j
    BY <2>1, <2>2, <2>3, <2>4
  <2>6. i = j /\ i = k + 1
    <3>1. r + i = r + j /\ i \in Nat /\ j \in Nat /\ k \in Nat /\ r \in Nat
      BY <1>0, <1>1, <1>9, <2>4, <2>5
    <3> QED  BY ONLY <2>4, <3>1
  <2> QED  BY ONLY <1>0, <1>9, <2>5, <2>6
<1>17. k \in 0..(n - 1)
  BY <1>1, <1>3, <1>6
<1> QED  BY <1>4, <1>16, <1>17 DEF k, a

(* ... or, when it is empty, behind them all.                              *)
LEMMA FrontIsConsumed ==
  ASSUME NEW js \in Seq(Job), NEW v \in Seq(Entry), NEW out \in Nat, NEW r \in Nat,
         EndOf(v, AllOf(js)), Through(Counts(js))[Len(js)] = Len(v) + out,
         \A i \in 1..Len(js) : js[i].id = r + i,
         \A i \in 2..Len(js) : js[i].n_blocks = Whole(js[i])
  PROVE  /\ Consumed(Counts(js), out) \in 0..Len(js)
         /\ (IF v = <<>> THEN r + Len(js) ELSE v[1].own - 1)
              = r + Consumed(Counts(js), out)
<1>1. Len(js) \in Nat /\ Len(v) \in Nat /\ (v = <<>> <=> Len(v) = 0)
  OBVIOUS
<1>2. CASE v = <<>>
  <2>1. Counts(js) \in Seq(Nat \ {0}) /\ Len(Counts(js)) = Len(js)
    BY CountsType
  <2> DEFINE n == Len(js)
  <2>2. n \in 0..Len(Counts(js)) /\ Through(Counts(js))[n] = out
    BY <1>1, <1>2, <2>1
  <2>3. n = Len(Counts(js)) /\ Through(Counts(js))[n] <= out
    BY <2>1, <2>2
  <2> HIDE DEF n
  <2>4. n = Consumed(Counts(js), out)
    BY <2>1, <2>2, <2>3, ConsumedOnce
  <2> QED  BY <1>1, <1>2, <2>4 DEF n
<1>3. CASE v # <<>>
  <2> DEFINE k == Consumed(Counts(js), out)
  <2>1. k \in 0..(Len(js) - 1) /\ v[1].own = r + k + 1
    <3>1. Len(v) > 0
      BY <1>1, <1>3
    <3> HIDE DEF k
    <3>2. /\ Consumed(Counts(js), out) \in 0..(Len(js) - 1)
          /\ v[1].own = r + Consumed(Counts(js), out) + 1
      BY <3>1, FrontOwner, ZenonT(30)
    <3> QED  BY <3>2 DEF k
  <2> HIDE DEF k
  <2>2. v[1].own - 1 = r + k /\ k \in 0..Len(js)
    BY ONLY <1>1, <2>1, r \in Nat
  <2> QED  BY <1>3, <2>2 DEF k
<1> QED  BY <1>2, <1>3

(* The messages none of whose entries is left in the vector.               *)
Gone == IF vec = <<>> THEN Len(queued) ELSE vec[1].own - 1

(* They are those that are released, and those of the jobs whose blocks    *)
(* are out already.                                                        *)
LEMMA GoneJobs ==
  SendInv /\ HistInv =>
    /\ Released \in Nat /\ Released + Len(jobs) = Len(queued)
    /\ Consumed(Counts(jobs), blocks_out) \in 0..Len(jobs)
    /\ Gone = Released + Consumed(Counts(jobs), blocks_out)
<1> SUFFICES ASSUME SendInv, HistInv
             PROVE  /\ Released \in Nat /\ Released + Len(jobs) = Len(queued)
                    /\ Consumed(Counts(jobs), blocks_out) \in 0..Len(jobs)
                    /\ Gone = Released + Consumed(Counts(jobs), blocks_out)
  OBVIOUS
<1>1. /\ jobs \in Seq(Job) /\ vec \in Seq(Entry) /\ blocks_out \in Nat
      /\ Len(jobs) \in Nat /\ Len(queued) \in Nat
      /\ Through(Counts(jobs))[Len(jobs)] = Len(vec) + blocks_out
  BY DEF SendInv, TypeOK, BlocksCounted
<1>2. /\ Len(jobs) <= Len(queued)
      /\ \A i \in 1..Len(jobs) : jobs[i].id = (Len(queued) - Len(jobs)) + i
  BY DEF HistInv, JobsQueued
<1>3. Released \in Nat /\ Released + Len(jobs) = Len(queued)
  BY <1>1, <1>2 DEF Released
<1>4. \A i \in 1..Len(jobs) : jobs[i].id = Released + i
  BY <1>2 DEF Released
<1>5. \A i \in 2..Len(jobs) : jobs[i].n_blocks = Whole(jobs[i])
  <2>1. \A i \in 2..Len(jobs) : i \in 1..Len(jobs) /\ i > 1
    BY <1>1
  <2> QED  BY <2>1 DEF HistInv, JobsWhole
<1>6. EndOf(vec, AllOf(jobs))
  BY DEF HistInv, AllEntries, AllOf, Lists
<1>7. /\ Consumed(Counts(jobs), blocks_out) \in 0..Len(jobs)
      /\ (IF vec = <<>> THEN Released + Len(jobs) ELSE vec[1].own - 1)
           = Released + Consumed(Counts(jobs), blocks_out)
  <2> HIDE DEF Released, EndOf
  <2> QED  BY <1>1, <1>3, <1>4, <1>5, <1>6, FrontIsConsumed
<1> QED  BY <1>3, <1>7 DEF Gone

(* A round of the loop: the units it takes go to the end of the socket,    *)
(* the entries that are left cover the others, and the blocks are counted. *)
LEMMA WriteShift ==
  ASSUME SendInv, SendWrites
  PROVE  \E n \in Nat, k \in Nat, c \in Int, v \in Seq(Entry) :
           /\ vec' = v /\ queued' = queued /\ out_status = "open"
           /\ k <= Len(vec) /\ Len(v) = Len(vec) - k
           /\ SubSeq(Units(vec), 1, n) \in Seq(Unit)
           /\ Units(vec) = SubSeq(Units(vec), 1, n) \o Units(v)
           /\ sock' = [sock EXCEPT !.buf = @ \o SubSeq(Units(vec), 1, n)]
           /\ \A i \in 1..Len(v) :
                /\ v[i].own = vec[k + i].own
                /\ Through(Lens(v))[i] = Through(Lens(vec))[k + i] - n
           /\ c = ClipFor(jobs, blocks_out + k) /\ (clip >= 0 => c >= 0)
           /\ IF repeat
              THEN /\ c # 0 /\ jobs' = jobs /\ out_status' = out_status
                   /\ blocks_out' = blocks_out + k
              ELSE Finish(v, c, blocks_out + k)
<1>1. TypeOK /\ NoEmptyEntry
  BY DEF SendInv
<1>2. PICK n \in 0..(SockCap - Len(sock.buf)) :
        /\ n <= Through(Lens(vec))[n_blocks_out]
        /\ vec' = PopIov(n).vec
        /\ sock' = [sock EXCEPT !.buf = @ \o SubSeq(Units(vec), 1, n)]
        /\ IF repeat
           THEN /\ jobs' = jobs /\ out_status' = out_status
                /\ blocks_out' = blocks_out + PopIov(n).n_blocks
           ELSE Finish(PopIov(n).vec, PopIov(n).clip, blocks_out + PopIov(n).n_blocks)
  BY DEF SendWrites
<1>3. queued' = queued /\ out_status = "open"
  BY DEF SendWrites
<1> DEFINE k == PopIov(n).n_blocks
           v == PopIov(n).vec
           c == PopIov(n).clip
           w == n_blocks_out
<1>4. w \in 0..Len(vec) /\ (clip >= 0 => w <= clip) /\ (clip >= 0 /\ repeat => w < clip)
  BY RoundFacts
<1>5. n \in Nat
  OBVIOUS
<1>6. /\ k \in 0..w /\ v \in Seq(Entry) /\ Len(v) = Len(vec) - k
      /\ c = IF clip >= 0 THEN clip - k ELSE clip
  BY <1>1, <1>2, <1>4, <1>5, PopFacts
<1>7. /\ SubSeq(Units(vec), 1, n) \in Seq(Unit)
      /\ Units(vec) = SubSeq(Units(vec), 1, n) \o Units(v)
      /\ \A i \in 1..Len(v) :
           /\ v[i].own = vec[k + i].own
           /\ Through(Lens(v))[i] = Through(Lens(vec))[k + i] - n
  BY <1>1, <1>2, <1>4, <1>5, PopUnits
<1> HIDE DEF k, v, c, w
<1>8. /\ Len(vec) \in Nat /\ blocks_out \in Nat /\ clip \in Int
      /\ jobs \in Seq(Job) /\ k \in Nat /\ w \in Nat
  BY <1>1, <1>4, <1>6 DEF TypeOK
<1>9. c \in Int /\ k <= Len(vec)
  BY <1>4, <1>6, <1>8
<1>10. /\ clip = ClipFor(jobs, blocks_out)
       /\ clip >= 0 <=> StopJobs(jobs) # {}
  BY ClipFacts
<1>11. c = ClipFor(jobs, blocks_out + k)
  <2>1. StopJobs(jobs) # {} => NextStop(jobs) \in Nat
    BY <1>8, NextStopFacts
  <2>2. CASE StopJobs(jobs) = {}
    <3>1. c = clip /\ clip = -1
      BY <1>6, <1>8, <1>10, <2>2 DEF ClipFor
    <3> QED  BY <2>2, <3>1 DEF ClipFor
  <2>3. CASE StopJobs(jobs) # {}
    <3>1. c = clip - k /\ clip = NextStop(jobs) - blocks_out
      BY <1>6, <1>10, <2>3 DEF ClipFor
    <3>2. NextStop(jobs) \in Nat /\ blocks_out \in Nat /\ k \in Nat
      BY <1>8, <2>1, <2>3
    <3> DEFINE s == NextStop(jobs)
    <3> HIDE DEF s
    <3>3. c = s - (blocks_out + k)
      BY ONLY <3>1, <3>2 DEF s
    <3> QED  BY <2>3, <3>3 DEF ClipFor, s
  <2> QED  BY <2>2, <2>3
<1>12. clip >= 0 => c >= 0
  <2>1. clip >= 0 => c = clip - k /\ k <= w /\ w <= clip
    BY <1>4, <1>6 DEF w
  <2> QED  BY <1>8, <2>1
<1>13. repeat => c # 0
  <2> SUFFICES ASSUME repeat PROVE c # 0
    OBVIOUS
  <2>1. CASE clip >= 0
    <3>1. c = clip - k /\ k <= w /\ w < clip
      BY <1>4, <1>6, <2>1 DEF w
    <3> QED  BY <1>8, <3>1
  <2>2. CASE ~(clip >= 0)
    BY <1>6, <1>8, <2>2
  <2> QED  BY <2>1, <2>2
<1>14. /\ vec' = v
       /\ IF repeat
          THEN jobs' = jobs /\ out_status' = out_status /\ blocks_out' = blocks_out + k
          ELSE Finish(v, c, blocks_out + k)
  BY <1>2 DEF v, c, k
<1> HIDE DEF ClipFor, Finish, repeat
<1>15. /\ n \in Nat /\ k \in Nat /\ c \in Int /\ v \in Seq(Entry)
       /\ vec' = v /\ queued' = queued /\ out_status = "open"
       /\ k <= Len(vec) /\ Len(v) = Len(vec) - k
       /\ SubSeq(Units(vec), 1, n) \in Seq(Unit)
       /\ Units(vec) = SubSeq(Units(vec), 1, n) \o Units(v)
       /\ sock' = [sock EXCEPT !.buf = @ \o SubSeq(Units(vec), 1, n)]
       /\ \A i \in 1..Len(v) :
            /\ v[i].own = vec[k + i].own
            /\ Through(Lens(v))[i] = Through(Lens(vec))[k + i] - n
       /\ c = ClipFor(jobs, blocks_out + k) /\ (clip >= 0 => c >= 0)
       /\ IF repeat
          THEN /\ c # 0 /\ jobs' = jobs /\ out_status' = out_status
               /\ blocks_out' = blocks_out + k
          ELSE Finish(v, c, blocks_out + k)
  BY <1>2, <1>3, <1>5, <1>6, <1>7, <1>8, <1>9, <1>11, <1>12, <1>13, <1>14
<1> QED  BY <1>15

(* What a step of the loop lets go: messages up to one with a stop signal, *)
(* which stops the link, or up to one without.                             *)
LEMMA RoundPasses ==
  ASSUME SendInv, HistInv, SendInv', HistInv', queued' = queued, out_status = "open",
         NEW out \in Nat, blocks_out <= out, NEW c \in Int, c = ClipFor(jobs, out),
         clip >= 0 => c >= 0,
         \/ /\ c # 0 /\ jobs' = jobs /\ out_status' = out_status /\ blocks_out' = out
         \/ jobs' = LeftJobs(out) /\ blocks_out' = 0
            /\ out_status' = IF c = 0 THEN "stopped" ELSE out_status
  PROVE  /\ Gone \in 0..Len(queued) /\ Gone' \in Gone..Len(queued)
         /\ \A i \in (Gone + 1)..(Gone' - 1) : ~queued[i].stop
         /\ out_status' = IF Gone' # Gone /\ queued[Gone'].stop THEN "stopped" ELSE "open"
<1> DEFINE ns == Counts(jobs)
           t  == Through(ns)
           a  == Consumed(ns, blocks_out)
           b  == Consumed(ns, out)
           n  == Len(jobs)
<1>1. /\ jobs \in Seq(Job) /\ n \in Nat /\ Len(queued) \in Nat /\ blocks_out \in Nat
  BY DEF SendInv, TypeOK
<1>2. /\ ns \in Seq(Nat \ {0}) /\ ns \in Seq(Nat) /\ Len(ns) = n
  BY <1>1, CountsType
<1>3. /\ Released \in Nat /\ Released + n = Len(queued) /\ a \in 0..n /\ Gone = Released + a
  BY GoneJobs
<1>4. /\ Released' + Len(jobs') = Len(queued')
      /\ Gone' = Released' + Consumed(Counts(jobs'), blocks_out')
  <2>1. (SendInv /\ HistInv =>
           /\ Released \in Nat /\ Released + Len(jobs) = Len(queued)
           /\ Consumed(Counts(jobs), blocks_out) \in 0..Len(jobs)
           /\ Gone = Released + Consumed(Counts(jobs), blocks_out))'
    BY GoneJobs, PTL
  <2> QED  BY <2>1
<1> HIDE DEF ns
<1>5. /\ a \in 0..n /\ t[a] <= blocks_out
      /\ b \in 0..n /\ t[b] <= out /\ (b < n => out < t[b + 1])
  BY <1>1, <1>2, ConsumedFacts
<1> HIDE DEF a, b
<1>6. Gone' = Released + b
  <2>1. CASE jobs' = jobs /\ blocks_out' = out
    <3>1. Released' = Released
      BY <2>1 DEF Released
    <3>2. Consumed(Counts(jobs'), blocks_out') = b
      BY <2>1 DEF b, ns
    <3> QED  BY <1>4, <3>1, <3>2
  <2>2. CASE jobs' = LeftJobs(out) /\ blocks_out' = 0
    <3>1. jobs' \in Seq(Job) /\ Len(jobs') = n - b
      BY <1>1, <2>2, LeftFacts DEF b, ns
    <3>2. Consumed(Counts(jobs'), 0) = 0
      <4> DEFINE m == Counts(jobs')
      <4>1. m \in Seq(Nat \ {0}) /\ m \in Seq(Nat)
        BY <3>1, CountsType
      <4> HIDE DEF m
      <4>2. Through(m)[0] = 0
        BY <4>1, ThroughFacts
      <4>3. 0 < Len(m) => Through(m)[0] < Through(m)[0 + 1]
        <5>1. 0 < Len(m) => 0 \in 0..Len(m) /\ 1 \in 0..Len(m) /\ 0 < 1
          BY <4>1
        <5> QED  BY <4>1, <5>1, ThroughStrict
      <4>4. 0 \in 0..Len(m) /\ 0 \in Nat
        BY <4>1
      <4>5. 0 = Consumed(m, 0)
        BY <4>1, <4>2, <4>3, <4>4, ConsumedOnce
      <4> QED  BY <4>5 DEF m
    <3>3. Released' = Released + b
      <4>1. Released' = Len(queued) - (n - b)
        BY <3>1 DEF Released
      <4>2. Released + n = Len(queued) /\ Released \in Nat /\ n \in Nat /\ b \in Nat
        BY <1>1, <1>3, <1>5
      <4> HIDE DEF n, Released
      <4> QED  BY ONLY <4>1, <4>2
    <3>4. Released + b \in Nat
      BY <1>3, <1>5
    <3> QED  BY <1>4, <2>2, <3>2, <3>3, <3>4
  <2> QED  BY <2>1, <2>2
<1>7. \A i \in 0..n : t[i] \in Nat
  BY <1>2, ThroughFacts
<1>8. a <= b
  <2> SUFFICES ASSUME b < a PROVE FALSE
    BY <1>1, <1>5
  <2>1. b + 1 \in 0..n /\ a \in (b + 1)..n /\ b < n
    BY <1>1, <1>5
  <2>2. t[b + 1] <= t[a]
    BY <1>2, <2>1, ThroughMonotone
  <2>3. t[b + 1] \in Nat /\ t[a] \in Nat
    BY <1>1, <1>5, <1>7, <2>1
  <2>4. out < t[b + 1] /\ t[a] <= blocks_out /\ blocks_out <= out
    BY <1>5, <2>1
  <2> HIDE DEF t
  <2> QED  BY ONLY <1>1, <2>2, <2>3, <2>4, out \in Nat
<1>9. /\ c = 0 => /\ b \in 1..n /\ jobs[b].stop_flag
                  /\ \A i \in 1..(b - 1) : ~jobs[i].stop_flag
                  /\ out = t[b]
      /\ c # 0 => \A i \in 1..b : ~jobs[i].stop_flag
  BY ReleasedStops DEF b, ns
<1>10. \A i \in 1..n : jobs[i].stop_flag <=> queued[Released + i].stop
  BY DEF HistInv, JobsQueued, Released
<1>11. c = 0 => a < b
  <2> SUFFICES ASSUME c = 0 PROVE a # b
    BY <1>1, <1>5, <1>8
  <2>1. clip = ClipFor(jobs, blocks_out) /\ (clip >= 0 => clip > 0) /\ clip \in Int
    BY ClipFacts DEF SendInv, TypeOK
  <2>2. StopJobs(jobs) # {}
    BY <1>1, <1>9 DEF StopJobs
  <2>3. clip >= 0 /\ NextStop(jobs) \in Nat
    BY <1>1, <2>2, ClipFacts, NextStopFacts
  <2>4. NextStop(jobs) - out = 0 /\ NextStop(jobs) - blocks_out > 0
    BY <2>1, <2>2, <2>3 DEF ClipFor
  <2>5. blocks_out < out
    BY <1>1, <2>3, <2>4
  <2>6. t[b] = out /\ t[a] <= blocks_out
    BY <1>5, <1>9
  <2> HIDE DEF t
  <2>7. a = b => FALSE
    BY ONLY <1>1, <2>5, <2>6, out \in Nat
  <2> QED  BY <2>7
<1> HIDE DEF n, t, Gone
<1>12. /\ Gone \in 0..Len(queued) /\ Gone' \in Gone..Len(queued)
       /\ Gone \in Nat /\ Gone' \in Nat /\ (Gone' # Gone <=> a # b)
  BY <1>1, <1>3, <1>5, <1>6, <1>8
<1>13. \A i \in (Gone + 1)..(Gone' - 1) : ~queued[i].stop
  <2> SUFFICES ASSUME NEW i \in (Gone + 1)..(Gone' - 1) PROVE ~queued[i].stop
    OBVIOUS
  <2> DEFINE j == i - Released
  <2>1. j \in 1..(b - 1) /\ j \in 1..n /\ j \in 1..b /\ Released + j = i
    BY <1>1, <1>3, <1>5, <1>6
  <2> HIDE DEF j
  <2>2. ~jobs[j].stop_flag
    BY <1>9, <2>1
  <2> QED  BY <1>10, <2>1, <2>2
<1>14. out_status' = IF Gone' # Gone /\ queued[Gone'].stop THEN "stopped" ELSE "open"
  <2>1. CASE c = 0
    <3>1. out_status' = "stopped"
      BY <2>1
    <3>2. Gone' # Gone /\ b \in 1..n
      BY <1>5, <1>9, <1>11, <1>12, <2>1
    <3>3. queued[Gone'].stop
      BY <1>6, <1>9, <1>10, <2>1, <3>2
    <3> QED  BY <3>1, <3>2, <3>3
  <2>2. CASE c # 0
    <3>1. out_status' = "open"
      BY <2>2
    <3>2. Gone' # Gone => ~queued[Gone'].stop
      <4> SUFFICES ASSUME Gone' # Gone PROVE ~queued[Gone'].stop
        OBVIOUS
      <4>1. b \in 1..b /\ b \in 1..n
        BY <1>1, <1>5, <1>8, <1>12
      <4> QED  BY <1>6, <1>9, <1>10, <2>2, <4>1
    <3> QED  BY <3>1, <3>2
  <2> QED  BY <2>1, <2>2
<1> QED  BY <1>12, <1>13, <1>14

(* ... which is so of a round that writes and of one that gives up.        *)
LEMMA SendPasses ==
  ASSUME SendInv, HistInv, SendInv', HistInv', SendWrites \/ SendGivesUp
  PROVE  /\ out_status = "open" /\ queued' = queued
         /\ Gone \in 0..Len(queued) /\ Gone' \in Gone..Len(queued)
         /\ \A i \in (Gone + 1)..(Gone' - 1) : ~queued[i].stop
         /\ out_status' = IF Gone' # Gone /\ queued[Gone'].stop THEN "stopped" ELSE "open"
<1>1. blocks_out \in Nat /\ clip \in Int
  BY DEF SendInv, TypeOK
<1>2. CASE SendWrites
  <2>1. PICK n \in Nat, k \in Nat, c \in Int, v \in Seq(Entry) :
          /\ queued' = queued /\ out_status = "open"
          /\ c = ClipFor(jobs, blocks_out + k) /\ (clip >= 0 => c >= 0)
          /\ IF repeat
             THEN /\ c # 0 /\ jobs' = jobs /\ out_status' = out_status
                  /\ blocks_out' = blocks_out + k
             ELSE Finish(v, c, blocks_out + k)
    <3> HIDE DEF ClipFor, Finish, repeat, SendWrites
    <3> QED  BY <1>2, WriteShift
  <2> DEFINE out == blocks_out + k
  <2>2. out \in Nat /\ blocks_out <= out
    BY <1>1
  <2>3. \/ /\ c # 0 /\ jobs' = jobs /\ out_status' = out_status /\ blocks_out' = out
        \/ jobs' = LeftJobs(out) /\ blocks_out' = 0
           /\ out_status' = IF c = 0 THEN "stopped" ELSE out_status
    <3> HIDE DEF repeat, LeftJobs
    <3> QED  BY <2>1 DEF Finish, StopReached
  <2>4. c = ClipFor(jobs, out) /\ (clip >= 0 => c >= 0) /\ queued' = queued /\ out_status = "open"
    BY <2>1
  <2> HIDE DEF out, ClipFor, LeftJobs, SendInv, HistInv, Gone
  <2> QED  BY <2>2, <2>3, <2>4, RoundPasses
<1>3. CASE SendGivesUp
  <2> DEFINE out == blocks_out
             c   == clip
  <2>1. Finish(vec, c, out) /\ queued' = queued /\ out_status = "open"
    BY <1>3 DEF SendGivesUp
  <2>2. jobs' = LeftJobs(out) /\ blocks_out' = 0
        /\ out_status' = IF c = 0 THEN "stopped" ELSE out_status
    BY <2>1 DEF Finish, StopReached
  <2>3. c = ClipFor(jobs, out) /\ (clip >= 0 => c >= 0) /\ c \in Int
    BY <1>1, ClipFacts
  <2>4. out \in Nat /\ blocks_out <= out
    BY <1>1
  <2> HIDE DEF out, c, ClipFor, LeftJobs, SendInv, HistInv, Gone
  <2> QED  BY <2>1, <2>2, <2>3, <2>4, RoundPasses
<1> QED  BY <1>2, <1>3

(* The units of a message that is queued: its header and its blocks.       *)
LEMMA EntriesUnits ==
  ASSUME NEW id \in Nat, NEW m \in Msgs, NEW stop \in BOOLEAN
  PROVE  /\ mtc_header_write(Blocks[m], stop) \in Seq(Unit)
         /\ [b \in 1..Len(Blocks[m]) |-> BlockUnits(id, m, b)] \in Seq(Seq(Unit))
         /\ Units(Entries(id, m, stop))
              = mtc_header_write(Blocks[m], stop)
                  \o FlattenSeq([b \in 1..Len(Blocks[m]) |-> BlockUnits(id, m, b)])
<1> DEFINE h   == mtc_header_write(Blocks[m], stop)
           n   == Len(Blocks[m])
           ds  == [b \in 1..n |-> BlockUnits(id, m, b)]
           new == Entries(id, m, stop)
           all == Datas(new)
<1>1. n \in Nat
  BY SendAssumptions
<1>2. h \in Seq(Unit)
  BY HeaderType
<1>3. new \in Seq(Entry) /\ Len(new) = n + 1
  BY EntriesType
<1>4. /\ new[1].data = h
      /\ \A b \in 1..n : b + 1 \in 1..Len(new) /\ new[b + 1].data = BlockUnits(id, m, b)
  BY <1>1, <1>3 DEF Entries
<1> HIDE DEF h, new
<1>5. /\ all \in Seq(Seq(Unit)) /\ Len(all) = Len(new)
      /\ \A i \in 1..Len(new) : all[i] = new[i].data /\ new[i].data \in Seq(Unit)
      /\ Units(new) = FlattenSeq(all)
  BY <1>3, UnitsOf
<1> HIDE DEF all
<1>6. ds \in Seq(Seq(Unit)) /\ Len(ds) = n /\ \A b \in 1..n : ds[b] = BlockUnits(id, m, b)
  <2>1. \A b \in 1..n : BlockUnits(id, m, b) \in Seq(Unit)
    BY <1>4, <1>5
  <2> HIDE DEF n
  <2> QED  BY <1>1, <2>1
<1> HIDE DEF ds, n
<1>7. Len(all) = Len(ds) + 1 /\ all[1] = h /\ \A i \in 1..Len(ds) : all[i + 1] = ds[i]
  <2>1. 1 \in 1..Len(new) /\ Len(ds) = n /\ Len(all) = Len(new)
    BY <1>1, <1>3, <1>5, <1>6
  <2>2. all[1] = h
    BY <1>4, <1>5, <2>1
  <2>3. ASSUME NEW i \in 1..Len(ds) PROVE all[i + 1] = ds[i]
    <3>1. i \in 1..n
      BY <2>1
    <3> QED  BY <1>4, <1>5, <1>6, <3>1
  <2> QED  BY <1>3, <2>1, <2>2, <2>3
<1>8. FlattenSeq(all) = h \o FlattenSeq(ds)
  BY ONLY <1>2, <1>5, <1>6, <1>7, FlattenCons
<1> QED  BY <1>2, <1>5, <1>6, <1>8 DEF h, ds, n, new

(* Queueing puts its units behind all others.                              *)
LEMMA QueueUnits ==
  ASSUME SendInv, NEW m \in Msgs, NEW stop \in BOOLEAN, Queue(m, stop)
  PROVE  LET new == Entries(Len(queued) + 1, m, stop)
         IN  /\ new \in Seq(Entry) /\ vec' = vec \o new
             /\ Units(new) \in Seq(Unit) /\ Units(vec) \in Seq(Unit)
             /\ Units(vec') = Units(vec) \o Units(new)
<1> DEFINE new == Entries(Len(queued) + 1, m, stop)
<1>1. Len(queued) + 1 \in Nat /\ vec \in Seq(Entry)
  BY DEF SendInv, TypeOK
<1>2. new \in Seq(Entry) /\ vec' = vec \o new
  BY <1>1, EntriesType DEF Queue
<1> HIDE DEF new
<1> DEFINE both == vec \o new
<1>3. /\ Len(both) = Len(vec) + Len(new) /\ both \in Seq(Entry)
      /\ \A i \in 1..Len(vec) : both[i] = vec[i]
      /\ \A i \in 1..Len(new) : both[Len(vec) + i] = new[i]
  BY <1>1, <1>2, Joins
<1> HIDE DEF both
<1>4. /\ Datas(vec) \in Seq(Seq(Unit)) /\ Len(Datas(vec)) = Len(vec)
      /\ Units(vec) = FlattenSeq(Datas(vec)) /\ Units(vec) \in Seq(Unit)
      /\ \A i \in 1..Len(vec) : Datas(vec)[i] = vec[i].data
  BY <1>1, UnitsOf
<1>5. /\ Datas(new) \in Seq(Seq(Unit)) /\ Len(Datas(new)) = Len(new)
      /\ Units(new) = FlattenSeq(Datas(new)) /\ Units(new) \in Seq(Unit)
      /\ \A i \in 1..Len(new) : Datas(new)[i] = new[i].data
  BY <1>2, UnitsOf
<1>6. /\ Datas(both) \in Seq(Seq(Unit)) /\ Len(Datas(both)) = Len(both)
      /\ Units(both) = FlattenSeq(Datas(both))
      /\ \A i \in 1..Len(both) : Datas(both)[i] = both[i].data
  BY <1>3, UnitsOf
<1> DEFINE p == Datas(vec)
           q == Datas(new)
           r == Datas(both)
<1>7. /\ p \in Seq(Seq(Unit)) /\ q \in Seq(Seq(Unit)) /\ r \in Seq(Seq(Unit))
      /\ Len(p) \in Nat /\ Len(q) \in Nat /\ Len(r) = Len(p) + Len(q)
      /\ \A i \in 1..Len(p) : r[i] = p[i]
      /\ \A i \in 1..Len(q) : r[Len(p) + i] = q[i]
  <2>1. Len(vec) \in Nat /\ Len(new) \in Nat
    BY <1>1, <1>2
  <2>2. \A i \in 1..Len(vec) : i \in 1..Len(both)
    BY <1>3, <2>1
  <2>3. \A i \in 1..Len(new) : Len(vec) + i \in 1..Len(both)
    BY <1>3, <2>1
  <2>4. ASSUME NEW i \in 1..Len(p) PROVE r[i] = p[i]
    BY <1>3, <1>4, <1>6, <2>2
  <2>5. ASSUME NEW i \in 1..Len(q) PROVE r[Len(p) + i] = q[i]
    <3>1. i \in 1..Len(new) /\ Len(p) = Len(vec) /\ Len(vec) + i \in 1..Len(both)
      BY <1>4, <1>5, <2>3
    <3>2. r[Len(vec) + i] = both[Len(vec) + i].data
      BY <1>6, <3>1
    <3>3. both[Len(vec) + i] = new[i]
      BY <1>3, <3>1
    <3> QED  BY <1>5, <3>1, <3>2, <3>3
  <2>6. /\ p \in Seq(Seq(Unit)) /\ q \in Seq(Seq(Unit)) /\ r \in Seq(Seq(Unit))
        /\ Len(p) \in Nat /\ Len(q) \in Nat /\ Len(r) = Len(p) + Len(q)
    BY <1>3, <1>4, <1>5, <1>6, <2>1
  <2> HIDE DEF p, q, r
  <2> QED  BY <2>4, <2>5, <2>6
<1> HIDE DEF p, q, r
<1>8. r = p \o q
  <2> DEFINE pq == p \o q
  <2>1. /\ pq \in Seq(Seq(Unit)) /\ Len(pq) = Len(p) + Len(q)
        /\ \A i \in 1..Len(p) : pq[i] = p[i]
        /\ \A i \in 1..Len(q) : pq[Len(p) + i] = q[i]
    BY <1>7, Joins
  <2> HIDE DEF pq
  <2>2. \A i \in 1..Len(r) : r[i] = pq[i]
    <3> SUFFICES ASSUME NEW i \in 1..Len(r) PROVE r[i] = pq[i]
      OBVIOUS
    <3>1. CASE i <= Len(p)
      BY <1>7, <2>1, <3>1
    <3>2. CASE i > Len(p)
      <4>1. i - Len(p) \in 1..Len(q) /\ Len(p) + (i - Len(p)) = i
        BY <1>7, <3>2
      <4> QED  BY <1>7, <2>1, <4>1
    <3> QED  BY <1>7, <3>1, <3>2
  <2>3. r = pq
    BY <1>7, <2>1, <2>2, SeqEqual
  <2> QED  BY <2>3 DEF pq
<1>9. FlattenSeq(p \o q) = FlattenSeq(p) \o FlattenSeq(q)
  BY ONLY <1>7, FlattenConcat
<1>10. Units(both) = Units(vec) \o Units(new)
  BY <1>4, <1>5, <1>6, <1>8, <1>9 DEF p, q, r
<1> QED  BY <1>2, <1>4, <1>5, <1>10 DEF both, new

=============================================================================
