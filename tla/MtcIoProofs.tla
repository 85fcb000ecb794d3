---------------------------- MODULE MtcIoProofs ----------------------------
(***************************************************************************)
(* Headers, vectors and readers, for blocks of any number and size: a      *)
(* header carries exactly the messages that fit in it, and however a       *)
(* stream is cut into pieces, the vector of the sender and both readers of *)
(* the receiver are where one piece of the same length would have put them.*)
(***************************************************************************)
EXTENDS MCMtcIo, VectorLemmas, FiniteSetTheorems

-----------------------------------------------------------------------------
(* The header functions of fd_link.c agree on every message that fits a    *)
(* header, and on no other, whatever the width of a word.                  *)

(* The words of a header: what each unit of it holds.                      *)
LEMMA HeaderUnits ==
  ASSUME NEW sizes \in Seq(Nat), NEW stop \in BOOLEAN
  PROVE  LET header == mtc_header_write(sizes, stop)
             size   == IF stop THEN WithStopBit(Len(sizes)) ELSE Len(sizes)
         IN  /\ Len(header) = Len(sizes) + 2
             /\ header[1] = Magic /\ ValueOf(header[2]) = size
             /\ \A b \in 1..Len(sizes) :
                  ValueOf(header[b + 2]) = sizes[b] % WordLimit
<1> DEFINE header == mtc_header_write(sizes, stop)
           size   == IF stop THEN WithStopBit(Len(sizes)) ELSE Len(sizes)
           front  == <<Magic, Word(size)>>
           index  == [i \in 1..Len(sizes) |-> Word(sizes[i] % WordLimit)]
<1>1. header = front \o index
  BY DEF mtc_header_write
<1>2. \A n : ValueOf(Word(n)) = n
  BY DEF ValueOf, Word
<1>3. Len(front) = 2 /\ front[1] = Magic /\ front[2] = Word(size)
  OBVIOUS
<1>4. Len(index) = Len(sizes)
  OBVIOUS
<1> DEFINE T == {front[1], front[2]} \cup {index[i] : i \in 1..Len(sizes)}
<1>5. front \in Seq(T) /\ index \in Seq(T)
  OBVIOUS
<1> HIDE DEF size, front, index, T
<1>6. /\ Len(header) = 2 + Len(sizes)
      /\ \A i \in 1..(2 + Len(sizes)) :
           header[i] = IF i <= 2 THEN front[i] ELSE index[i - 2]
  <2> HIDE DEF header
  <2>1. /\ Len(front \o index) = Len(front) + Len(index)
        /\ \A i \in 1..(Len(front) + Len(index)) :
             (front \o index)[i] = IF i <= Len(front) THEN front[i]
                                                     ELSE index[i - Len(front)]
    BY <1>5, ConcatProperties
  <2>2. Len(front) = 2 /\ Len(index) = Len(sizes) /\ header = front \o index
    BY <1>1, <1>3, <1>4
  <2>3. QED
    BY <2>1, <2>2
<1>7. \A b \in 1..Len(sizes) : header[b + 2] = Word(sizes[b] % WordLimit)
  <2>1. \A b \in 1..Len(sizes) : index[b] = Word(sizes[b] % WordLimit)
    BY DEF index
  <2>2. ASSUME NEW b \in 1..Len(sizes) PROVE header[b + 2] = index[b]
    <3>1. b + 2 \in 1..(2 + Len(sizes)) /\ ~ (b + 2 <= 2) /\ (b + 2) - 2 = b
      OBVIOUS
    <3> HIDE DEF header
    <3>2. QED
      BY <1>6, <3>1
  <2>3. QED
    BY <2>1, <2>2
<1>8. Len(header) = Len(sizes) + 2 /\ header[1] = front[1] /\ header[2] = front[2]
  <2>1. 1 \in 1..(2 + Len(sizes)) /\ 2 \in 1..(2 + Len(sizes))
    OBVIOUS
  <2> HIDE DEF header
  <2>2. QED
    BY <1>6, <2>1
<1>9. QED
  BY <1>2, <1>3, <1>7, <1>8 DEF header, size

(* What the receiver makes of the part of a header that it reads first.    *)
LEMMA HeaderRead ==
  ASSUME NEW sizes \in Seq(Nat), sizes # <<>>, NEW stop \in BOOLEAN
  PROVE  LET size == IF stop THEN WithStopBit(Len(sizes)) ELSE Len(sizes)
         IN  mtc_header_read(SubSeq(mtc_header_write(sizes, stop),
                                    1, mtc_header_min_size))
               = [ok     |-> size % StopBit # 0,
                  size   |-> size % StopBit,
                  data_1 |-> sizes[1] % WordLimit,
                  stop   |-> size \div StopBit = 1]
<1> DEFINE header == mtc_header_write(sizes, stop)
           size   == IF stop THEN WithStopBit(Len(sizes)) ELSE Len(sizes)
           buf    == SubSeq(header, 1, mtc_header_min_size)
<1>1. mtc_header_min_size = 3
  BY DEF mtc_header_min_size, mtc_header_sizeof
<1>2. 1 \in 1..Len(sizes) /\ Len(sizes) >= 1
  OBVIOUS
<1>3. /\ Len(header) = Len(sizes) + 2
      /\ header[1] = Magic /\ ValueOf(header[2]) = size
      /\ ValueOf(header[3]) = sizes[1] % WordLimit
  BY <1>2, HeaderUnits
<1> HIDE DEF header, size
<1>4. buf = [i \in 1..3 |-> header[i]]
  BY <1>1, <1>2, <1>3
<1>5. buf[1] = Magic /\ ValueOf(buf[2]) = size /\ ValueOf(buf[3]) = sizes[1] % WordLimit
  BY <1>3, <1>4
<1> HIDE DEF buf
<1>6. QED
  BY <1>5 DEF mtc_header_read, buf, header, size

(* For every message, of any number of blocks of any sizes, and for every  *)
(* width of a word: the receiver reads back what the sender wrote exactly  *)
(* if the message fits the header.                                         *)
THEOREM HeaderCarriesAll ==
  \A sizes \in Seq(Nat), stop \in BOOLEAN : HeaderCarries(sizes, stop)
<1> SUFFICES ASSUME NEW sizes \in Seq(Nat), NEW stop \in BOOLEAN,
                    sizes # <<>>, Len(sizes) < WordLimit
             PROVE  RoundTrip(sizes, stop) <=> FitsHeader(sizes)
  BY DEF HeaderCarries
<1> DEFINE header == mtc_header_write(sizes, stop)
           n      == Len(sizes)
           size   == IF stop THEN WithStopBit(n) ELSE n
           fields == [ok     |-> size % StopBit # 0,
                      size   |-> size % StopBit,
                      data_1 |-> sizes[1] % WordLimit,
                      stop   |-> size \div StopBit = 1]
<1>1. n \in Nat \ {0} /\ 1 \in 1..n /\ \A b \in 1..n : sizes[b] \in Nat
  OBVIOUS
<1>2. StopBit \in Nat \ {0} /\ WordLimit \in Nat \ {0} /\ WordLimit = 2 * StopBit
  BY StopBitAssumption DEF WordLimit
<1>3. RoundTrip(sizes, stop) <=>
        /\ fields = [ok |-> TRUE, size |-> n, data_1 |-> sizes[1], stop |-> stop]
        /\ \A b \in 2..n : sizes[b] % WordLimit = sizes[b]
  <2>1. \A b \in 2..n : ValueOf(header[mtc_header_min_size + b - 1]) = sizes[b] % WordLimit
    <3>1. \A b \in 2..n : b \in 1..n /\ mtc_header_min_size + b - 1 = b + 2
      BY DEF mtc_header_min_size, mtc_header_sizeof
    <3>2. QED
      BY <3>1, HeaderUnits
  <2>2. QED
    BY <2>1, HeaderRead DEF RoundTrip
<1>4. ASSUME FitsHeader(sizes) PROVE RoundTrip(sizes, stop)
  <2>1. n < StopBit /\ n \in 0..(StopBit - 1)
    BY <1>1, <1>2, <1>4 DEF FitsHeader
  <2>2. \A b \in 1..n : sizes[b] % WordLimit = sizes[b]
    <3>1. \A b \in 1..n : sizes[b] \in 0..(WordLimit - 1)
      BY <1>1, <1>2, <1>4 DEF FitsHeader
    <3>2. QED
      BY <3>1, <1>2, DivMod
  <2>3. size % StopBit = n /\ (size \div StopBit = 1 <=> stop)
    <3>1. CASE stop
      <4>1. size = n + StopBit
        BY <2>1, <3>1 DEF WithStopBit
      <4>2. QED
        BY <4>1, <3>1, <2>1, <1>2, DivMod
    <3>2. CASE ~ stop
      BY <3>2, <2>1, <1>2, DivMod
    <3>3. QED
      BY <3>1, <3>2
  <2>4. fields = [ok |-> TRUE, size |-> n, data_1 |-> sizes[1], stop |-> stop]
    <3>1. /\ (size % StopBit # 0) = TRUE /\ size % StopBit = n
          /\ sizes[1] % WordLimit = sizes[1]
      BY <2>2, <2>3, <1>1
    <3>2. (size \div StopBit = 1) = stop
      BY <2>3
    <3> HIDE DEF size, n
    <3>3. QED
      BY <3>1, <3>2
  <2>5. QED
    BY <1>3, <2>2, <2>4
<1>5. ASSUME RoundTrip(sizes, stop) PROVE FitsHeader(sizes)
  <2>1. fields.size = n /\ fields.data_1 = sizes[1]
    BY <1>3, <1>5
  <2>2. size \in Nat
    BY <1>1, <1>2 DEF WithStopBit
  <2>3. n < StopBit
    <3>1. size % StopBit \in 0..(StopBit - 1)
      BY <2>2, <1>2, ModBelow
    <3>2. QED
      BY <3>1, <2>1, <1>2
  <2>4. \A b \in 1..n : sizes[b] = sizes[b] % WordLimit
    <3>1. \A b \in 1..n : b = 1 \/ b \in 2..n
      OBVIOUS
    <3>2. \A b \in 2..n : sizes[b] % WordLimit = sizes[b]
      BY <1>3, <1>5
    <3>3. QED
      BY <3>1, <3>2, <2>1
  <2>5. \A b \in 1..n : sizes[b] < WordLimit
    <3>1. ASSUME NEW b \in 1..n PROVE sizes[b] < WordLimit
      <4>1. sizes[b] % WordLimit \in 0..(WordLimit - 1)
        BY <1>1, <1>2, ModBelow
      <4>2. QED
        BY <4>1, <2>4, <1>2
    <3>2. QED
      BY <3>1
  <2>6. QED
    BY <2>3, <2>5 DEF FitsHeader
<1>6. QED
  BY <1>4, <1>5

(* Of the blocks that a run starts with.                                   *)
THEOREM HeadersCarryAll == Spec => []AllHeadersCarry
<1>1. Init => lens \in Seq(Nat)
  <2> SUFFICES ASSUME Init PROVE lens \in Seq(Nat)
    OBVIOUS
  <2>1. PICK n \in 1..MaxBlocks : lens \in [1..n -> 0..MaxLen]
    BY DEF Init
  <2>2. n \in Nat /\ (0..MaxLen) \subseteq Nat
    BY BoundAssumption
  <2> QED  BY <2>1, <2>2
<1>2. lens \in Seq(Nat) /\ [Next]_<<lens, popped, rv, r>> => (lens \in Seq(Nat))'
  BY DEF Next, Move, Fails
<1>3. lens \in Seq(Nat) => AllHeadersCarry
  BY HeaderCarriesAll DEF AllHeadersCarry
<1> QED  BY <1>1, <1>2, <1>3, PTL DEF Spec

-----------------------------------------------------------------------------
(* Two pieces leave what one piece of both lengths leaves.                 *)
LEMMA TwoPieces ==
  ASSUME NEW v \in Seq(Nat), NEW m \in Nat, NEW n \in Nat
  PROVE  ConsumeRest(ConsumeRest(v, m), n) = ConsumeRest(v, m + n)
<1> DEFINE t == Through(v)
           k == Consumed(v, m)
           w == ConsumeRest(v, m)
           u == Through(w)
           j == Consumed(w, n)
           x == ConsumeRest(w, n)
           l == Consumed(v, m + n)
           y == ConsumeRest(v, m + n)
<1>1. /\ k \in 0..Len(v) /\ t[k] <= m /\ (k < Len(v) => m < t[k + 1])
      /\ w \in Seq(Nat) /\ Len(w) = Len(v) - k /\ Len(v) \in Nat
      /\ \A i \in 1..Len(w) : w[i] = IF i = 1 THEN v[k + 1] - (m - t[k]) ELSE v[k + i]
      /\ \A i \in 1..Len(w) : u[i] = t[k + i] - m
  <2>1. k \in 0..Len(v) /\ t[k] <= m /\ (k < Len(v) => m < t[k + 1])
    BY ConsumedFacts
  <2>2. /\ w \in Seq(Nat) /\ Len(w) = Len(v) - k
        /\ \A i \in 1..Len(w) : w[i] = IF i = 1 THEN v[k + 1] - (m - t[k]) ELSE v[k + i]
        /\ \A i \in 1..Len(w) : u[i] = t[k + i] - m
    BY ConsumeLeaves
  <2> HIDE DEF k, w, t, u
  <2> QED  BY <2>1, <2>2
<1> HIDE DEF k, w
<1>2. /\ j \in 0..Len(w) /\ u[j] <= n /\ (j < Len(w) => n < u[j + 1])
      /\ x \in Seq(Nat) /\ Len(x) = Len(w) - j
      /\ \A i \in 1..Len(x) : x[i] = IF i = 1 THEN w[j + 1] - (n - u[j]) ELSE w[j + i]
  BY <1>1, ConsumedFacts, ConsumeLeaves
<1> HIDE DEF j, x
<1>3. m + n \in Nat
  OBVIOUS
<1>4. /\ y \in Seq(Nat) /\ Len(y) = Len(v) - l
      /\ \A i \in 1..Len(y) : y[i] = IF i = 1 THEN v[l + 1] - ((m + n) - t[l]) ELSE v[l + i]
  BY <1>3, ConsumeLeaves
<1>5. /\ \A i \in 0..Len(v) : t[i] \in Nat
      /\ \A i \in 1..Len(v) : t[i] = t[i - 1] + v[i] /\ v[i] \in Nat
      /\ \A i \in 0..Len(w) : u[i] \in Nat
      /\ \A i \in 1..Len(w) : u[i] = u[i - 1] + w[i] /\ w[i] \in Nat
      /\ u[0] = 0
  BY <1>1, ThroughFacts
<1> HIDE DEF t, u
<1>6. k + j \in 0..Len(v)
  BY <1>1, <1>2
<1>7. t[k + j] <= m + n
  <2>1. CASE j = 0
    <3>1. k + j = k /\ t[k] \in Nat
      BY <1>1, <1>5, <2>1
    <3> QED  BY <1>1, <3>1
  <2>2. CASE j # 0
    <3>1. j \in 1..Len(w)
      BY <1>1, <1>2, <2>2
    <3>2. u[j] = t[k + j] - m /\ t[k + j] \in Nat /\ u[j] <= n
      BY <1>1, <1>2, <1>5, <1>6, <3>1
    <3> QED  BY <3>2
  <2> QED  BY <2>1, <2>2
<1>8. ASSUME k + j < Len(v)
      PROVE  /\ j + 1 \in 1..Len(w) /\ (k + j) + 1 \in 1..Len(v)
             /\ u[j + 1] = t[(k + j) + 1] - m /\ m + n < t[(k + j) + 1]
  <2>1. j + 1 \in 1..Len(w) /\ (k + j) + 1 \in 1..Len(v) /\ k + (j + 1) = (k + j) + 1 /\ j < Len(w)
    BY <1>1, <1>2, <1>8
  <2>2. u[j + 1] = t[(k + j) + 1] - m /\ n < u[j + 1] /\ t[(k + j) + 1] \in Nat
    BY <1>1, <1>2, <1>5, <2>1
  <2> QED  BY <2>1, <2>2
<1>9. k + j = l
  <2> HIDE DEF l
  <2>1. /\ Through(v)[k + j] <= m + n
        /\ k + j < Len(v) => m + n < Through(v)[(k + j) + 1]
    BY <1>7, <1>8 DEF t
  <2> QED  BY <1>3, <1>6, <2>1, ConsumedOnce DEF l
<1> HIDE DEF l, y
<1>10. Len(x) = Len(y)
  BY <1>1, <1>2, <1>4, <1>9
<1>11. ASSUME NEW i \in 1..Len(x) PROVE x[i] = y[i]
  <2>0. k \in Nat /\ j \in Nat /\ l = k + j /\ Len(x) = Len(v) - l /\ l \in 0..Len(v)
    <3>1. k \in Nat /\ j \in Nat /\ l = k + j /\ l \in 0..Len(v)
      <4>1. k \in Nat
        BY <1>1
      <4>2. j \in Nat
        BY <1>2
      <4>3. l = k + j /\ l \in 0..Len(v)
        BY <1>6, <1>9
      <4> QED  BY <4>1, <4>2, <4>3
    <3>2. Len(x) = (Len(v) - k) - j /\ Len(v) \in Nat
      BY <1>1, <1>2
    <3> HIDE DEF x
    <3> QED  BY <3>1, <3>2
  <2>1. /\ j + i \in 1..Len(w) /\ l + i \in 1..Len(v) /\ k + (j + i) = l + i
        /\ i \in 1..Len(y) /\ k + j < Len(v)
    BY <1>1, <1>2, <1>10, <2>0
  <2>2. CASE i = 1
    <3>1. x[i] = w[j + 1] - (n - u[j]) /\ y[i] = v[l + 1] - ((m + n) - t[l])
      BY <1>2, <1>4, <2>1, <2>2
    <3>2. u[j + 1] = u[j] + w[j + 1] /\ t[l + 1] = t[l] + v[l + 1]
      <4>1. (j + 1) - 1 = j /\ (l + 1) - 1 = l /\ j + 1 \in 1..Len(w) /\ l + 1 \in 1..Len(v)
        BY <1>1, <1>2, <1>9, <2>1, <2>2
      <4> QED  BY <1>5, <4>1
    <3>3. u[j + 1] = t[l + 1] - m
      BY <1>8, <1>9, <2>1
    <3>4. /\ u[j] \in Nat /\ w[j + 1] \in Nat /\ t[l] \in Nat /\ v[l + 1] \in Nat
          /\ t[l + 1] \in Nat
      <4>1. l + 1 \in 1..Len(v) /\ l + 1 \in 0..Len(v) /\ j + 1 \in 1..Len(w)
        BY <2>0, <2>1, <2>2
      <4> QED  BY <1>2, <1>5, <2>0, <4>1
    <3>5. j \in Nat /\ l \in Nat
      BY <2>0
    <3> DEFINE a == w[j + 1]
               b == u[j]
               c == v[l + 1]
               d == t[l]
    <3>6. /\ x[i] = a - (n - b) /\ y[i] = c - ((m + n) - d)
          /\ a \in Nat /\ b \in Nat /\ c \in Nat /\ d \in Nat /\ b + a = (d + c) - m
      BY <3>1, <3>2, <3>3, <3>4
    <3> HIDE DEF a, b, c, d
    <3> QED  BY <3>6
  <2>3. CASE i # 1
    <3>1. x[i] = w[j + i] /\ y[i] = v[l + i] /\ j + i # 1
      BY <1>2, <1>4, <2>1, <2>3
    <3>2. w[j + i] = v[k + (j + i)]
      BY <1>1, <2>1, <3>1
    <3> QED  BY <2>1, <3>1, <3>2
  <2> QED  BY <2>2, <2>3
<1>12. x = y
  <2>1. x = [i \in 1..Len(x) |-> x[i]] /\ y = [i \in 1..Len(y) |-> y[i]]
    BY <1>2, <1>4
  <2> QED  BY <1>10, <1>11, <2>1
<1> QED  BY <1>12 DEF x, y, w

(* The reference is what one piece leaves.                                 *)
LEMMA RestIsOnePiece ==
  ASSUME lens \in Seq(Nat), NEW m \in Nat
  PROVE  Rest(m) = ConsumeRest(lens, m)
<1> DEFINE t    == Through(lens)
           k    == Consumed(lens, m)
           done == {b \in 1..Len(lens) : t[b] <= m}
<1>1. /\ k \in 0..Len(lens) /\ t[k] <= m /\ (k < Len(lens) => m < t[k + 1])
      /\ Len(lens) \in Nat
  BY ConsumedFacts
<1> HIDE DEF k
<1>2. /\ \A b \in 0..Len(lens) : t[b] \in Nat
      /\ \A b \in 1..Len(lens) : t[b] = t[b - 1] + lens[b] /\ lens[b] \in Nat
  BY ThroughFacts
<1>3. \A b \in 1..Len(lens) : t[b] <= m <=> b <= k
  <2> TAKE b \in 1..Len(lens)
  <2>1. ASSUME b <= k PROVE t[b] <= m
    <3>1. b \in 0..Len(lens) /\ k \in b..Len(lens) /\ k \in 0..Len(lens)
      BY <1>1, <2>1
    <3>2. t[b] <= t[k] /\ t[b] \in Nat /\ t[k] \in Nat
      BY <1>2, <3>1, ThroughMonotone
    <3> HIDE DEF t
    <3> QED  BY <1>1, <3>2
  <2>2. ASSUME ~(b <= k) PROVE m < t[b]
    <3>1. k + 1 \in 0..Len(lens) /\ b \in (k + 1)..Len(lens) /\ k < Len(lens)
          /\ b \in 0..Len(lens)
      BY <1>1, <2>2
    <3>2. t[k + 1] <= t[b] /\ t[k + 1] \in Nat /\ t[b] \in Nat
      BY <1>2, <3>1, ThroughMonotone
    <3> HIDE DEF t
    <3> QED  BY <1>1, <3>1, <3>2
  <2>3. t[b] \in Nat
    BY <1>2
  <2> HIDE DEF t
  <2> QED  BY <2>1, <2>2, <2>3
<1>4. done = 1..k /\ Cardinality(done) = k
  <2>1. done = 1..k
    BY <1>1, <1>3
  <2>2. Cardinality(1..k) = k
    BY <1>1, FS_Interval
  <2> QED  BY <2>1, <2>2
<1>5. Rest(m) = [i \in 1..(Len(lens) - k) |-> IF i = 1 THEN t[k + 1] - m ELSE lens[k + i]]
  BY <1>4 DEF Rest
<1>6. ConsumeRest(lens, m)
        = [i \in 1..(Len(lens) - k) |-> IF i = 1 THEN lens[k + 1] - (m - t[k]) ELSE lens[k + i]]
  BY DEF ConsumeRest, DropBlocks, Left, k
<1>7. ASSUME NEW i \in 1..(Len(lens) - k), i = 1
      PROVE  t[k + 1] - m = lens[k + 1] - (m - t[k])
  <2>1. k + 1 \in 1..Len(lens) /\ (k + 1) - 1 = k /\ k + 1 \in 0..Len(lens)
    BY <1>1, <1>7
  <2>2. /\ t[k + 1] = t[k] + lens[k + 1] /\ t[k] \in Nat /\ lens[k + 1] \in Nat
        /\ t[k + 1] \in Nat
    BY <1>1, <1>2, <2>1
  <2> QED  BY ONLY <2>2, m \in Nat
<1> HIDE DEF t
<1> QED  BY <1>5, <1>6, <1>7

(* What is left after m bytes: nothing exactly when that is all, and no    *)
(* empty block if there was none.                                          *)
LEMMA RestFacts ==
  ASSUME lens \in Seq(Nat), NEW m \in 0..Total
  PROVE  /\ Total \in Nat /\ Rest(m) \in Seq(Nat)
         /\ Rest(m) = <<>> <=> m = Total
         /\ NoEmptyBlock => /\ Rest(m) \in Seq(Nat \ {0})
                            /\ Through(Rest(m))[Len(Rest(m))] = Total - m
<1> DEFINE t    == Through(lens)
           k    == Consumed(lens, m)
           rest == Rest(m)
<1>1. Total \in Nat /\ m \in Nat /\ m <= Total /\ Len(lens) \in Nat
  <2>1. t[Len(lens)] \in Nat /\ Len(lens) \in Nat
    BY ThroughFacts
  <2> QED  BY <2>1 DEF Total
<1>2. k \in 0..Len(lens) /\ t[k] <= m /\ (k < Len(lens) => m < t[k + 1])
  BY <1>1, ConsumedFacts
<1>3. rest \in Seq(Nat) /\ Len(rest) = Len(lens) - k
      /\ \A i \in 1..Len(rest) : Through(rest)[i] = t[k + i] - m
  <2>1. rest = ConsumeRest(lens, m)
    BY <1>1, RestIsOnePiece
  <2> QED  BY <1>1, <2>1, ConsumeLeaves
<1>4. Through(rest)[0] = 0
  BY <1>3, ThroughFacts
<1>5. NoEmptyBlock => rest \in Seq(Nat \ {0})
  <2>1. NoEmptyBlock => lens \in Seq(Nat \ {0})
    BY DEF NoEmptyBlock
  <2> QED  BY <1>1, <2>1, RestIsOnePiece, ConsumeRestFacts
<1> HIDE DEF rest, k
<1>6. CASE k = Len(lens)
  <2>1. m = Total
    BY <1>1, <1>2, <1>6 DEF Total
  <2>2. Len(rest) = 0 /\ rest = <<>>
    BY <1>1, <1>3, <1>6
  <2>3. Through(rest)[Len(rest)] = Total - m
    BY <1>1, <1>4, <2>1, <2>2
  <2> QED  BY <1>1, <1>3, <1>5, <2>1, <2>2, <2>3 DEF rest
<1>7. CASE k # Len(lens)
  <2>1. Len(rest) \in 1..Len(rest) /\ k + Len(rest) = Len(lens) /\ rest # <<>>
        /\ k + 1 \in 0..Len(lens) /\ Len(lens) \in (k + 1)..Len(lens) /\ k < Len(lens)
    BY <1>1, <1>2, <1>3, <1>7
  <2>2. Through(rest)[Len(rest)] = Total - m
    <3>1. Through(rest)[Len(rest)] = t[k + Len(rest)] - m
      BY <1>3, <2>1
    <3> QED  BY <2>1, <3>1 DEF Total
  <2>3. m # Total
    <3>1. t[k + 1] <= t[Len(lens)] /\ t[k + 1] \in Nat
      BY <2>1, ThroughMonotone, ThroughFacts
    <3>2. t[k + 1] <= Total
      BY <3>1 DEF Total
    <3> HIDE DEF t
    <3> QED  BY <1>1, <1>2, <2>1, <3>1, <3>2
  <2> QED  BY <1>1, <1>3, <1>5, <2>1, <2>2, <2>3 DEF rest
<1> QED  BY <1>6, <1>7

-----------------------------------------------------------------------------
(* The invariant of the pieces: where the readers are, with what is to be  *)
(* shown of them.                                                          *)
Places ==
  /\ lens \in Seq(Nat)
  /\ r.reader.buf \in Seq(Nat) /\ Moved \in 0..Total
  /\ r.reader.len = Total - Moved
PiecesInv == Places /\ PopAddsUp /\ ReadersAgree

(* Nothing is moved at first.                                              *)
LEMMA PiecesBegin ==
  ASSUME Init
  PROVE  PiecesInv
<1>1. lens \in Seq(Nat) /\ lens # <<>> /\ Len(lens) \in Nat
  <2>1. PICK n \in 1..MaxBlocks : lens \in [1..n -> 0..MaxLen]
    BY DEF Init
  <2>2. n \in Nat \ {0} /\ (0..MaxLen) \subseteq Nat
    BY BoundAssumption
  <2>3. lens \in Seq(Nat) /\ Len(lens) = n
    BY <2>1, <2>2
  <2> QED  BY <2>2, <2>3
<1>2. lens[1] > 0 /\ lens[1] \in Nat /\ 1 \in 1..Len(lens)
  BY <1>1 DEF Init
<1>3. Total \in Nat /\ Total > 0
  <2>1. /\ 1 \in 0..Len(lens) /\ Len(lens) \in 1..Len(lens) /\ Len(lens) \in 0..Len(lens)
        /\ 1 - 1 = 0
    BY <1>1, <1>2
  <2>2. Through(lens)[1] = lens[1]
    <3>1. Through(lens)[1] = Through(lens)[1 - 1] + lens[1] /\ Through(lens)[0] = 0
      BY <1>1, <1>2, ThroughFacts
    <3> QED  BY <1>2, <2>1, <3>1
  <2>3. Through(lens)[1] <= Through(lens)[Len(lens)] /\ Through(lens)[Len(lens)] \in Nat
    BY <1>1, <2>1, ThroughMonotone, ThroughFacts
  <2> QED  BY <1>2, <2>2, <2>3 DEF Total
<1>4. /\ r.reader.buf = <<>> /\ r.reader.len = Total /\ r.io = MTC_IO_TEMP /\ Moved = 0
      /\ rv.reader.buf = <<>> /\ rv.reader.lens = lens /\ rv.io = MTC_IO_TEMP
      /\ popped = lens
  BY DEF Init, Moved, mtc_reader_init, mtc_reader_v_init
<1>5. Rest(0) = lens
  <2>1. \A b \in 1..Len(lens) : Through(lens)[b] > 0
    <3> TAKE b \in 1..Len(lens)
    <3>1. 1 \in 0..Len(lens) /\ b \in 1..Len(lens) /\ b \in 0..Len(lens) /\ 1 - 1 = 0
      BY <1>1
    <3>2. Through(lens)[1] <= Through(lens)[b] /\ Through(lens)[b] \in Nat
      BY <1>1, <3>1, ThroughMonotone, ThroughFacts
    <3>3. Through(lens)[1] = Through(lens)[1 - 1] + lens[1] /\ Through(lens)[0] = 0
      BY <1>1, <1>2, ThroughFacts
    <3> QED  BY <1>2, <3>1, <3>2, <3>3
  <2>2. {b \in 1..Len(lens) : Through(lens)[b] <= 0} = {}
    <3>1. \A b \in 1..Len(lens) : Through(lens)[b] \in Nat
      BY <1>1, ThroughFacts
    <3> QED  BY <2>1, <3>1
  <2>3. Cardinality({}) = 0
    BY FS_EmptySet
  <2>4. Through(lens)[0 + 1] - 0 = lens[1]
    <3>1. Through(lens)[1] = Through(lens)[1 - 1] + lens[1] /\ Through(lens)[0] = 0
      BY <1>1, <1>2, ThroughFacts
    <3>2. 1 - 1 = 0 /\ 0 + 1 = 1
      OBVIOUS
    <3> QED  BY <1>2, <3>1, <3>2
  <2>5. Rest(0) = [i \in 1..Len(lens) |-> lens[i]]
    <3>1. Rest(0) = [i \in 1..(Len(lens) - 0) |->
                       IF i = 1 THEN Through(lens)[0 + 1] - 0 ELSE lens[0 + i]]
      BY <2>2, <2>3 DEF Rest
    <3>2. Len(lens) - 0 = Len(lens) /\ \A i \in 1..Len(lens) : 0 + i = i
      BY <1>1
    <3>3. \A i \in 1..Len(lens) :
            (IF i = 1 THEN Through(lens)[0 + 1] - 0 ELSE lens[0 + i]) = lens[i]
      BY <2>4, <3>2
    <3> QED  BY <3>1, <3>2, <3>3
  <2> QED  BY <1>1, <2>5
<1>6. Places
  BY <1>1, <1>3, <1>4 DEF Places
<1>7. PopAddsUp
  BY <1>4, <1>5 DEF PopAddsUp
<1>8. ReadersAgree
  <2>1. <<>> = [i \in 1..0 |-> i]
    OBVIOUS
  <2>2. MTC_IO_TEMP # MTC_IO_OK
    BY DEF MTC_IO_TEMP, MTC_IO_OK
  <2>3. (r.io = MTC_IO_OK) = (Moved = Total)
    BY <1>3, <1>4, <2>2
  <2> QED  BY <1>4, <1>5, <2>1, <2>3 DEF ReadersAgree
<1> QED  BY <1>6, <1>7, <1>8 DEF PiecesInv

(* A piece is moved.                                                       *)
LEMMA MoveAddsUp ==
  ASSUME PiecesInv, NEW n \in 1..(Total - Moved), Move(n)
  PROVE  PiecesInv'
<1> DEFINE m     == Moved
           units == [i \in 1..n |-> m + i]
           left  == r.reader.len - n
<1>1. /\ lens \in Seq(Nat) /\ r.reader.buf \in Seq(Nat) /\ m \in 0..Total
      /\ r.reader.len = Total - m /\ popped = Rest(m)
  BY DEF PiecesInv, Places, PopAddsUp
<1>2. Total \in Nat
  <2>1. Through(lens)[Len(lens)] \in Nat
    BY <1>1, ThroughFacts
  <2> QED  BY <2>1 DEF Total
<1>3. /\ n \in Nat \ {0} /\ m \in Nat /\ m # Total /\ m + n \in 0..Total /\ m + n \in Nat
      /\ r.reader.len # 0 /\ left = Total - (m + n)
  BY <1>1, <1>2
<1>4. /\ popped' = ConsumeRest(popped, n) /\ lens' = lens
      /\ rv' = mtc_reader_v_read(rv.reader, Data(units))
      /\ r' = mtc_reader_read(r.reader, Data(units))
  BY DEF Move
<1>5. units \in Seq(Nat) /\ Len(units) = n
  BY <1>3
<1>6. Data(units).kind = "data" /\ Data(units).units = units
  BY DEF Data
<1> HIDE DEF units, left
<1>7. /\ r'.reader.buf = r.reader.buf \o units /\ r'.reader.len = left
      /\ r'.io = IF left > 0 THEN MTC_IO_TEMP ELSE MTC_IO_OK
  BY <1>3, <1>4, <1>5, <1>6 DEF mtc_reader_read, left
<1>8. r'.reader.buf \in Seq(Nat) /\ Moved' = m + n
  BY <1>1, <1>5, <1>7 DEF Moved
<1>9. Total' = Total /\ \A i : Rest(i)' = Rest(i)
  BY <1>4 DEF Total, Rest
<1>10. Rest(Moved)' = Rest(m + n)
  BY <1>4, <1>8 DEF Rest
<1>11. ConsumeRest(Rest(m), n) = Rest(m + n)
  BY <1>1, <1>3, RestIsOnePiece, TwoPieces
<1>12. Places'
  BY <1>1, <1>3, <1>4, <1>7, <1>8, <1>9 DEF Places
<1>13. PopAddsUp'
  BY <1>1, <1>4, <1>10, <1>11 DEF PopAddsUp
<1>14. ReadersAgree'
  <2>1. SUFFICES ASSUME NoEmptyBlock
                 PROVE  /\ rv'.reader.lens = Rest(m + n)
                        /\ rv'.io = r'.io /\ rv'.reader.buf = r'.reader.buf
                        /\ r'.reader.buf = [i \in 1..(m + n) |-> i]
                        /\ (r'.io = MTC_IO_OK) = (m + n = Total)
    BY <1>4, <1>8, <1>9, <1>10 DEF ReadersAgree, NoEmptyBlock
  <2>2. /\ rv.reader.lens = Rest(m) /\ rv.reader.buf = r.reader.buf
        /\ r.reader.buf = [i \in 1..m |-> i]
    BY <2>1 DEF PiecesInv, ReadersAgree
  <2>3. /\ Rest(m) # <<>> /\ Rest(m) \in Seq(Nat \ {0})
        /\ Through(Rest(m))[Len(Rest(m))] = Total - m
    BY <1>1, <1>3, <2>1, RestFacts
  <2>4. FillRest(Rest(m), n) = Rest(m + n)
    <3>1. n <= Through(Rest(m))[Len(Rest(m))]
      BY <1>1, <1>2, <2>3
    <3>2. Filled(Rest(m), n) = Consumed(Rest(m), n)
      BY <1>3, <2>3, <3>1, FilledIsConsumed
    <3> QED  BY <1>11, <3>2 DEF FillRest, ConsumeRest
  <2>5. Rest(m + n) = <<>> <=> m + n = Total
    BY <1>1, <1>3, RestFacts
  <2>6. /\ rv'.reader.lens = Rest(m + n) /\ rv'.reader.buf = r.reader.buf \o units
        /\ rv'.io = IF Rest(m + n) # <<>> THEN MTC_IO_TEMP ELSE MTC_IO_OK
    BY <1>4, <1>5, <1>6, <2>2, <2>3, <2>4 DEF mtc_reader_v_read
  <2>7. left > 0 <=> m + n # Total
    BY <1>2, <1>3
  <2>8. MTC_IO_TEMP # MTC_IO_OK
    BY DEF MTC_IO_TEMP, MTC_IO_OK
  <2>9. rv'.io = r'.io /\ (r'.io = MTC_IO_OK) = (m + n = Total)
    BY <1>7, <2>5, <2>6, <2>7, <2>8
  <2>10. r'.reader.buf = [i \in 1..(m + n) |-> i]
    <3> DEFINE a == [i \in 1..m |-> i]
    <3>1. a \in Seq(Nat) /\ Len(a) = m /\ r.reader.buf = a
      BY <1>3, <2>2
    <3>2. \A i \in 1..n : units[i] = m + i
      BY DEF units
    <3>3. a \o units = [i \in 1..(m + n) |-> i]
      <4> DEFINE both == a \o units
      <4>1. \A i \in 1..m : a[i] = i
        OBVIOUS
      <4> HIDE DEF a, m
      <4>2. /\ both \in Seq(Nat) /\ Len(both) = m + n
            /\ \A i \in 1..m : both[i] = a[i]
            /\ \A i \in 1..n : both[m + i] = units[i]
        <5> DEFINE U == Nat
        <5>1. a \in Seq(U) /\ units \in Seq(U) /\ both = a \o units
          BY <1>5, <3>1
        <5> HIDE DEF both, U
        <5>2. /\ both \in Seq(U) /\ Len(both) = Len(a) + Len(units)
              /\ \A i \in 1..Len(a) : both[i] = a[i]
              /\ \A i \in 1..Len(units) : both[Len(a) + i] = units[i]
          BY ONLY <5>1, Joins
        <5> QED  BY <1>5, <3>1, <5>2 DEF U
      <4> HIDE DEF both
      <4>3. ASSUME NEW i \in 1..(m + n) PROVE both[i] = i
        <5>1. CASE i <= m
          BY <1>3, <4>1, <4>2, <5>1
        <5>2. CASE ~(i <= m)
          <6>1. i - m \in 1..n /\ m + (i - m) = i
            BY <1>3, <5>2
          <6>2. both[m + (i - m)] = m + (i - m)
            BY <3>2, <4>2, <6>1
          <6> QED  BY <6>1, <6>2
        <5> QED  BY <5>1, <5>2
      <4>4. both = [i \in 1..(m + n) |-> both[i]]
        BY <4>2
      <4>5. both = [i \in 1..(m + n) |-> i]
        BY <4>3, <4>4
      <4> QED  BY <4>5 DEF both
    <3> QED  BY <1>7, <3>1, <3>3
  <2> QED  BY <1>7, <2>6, <2>9, <2>10
<1> QED  BY <1>12, <1>13, <1>14 DEF PiecesInv

(* A read that gives nothing moves nothing.                                *)
LEMMA FailsAddsUp ==
  ASSUME PiecesInv, NEW answer \in {Temp, Eof, Severe}, Moved < Total, Fails(answer)
  PROVE  PiecesInv'
<1>1. /\ lens \in Seq(Nat) /\ Moved \in 0..Total /\ r.reader.len = Total - Moved
      /\ popped = Rest(Moved)
  BY DEF PiecesInv, Places, PopAddsUp
<1>2. Total \in Nat
  <2>1. Through(lens)[Len(lens)] \in Nat
    BY <1>1, ThroughFacts
  <2> QED  BY <2>1 DEF Total
<1>3. r.reader.len # 0 /\ Moved # Total
  BY <1>1, <1>2
<1>4. answer.kind # "data" /\ ErrorStatus(answer) # MTC_IO_OK
  BY DEF Temp, Eof, Severe, ErrorStatus, MTC_IO_OK, MTC_IO_TEMP, MTC_IO_EOF, MTC_IO_SEVERE
<1>5. /\ r' = mtc_reader_read(r.reader, answer) /\ rv' = mtc_reader_v_read(rv.reader, answer)
      /\ lens' = lens /\ popped' = popped
  BY DEF Fails
<1>6. r'.reader = r.reader /\ r'.io = ErrorStatus(answer)
  BY <1>3, <1>4, <1>5 DEF mtc_reader_read
<1>7. Moved' = Moved /\ Total' = Total /\ Rest(Moved)' = Rest(Moved)
  BY <1>5, <1>6 DEF Moved, Total, Rest
<1>8. Places'
  BY <1>5, <1>6, <1>7 DEF PiecesInv, Places
<1>9. PopAddsUp'
  BY <1>1, <1>5, <1>7 DEF PopAddsUp
<1>10. ReadersAgree'
  <2>1. SUFFICES ASSUME NoEmptyBlock
                 PROVE  /\ rv'.reader.lens = Rest(Moved)
                        /\ rv'.io = r'.io /\ rv'.reader.buf = r'.reader.buf
                        /\ r'.reader.buf = [i \in 1..Moved |-> i]
                        /\ (r'.io = MTC_IO_OK) = (Moved = Total)
    BY <1>5, <1>7 DEF ReadersAgree, NoEmptyBlock
  <2>2. /\ rv.reader.lens = Rest(Moved) /\ rv.reader.buf = r.reader.buf
        /\ r.reader.buf = [i \in 1..Moved |-> i]
    BY <2>1 DEF PiecesInv, ReadersAgree
  <2>3. Rest(Moved) # <<>>
    BY <1>1, <1>3, RestFacts
  <2>4. rv'.reader = rv.reader /\ rv'.io = ErrorStatus(answer)
    BY <1>4, <1>5, <2>2, <2>3 DEF mtc_reader_v_read
  <2> QED  BY <1>3, <1>4, <1>6, <2>2, <2>4
<1> QED  BY <1>8, <1>9, <1>10 DEF PiecesInv

(* However the stream is cut: every state of the run.                      *)
THEOREM PiecesInvariant == Spec => []PiecesInv
<1>1. Init => PiecesInv
  BY PiecesBegin
<1>2. PiecesInv /\ [Next]_<<lens, popped, rv, r>> => PiecesInv'
  <2>1. ASSUME PiecesInv, UNCHANGED <<lens, popped, rv, r>> PROVE PiecesInv'
    BY <2>1 DEF PiecesInv, Places, PopAddsUp, ReadersAgree, NoEmptyBlock, Moved, Total, Rest
  <2> QED  BY <2>1, MoveAddsUp, FailsAddsUp DEF Next
<1> QED  BY <1>1, <1>2, PTL DEF Spec

(* Pieces add up: the vector after any sequence of short writes is what    *)
(* one write of the same bytes leaves (mtc_fd_link_pop_iov).               *)
THEOREM PopsAddUp == Spec => []PopAddsUp
<1>1. PiecesInv => PopAddsUp
  BY DEF PiecesInv
<1> QED  BY <1>1, PiecesInvariant, PTL

(* Both readers say and store the same, and say MTC_IO_OK exactly when all *)
(* of it is there (mtc_reader_read, mtc_reader_v_read).                    *)
THEOREM BothReadersAgree == Spec => []ReadersAgree
<1>1. PiecesInv => ReadersAgree
  BY DEF PiecesInv
<1> QED  BY <1>1, PiecesInvariant, PTL

=============================================================================
